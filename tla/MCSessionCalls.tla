--------------------------- MODULE MCSessionCalls ---------------------------
\* Instances of SessionCalls for TLC: five records, conditions that overlap.
EXTENDS SessionCalls

MCMatch == [where |-> {1, 2, 3}, or |-> {3, 4}, id |-> {2}, bean |-> {2, 3, 4, 5},
            deleted |-> {1, 2, 4, 5}, ver |-> {1, 2, 3, 5}]

AllDialects == {"mysql", "postgres", "mssql", "mssql_legacy", "oracle",
                "oracle_legacy", "dameng"}
AnyCall == {"Where", "Or", "BadWhere", "ID", "Table", "Limit", "OrderBy", "Join", "GroupBy",
            "Having", "SQL", "Cols", "Distinct", "Omit", "AllCols", "Incr", "Decr", "SetExpr",
            "ForUpdate", "Unscoped", "NoAutoCondition", "NoVersionCheck", "NoAutoTime",
            "BufferSize", "IndexHint"}

\* Every pair of methods and, after a pair that ends in an Or, any third.
AllCalls(s, n) == IF n < 2 \/ s.cond.lead # {} THEN AnyCall ELSE {}

\* For Update: a condition, an order and a limit in any order.
UpdateCalls(s, n) == {"Where", "OrderBy", "Limit"}
=============================================================================
