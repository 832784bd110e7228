---------------------------- MODULE MCLRUCacher ----------------------------
(* What a bean or an id list contains does not matter, only whether it is    *)
(* the latest.  A table with two beans and a query and one with one bean, so *)
(* that lists are evicted, cleared and collected in all orders.  The ids of  *)
(* the first table and the values can be exchanged.                          *)
EXTENDS LRUCacher, TLC

CONSTANTS t1, t2, i1, i2, i3, q1
MCBeanKey == {<<t1, i1>>, <<t1, i2>>, <<t2, i3>>}
MCSqlTable == [q \in Sql |-> t1]
MCSymmetry == Permutations({i1, i2}) \cup Permutations(Value)

\* No action reads call and trusted, and TLC compares them with what Cacher allows on
\* every step.
MCViewWithoutCall == <<beans, ids, idList, sqlList, idIndex, sqlIndex, idTables, mutexHeld,
                       restarted, badBeans, badIds, strays>>
============================================================================
