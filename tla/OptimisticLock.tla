--------------------------- MODULE OptimisticLock ---------------------------
(***************************************************************************)
(* The version column: clients that read, insert, update and delete one    *)
(* record of a table whose struct has a `version` field.                   *)
(*                                                                         *)
(* Update adds "version = <the bean's>" to the condition and               *)
(* "version = version + 1" to the SET list.  The bean's own field is       *)
(* not read back: Insert and Update add 1 to it on their own.              *)
(* Every call sends one statement, and is one step.                        *)
(*                                                                         *)
(* The database is external: read committed, a write waits for the         *)
(* transaction that wrote the record.  A statement that returns an error   *)
(* changes neither the record nor the bean, and is not shown.  The id of a *)
(* deleted record is not used again (an auto-increment key).               *)
(***************************************************************************)
EXTENDS Naturals

CONSTANTS
    Client, NoClient,
    Preset,       \* the values callers leave in the version field before Insert
    MaxGen,       \* bound: how many inserts and checked updates take effect
    MaxVer        \* bound: the largest version a bean reaches

ASSUME OptimisticLockAssumption ==
    /\ NoClient \notin Client
    /\ Preset \subseteq Nat /\ MaxGen \in Nat /\ MaxVer \in Nat

VARIABLES
    row,        \* the committed record
    work,       \* the record in the transaction of the client that wrote it
    lock,       \* that client, NoClient when there is none
    inTx,       \* the clients that are in a transaction
    bean,       \* the bean each client holds
    lastGen,    \* history: inserts and checked updates are numbered
    log         \* history: the checked updates that changed the record

vars == <<row, work, lock, inTx, bean, lastGen, log>>

\* gen is a history field: which write made the record what it is.
Row == [st : {"none", "live", "gone"}, ver : Nat, gen : Nat]
Absent == [st |-> "none", ver |-> 0, gen |-> 0]

\* ver is the bean's version field.  The rest is history: gen is the write whose
\* result the bean shows, kind how the caller came by it: "synced" from Get, from
\* an Update of one record, from an Insert of a zero version or without a check;
\* "preset" from an Insert of another version; "unchecked" from InsertOne with
\* NoVersionCheck; "refused" when Update changed no record, "undone" when the
\* transaction that wrote the record was rolled back, and the caller keeps the bean.
Kind == {"nil", "synced", "preset", "unchecked", "refused", "undone"}
Bean == [kind : Kind, ver : Nat, gen : Nat]
NoBean == [kind |-> "nil", ver |-> 0, gen |-> 0]

Entry == [kind : Kind, base : Nat, prev : Nat]

TypeOK ==
    /\ row \in Row /\ work \in Row
    /\ lock \in Client \cup {NoClient}
    /\ inTx \in [Client -> BOOLEAN]
    /\ bean \in [Client -> Bean]
    /\ lastGen \in 0..MaxGen
    /\ log \subseteq Entry

Init ==
    /\ row = Absent /\ work = Absent
    /\ lock = NoClient
    /\ inTx = [c \in Client |-> FALSE]
    /\ bean = [c \in Client |-> NoBean]
    /\ lastGen = 0
    /\ log = {}

----------------------------------------------------------------------------
(* The database *)

Seen(c) == IF lock = c THEN work ELSE row

\* A statement of c leaves the record as r.
Put(c, r) ==
    /\ lock \in {NoClient, c}
    /\ IF inTx[c] THEN work' = r /\ lock' = c /\ UNCHANGED row
                  ELSE row' = r /\ UNCHANGED <<work, lock>>

Begin(c) ==
    /\ ~inTx[c]
    /\ inTx' = [inTx EXCEPT ![c] = TRUE]
    /\ UNCHANGED <<row, work, lock, bean, lastGen, log>>

Release(c) == IF lock = c THEN lock' = NoClient /\ work' = Absent
                          ELSE UNCHANGED <<lock, work>>

Commit(c) ==
    /\ inTx[c]
    /\ inTx' = [inTx EXCEPT ![c] = FALSE]
    /\ row' = Seen(c)
    /\ Release(c)
    /\ UNCHANGED <<bean, lastGen, log>>

\* Rollback leaves the beans as they are.
Rollback(c) ==
    /\ inTx[c]
    /\ inTx' = [inTx EXCEPT ![c] = FALSE]
    /\ Release(c)
    /\ bean' = IF lock = c /\ bean[c] # NoBean
               THEN [bean EXCEPT ![c].kind = "undone"] ELSE bean
    /\ UNCHANGED <<row, lastGen, log>>

----------------------------------------------------------------------------
(* The calls of a session *)

Get(c) ==
    /\ Seen(c).st = "live"
    /\ bean' = [bean EXCEPT ![c] =
                   [kind |-> "synced", ver |-> Seen(c).ver, gen |-> Seen(c).gen]]
    /\ UNCHANGED <<row, work, lock, inTx, lastGen, log>>

\* The version genInsertColumns and insertMultipleStruct write.
InsertedVer(v, check) == IF check THEN 1 ELSE v

NewRow(c, ver) ==
    /\ Seen(c).st = "none" /\ lastGen < MaxGen
    /\ lastGen' = lastGen + 1
    /\ Put(c, [st |-> "live", ver |-> ver, gen |-> lastGen + 1])
    /\ UNCHANGED <<inTx, log>>

NewBean(c, kind, ver) ==
    bean' = [bean EXCEPT ![c] = [kind |-> kind, ver |-> ver, gen |-> lastGen + 1]]

\* Mutant: the field keeps its value.
InsertKeepsVersion(c, v, check) ==
    /\ NewRow(c, InsertedVer(v, check))
    /\ NewBean(c, IF check /\ v # 0 THEN "preset" ELSE "synced", v)

\* insertStruct of a bean whose version field holds v adds 1 to the field, unless
\* NoVersionCheck was called.
Insert(c, v, check) ==
    /\ NewRow(c, InsertedVer(v, check))
    /\ NewBean(c, IF check /\ v # 0 THEN "preset" ELSE "synced", IF check THEN v + 1 ELSE v)

\* InsertOne lets exec reset the statement, and so adds 1 with NoVersionCheck too.
InsertOne(c, v, check) ==
    /\ NewRow(c, InsertedVer(v, check))
    /\ NewBean(c, IF ~check THEN "unchecked" ELSE IF v # 0 THEN "preset" ELSE "synced", v + 1)

\* insertMultipleStruct sets the field to 1.
InsertMultiple(c, v, check) ==
    /\ NewRow(c, InsertedVer(v, check))
    /\ NewBean(c, "synced", InsertedVer(v, check))

\* The condition of Update.
UpdateMatches(c) == Seen(c).st = "live" /\ Seen(c).ver = bean[c].ver

UpdateReadsVersionBack(c) ==
    /\ bean[c] # NoBean /\ bean[c].ver < MaxVer
    /\ Seen(c).st = "live" /\ lastGen < MaxGen
    /\ lastGen' = lastGen + 1
    /\ Put(c, [st |-> "live", ver |-> Seen(c).ver + 1, gen |-> lastGen + 1])
    /\ bean' = [bean EXCEPT ![c] = [kind |-> "synced", ver |-> Seen(c).ver + 1,
                                    gen |-> lastGen + 1]]
    /\ log' = log \cup {[kind |-> bean[c].kind, base |-> bean[c].gen,
                         prev |-> Seen(c).gen]}
    /\ UNCHANGED inTx

\* Update returning 1.
Update(c) ==
    /\ bean[c] # NoBean /\ bean[c].ver < MaxVer
    /\ UpdateMatches(c) /\ lastGen < MaxGen
    /\ lastGen' = lastGen + 1
    /\ Put(c, [st |-> "live", ver |-> Seen(c).ver + 1, gen |-> lastGen + 1])
    /\ bean' = [bean EXCEPT ![c] = [kind |-> "synced", ver |-> @.ver + 1,
                                    gen |-> lastGen + 1]]
    /\ log' = log \cup {[kind |-> bean[c].kind, base |-> bean[c].gen,
                         prev |-> Seen(c).gen]}
    /\ UNCHANGED inTx

\* Update returning 0: no record has the bean's version.  The field is incremented
\* all the same.
UpdateRefused(c) ==
    /\ bean[c] # NoBean /\ bean[c].ver < MaxVer
    /\ ~UpdateMatches(c)
    /\ lock \in {NoClient, c}
    /\ bean' = [bean EXCEPT ![c].ver = @ + 1, ![c].kind = "refused"]
    /\ UNCHANGED <<row, work, lock, inTx, lastGen, log>>

\* Update with NoVersionCheck or of a map: neither checks nor changes the version.
UpdateNoCheck(c) ==
    /\ Seen(c).st = "live"
    /\ Put(c, Seen(c))
    /\ UNCHANGED <<inTx, bean, lastGen, log>>

\* Delete has no check of its own.  MergeConds makes a condition of every non-zero
\* field of the bean it is given, the version too; a Delete by ID or conditions alone
\* is not held up by it.  Neither a DELETE nor the UPDATE of a soft deletion changes
\* the version.
Delete(c, byBean) ==
    /\ Seen(c).st = "live"
    /\ byBean => bean[c] # NoBean /\ bean[c].ver \in {0, Seen(c).ver}
    /\ Put(c, [Seen(c) EXCEPT !.st = "gone"])
    /\ UNCHANGED <<inTx, bean, lastGen, log>>

Next ==
    \E c \in Client :
        \/ Begin(c) \/ Commit(c) \/ Rollback(c)
        \/ Get(c)
        \/ \E v \in Preset, check \in BOOLEAN :
              Insert(c, v, check) \/ InsertOne(c, v, check) \/ InsertMultiple(c, v, check)
        \/ Update(c) \/ UpdateRefused(c) \/ UpdateNoCheck(c)
        \/ \E byBean \in BOOLEAN : Delete(c, byBean)

Spec == Init /\ [][Next]_vars

----------------------------------------------------------------------------
(* Properties *)

Synced(c) == bean[c].kind = "synced"

\* No lost update: a client that fetches the record again when its Update changed
\* nothing or was rolled back never overwrites an update it has not seen, whatever
\* the other clients do: reuse refused beans, preset versions, skip the check.
NoLostUpdate == \A u \in log : u.kind = "synced" => u.base = u.prev

\* Update decides right both ways: the bean of such a client has the version of the
\* record exactly when it shows the last write, so a current bean is never refused
\* although its field is counted up by the session and not read back.
VersionMeansCurrent ==
    \A c \in Client :
        Synced(c) => (bean[c].ver = Seen(c).ver <=> bean[c].gen = Seen(c).gen)

\* What makes them inductive: versions and writes go up together, and a synced bean
\* is not ahead of the record.
NotAhead ==
    \A c \in Client : Synced(c) =>
        /\ Seen(c).st # "none"
        /\ bean[c].ver <= Seen(c).ver /\ bean[c].gen <= Seen(c).gen

WorkFollowsRow ==
    lock # NoClient =>
        /\ inTx[lock]
        /\ work.st # "none" /\ 0 < work.gen
        /\ row.ver <= work.ver /\ row.gen <= work.gen
        /\ row.st # "none" => (row.ver = work.ver <=> row.gen = work.gen)

GenNumbered ==
    /\ row.gen <= lastGen /\ work.gen <= lastGen
    /\ row.st = "none" <=> row.gen = 0
    /\ row.st = "none" => row.ver = 0
=============================================================================
