------------------------------- MODULE Cacher -------------------------------
(***************************************************************************)
(* What the Cacher interface promises its callers: two maps, beans by      *)
(* table and id and id lists by SQL text, that may forget anything at any  *)
(* time but never invent a value nor keep one that was deleted, cleared or *)
(* replaced.                                                               *)
(***************************************************************************)
CONSTANTS Table, Id, Sql,
          BeanKey,    \* the beans of the program, by table and id
          SqlTable,   \* the table a SQL text selects from
          Value, None

VARIABLES beans,  \* the cached beans
          ids,    \* the cached id lists
          call    \* the last call: its name, its key, the value it put or returned

cvars == <<beans, ids, call>>

NoCall == <<"none", None, None>>

CInit ==
    /\ beans = [k \in BeanKey |-> None]
    /\ ids = [s \in Sql |-> None]
    /\ call = NoCall

\* n is m with some entries forgotten.
Forgets(m, n) == /\ DOMAIN n = DOMAIN m
                 /\ \A k \in DOMAIN m : n[k] \in {m[k], None}

\* The maps become b and i, or less.
BecomeAtMost(b, i) == Forgets(b, beans') /\ Forgets(i, ids')

WithoutBeans(t) == [k \in BeanKey |-> IF k[1] = t THEN None ELSE beans[k]]
WithoutIds(t) == [s \in Sql |-> IF SqlTable[s] = t THEN None ELSE ids[s]]

CGetBean(t, i) ==
    /\ \E r \in {beans[<<t, i>>], None} : call' = <<"GetBean", <<t, i>>, r>>
    /\ BecomeAtMost(beans, ids)

CGetIds(s) ==
    /\ \E r \in {ids[s], None} : call' = <<"GetIds", s, r>>
    /\ BecomeAtMost(beans, ids)

CPutBean(t, i, v) ==
    /\ call' = <<"PutBean", <<t, i>>, v>>
    /\ BecomeAtMost([beans EXCEPT ![<<t, i>>] = v], ids)

CPutIds(s, v) ==
    /\ call' = <<"PutIds", s, v>>
    /\ BecomeAtMost(beans, [ids EXCEPT ![s] = v])

CDelBean(t, i) ==
    /\ call' = <<"DelBean", <<t, i>>, None>>
    /\ BecomeAtMost([beans EXCEPT ![<<t, i>>] = None], ids)

CDelIds(s) ==
    /\ call' = <<"DelIds", s, None>>
    /\ BecomeAtMost(beans, [ids EXCEPT ![s] = None])

CClearBeans(t) ==
    /\ call' = <<"ClearBeans", t, None>>
    /\ BecomeAtMost(WithoutBeans(t), ids)

CClearIds(t) ==
    /\ call' = <<"ClearIds", t, None>>
    /\ BecomeAtMost(beans, WithoutIds(t))

\* The owner makes a new cache.
CStartsEmpty ==
    /\ beans' = [k \in BeanKey |-> None] /\ ids' = [s \in Sql |-> None]
    /\ call' = NoCall

Forget == UNCHANGED call /\ BecomeAtMost(beans, ids)

CNext ==
    \/ \E t \in Table, i \in Id :
          /\ <<t, i>> \in BeanKey
          /\ CGetBean(t, i) \/ CDelBean(t, i) \/ \E v \in Value : CPutBean(t, i, v)
    \/ \E s \in Sql : CGetIds(s) \/ CDelIds(s) \/ \E v \in Value : CPutIds(s, v)
    \/ \E t \in Table : CClearBeans(t) \/ CClearIds(t)
    \/ CStartsEmpty \/ Forget

CSpec == CInit /\ [][CNext]_cvars
=============================================================================
