---------------------------- MODULE TokensProofs ----------------------------
(* Proofs about Tokens, for any accounts, any finite set of runs and any    *)
(* pool: types and the connections out of the pool; that every honoured     *)
(* token is within reach; that no row goes back to an older token; that the *)
(* runs leave a connection free and go forward.                             *)
EXTENDS Tokens, FiniteSetTheorems, TLAPS

USE DEF twitchVars, runVars, poolVars

\* The types alone, without the pool's bookkeeping.
Types ==
  /\ row \in [Accounts -> Nat] /\ live \in [Accounts -> Nat] /\ last \in [Accounts -> Nat]
  /\ at \in [Runs -> Places] /\ todo \in [Runs -> SUBSET Accounts]
  /\ snap \in [Runs -> [Accounts -> Nat]] /\ con \in [Runs -> Accounts]
  /\ hand \in [Runs -> Nat]
  /\ closing \in BOOLEAN /\ lost \subseteq Accounts /\ others \in Nat

Pool == used = Cardinality(Open) + others /\ used <= MaxConns

LEMMA OpenIsFinite == IsFiniteSet(Open) /\ Cardinality(Open) \in Nat
<1>1. Open \subseteq Runs
  BY DEF Open
<1>2. IsFiniteSet(Open)
  BY <1>1, RunsAssumption, FS_Subset
<1> QED BY <1>2, FS_CardinalityType

\* What Twitch does to an account keeps the numbers numbers.
LEMMA IssueTypes ==
  ASSUME Types, NEW a \in Accounts, Issue(a)
  PROVE  live' \in [Accounts -> Nat] /\ last' \in [Accounts -> Nat]
BY DEF Types, Issue

LEMMA RestartTypes ==
  ASSUME Types, NEW issued \in SUBSET Accounts, Restart(issued)
  PROVE  /\ row' \in [Accounts -> Nat] /\ con' \in [Runs -> Accounts]
         /\ at' \in [Runs -> Places] /\ todo' \in [Runs -> SUBSET Accounts]
         /\ snap' \in [Runs -> [Accounts -> Nat]] /\ hand' \in [Runs -> Nat]
         /\ closing' \in BOOLEAN /\ lost' \subseteq Accounts /\ others' \in Nat
BY RotatingAssumption DEF Types, Restart, NoRows, Places

\* Types is inductive.
LEMMA TypesStep == Types /\ [Next]_vars => Types'
<1> SUFFICES ASSUME Types, [Next]_vars PROVE Types'
  OBVIOUS
<1>1. ASSUME NEW j \in Runs, Start(j) \/ QueryFails(j) \/ Validate(j) \/ Refused(j)
      PROVE  Types'
  BY <1>1 DEF Types, Start, QueryFails, Validate, Refused, Move, Places
<1>2. ASSUME NEW j \in Runs, Query(j) PROVE Types'
  BY <1>2 DEF Types, Query, Move, Places
<1>3. ASSUME NEW j \in Runs, Done(j) PROVE Types'
  BY <1>3 DEF Types, Done, Move, Places, NoRows
<1>4. ASSUME NEW j \in Runs, NEW a \in Accounts, Scan(j, a) PROVE Types'
  BY <1>4 DEF Types, Scan, Move, Places
<1>5. ASSUME NEW j \in Runs, Refreshed(j) PROVE Types'
  <2>1. con[j] \in Accounts
    BY DEF Types
  <2>2. live' \in [Accounts -> Nat] /\ last' \in [Accounts -> Nat]
    BY <1>5, <2>1, IssueTypes DEF Refreshed, Honours
  <2> QED BY <1>5, <2>1, <2>2 DEF Types, Refreshed, Move, Places
<1>6. ASSUME NEW j \in Runs, Unread(j) PROVE Types'
  <2>1. con[j] \in Accounts
    BY DEF Types
  <2>2. live' \in [Accounts -> Nat] /\ last' \in [Accounts -> Nat]
    BY <1>6, <2>1, IssueTypes DEF Unread, Honours
  <2> QED BY <1>6, <2>1, <2>2 DEF Types, Unread, Dropped, Move, Places
<1>7. ASSUME NEW j \in Runs, Panic(j) PROVE Types'
  <2>1. con[j] \in Accounts
    BY DEF Types
  <2>2. live' \in [Accounts -> Nat] /\ last' \in [Accounts -> Nat]
    BY <1>7, <2>1, IssueTypes DEF Panic, Honours, Types
  <2>3. Restart({con[j]}) \/ Restart({})
    BY <1>7 DEF Panic
  <2> QED BY <2>1, <2>2, <2>3, RestartTypes DEF Types
<1>8. ASSUME NEW j \in Runs, Upsert(j) PROVE Types'
  <2>1. row' \in [Accounts -> Nat] /\ hand' \in [Runs -> Nat] /\ at' \in [Runs -> Places]
    <3>1. hand[j] \in Nat
      BY DEF Types
    <3>2. row' = row \/ row' = [row EXCEPT ![con[j]] = hand[j]]
      BY <1>8 DEF Upsert, Store, StoreFails, StoreRejected, GiveUp
    <3>3. hand' = [hand EXCEPT ![j] = 0] /\ at' = [at EXCEPT ![j] = "next"]
      BY <1>8 DEF Upsert, Store, StoreFails, StoreRejected, GiveUp, Move
    <3> QED BY <3>1, <3>2, <3>3 DEF Types, Places
  <2>2. lost' \subseteq Accounts
    <3>1. con[j] \in Accounts /\ lost \subseteq Accounts
      BY DEF Types
    <3>2. lost' = lost \/ lost' = lost \cup {con[j]}
      BY <1>8 DEF Upsert, Store, StoreFails, StoreRejected, GiveUp, Dropped
    <3> QED BY <3>1, <3>2
  <2> QED BY <1>8, <2>1, <2>2 DEF Types, Upsert, Store, StoreFails, StoreRejected, GiveUp
<1>9. CASE Kill \/ Exit
  BY <1>9, RestartTypes DEF Types, Kill, Exit
<1>10. CASE Shutdown \/ Take
  <2>1. others' \in Nat
    BY <1>10 DEF Types, Shutdown, Take
  <2>2. closing' \in BOOLEAN
    <3>1. closing' = TRUE \/ closing' = closing
      BY <1>10 DEF Shutdown, Take
    <3> QED BY <3>1 DEF Types
  <2> QED BY <1>10, <2>1, <2>2 DEF Types, Shutdown, Take
<1>11. CASE Give
  BY <1>11 DEF Types, Give
<1>12. ASSUME NEW a \in Accounts, Revoke(a) PROVE Types'
  BY <1>12 DEF Types, Revoke
<1>13. CASE UNCHANGED vars
  BY <1>13 DEF Types, vars
<1> QED BY <1>1, <1>2, <1>3, <1>4, <1>5, <1>6, <1>7, <1>8, <1>9, <1>10, <1>11, <1>12, <1>13
        DEF Next, Run, Refresh

\* The pool's bookkeeping is inductive.
LEMMA PoolStep == Types /\ Pool /\ [Next]_vars => Pool'
<1> SUFFICES ASSUME Types, Pool, [Next]_vars PROVE Pool'
  OBVIOUS
<1>o. IsFiniteSet(Open) /\ Cardinality(Open) \in Nat /\ others \in Nat
  BY OpenIsFinite DEF Types
<1>1. ASSUME Open' = Open, used' = used, others' = others PROVE Pool'
  BY <1>1 DEF Pool
<1>2. ASSUME NEW j \in Runs,
             Start(j) \/ QueryFails(j) \/ Validate(j) \/ Refused(j) \/ Refreshed(j) \/ Unread(j)
               \/ Upsert(j) \/ \E a \in Accounts : Scan(j, a)
      PROVE  Pool'
  <2>1. \E to \in Places : at' = [at EXCEPT ![j] = to]
                            /\ (at[j] \in {"off", "query"} <=> to \in {"off", "query"})
    BY <1>2 DEF Start, QueryFails, Validate, Refused, Refreshed, Unread, Upsert, Store,
                StoreFails, StoreRejected, GiveUp, Scan, Move, Places, Types
  <2>2. Open' = Open
    BY <2>1 DEF Open, Types
  <2>3. used' = used /\ others' = others
    BY <1>2 DEF Start, QueryFails, Validate, Refused, Refreshed, Unread, Upsert, Store,
                StoreFails, StoreRejected, GiveUp, Scan
  <2> QED BY <1>1, <2>2, <2>3
<1>3. ASSUME NEW j \in Runs, Query(j) PROVE Pool'
  <2>1. j \notin Open /\ Open' = Open \cup {j}
    BY <1>3 DEF Query, Open, Move, Places, Types
  <2>2. Cardinality(Open') = Cardinality(Open) + 1
    BY <1>o, <2>1, FS_AddElement
  <2> QED BY <1>o, <1>3, <2>2, PoolAssumption DEF Query, Pool
<1>4. ASSUME NEW j \in Runs, Done(j) PROVE Pool'
  <2>1. j \in Open /\ Open' = Open \ {j}
    BY <1>4 DEF Done, Open, Move, Places, Types
  <2>2. Cardinality(Open') = Cardinality(Open) - 1
    BY <1>o, <2>1, FS_RemoveElement
  <2> QED BY <1>o, <1>4, <2>2, PoolAssumption DEF Done, Pool
<1>5. ASSUME NEW issued, Restart(issued) PROVE Pool'
  <2>1. Open' = {}
    BY <1>5 DEF Restart, Open, Places
  <2>2. Cardinality(Open') = 0
    BY <2>1, FS_EmptySet
  <2> QED BY <1>5, <2>2, PoolAssumption DEF Restart, Pool
<1>6. CASE Shutdown \/ UNCHANGED vars \/ \E a \in Accounts : Revoke(a)
  <2>1. at' = at /\ used' = used /\ others' = others
    BY <1>6 DEF Shutdown, Revoke, vars
  <2> QED BY <1>1, <2>1 DEF Open
<1>7. CASE Take \/ Give
  <2>1. Open' = Open
    BY <1>7 DEF Take, Give, Open
  <2> QED BY <1>o, <1>7, <2>1, PoolAssumption DEF Take, Give, Pool
<1> QED BY <1>2, <1>3, <1>4, <1>5, <1>6, <1>7
        DEF Next, Run, Refresh, Panic, Kill, Exit

LEMMA TypesInit == Init => Types
<1> SUFFICES ASSUME Init PROVE Types
  OBVIOUS
<1>1. row \in [Accounts -> Nat]
  BY DEF Init
<1> QED BY <1>1 DEF Init, Types, Places, NoRows

\* Types hold and no connection of the pool is lost or given out twice.
THEOREM TypeCorrect == Spec => []TypeOK
<1>1. Init => Types
  BY TypesInit
<1>2. Init => Pool
  <2> SUFFICES ASSUME Init PROVE Pool
    OBVIOUS
  <2>1. Open = {}
    BY DEF Init, Open, Places
  <2>2. Cardinality(Open) = 0
    BY <2>1, FS_EmptySet
  <2> QED BY <2>2, PoolAssumption DEF Init, Pool
<1>3. Types /\ Pool => TypeOK
  BY DEF Types, Pool, TypeOK
<1> QED BY <1>1, <1>2, <1>3, TypesStep, PoolStep, PTL DEF Spec

-----------------------------------------------------------------------------
(* The grants: where the newest token of an account can be.                 *)

InStore(j, a) == at[j] = "store" /\ con[j] = a

\* A snapshot is no newer than the row, and the row than what Twitch issued.
Ages(a) ==
  /\ row[a] <= last[a]
  /\ live[a] \in {0, last[a]}
  /\ \A j \in Runs : snap[j][a] <= row[a]

\* A run that has a token has the newest one, and it is alone: nobody else can
\* have used the token that Twitch took for it.
Holders(a) ==
  \A j \in Runs : InStore(j, a) =>
    /\ hand[j] = last[a]
    /\ a \in Rotating => row[a] < last[a] /\ \A i \in Runs : InStore(i, a) => i = j

\* An account whose token never changes has it in the table all the time.
Fixed(a) ==
  a \notin Rotating =>
    /\ live[a] \in {0, row[a]}
    /\ \A j \in Runs : InStore(j, a) => row[a] = last[a]

Reach(a) ==
  a \in Rotating =>
    live[a] = 0 \/ a \in lost \/ row[a] = live[a] \/ \E j \in Runs : InStore(j, a)

GrantOf(a) == Ages(a) /\ Holders(a) /\ Fixed(a) /\ Reach(a)

Grants == \A a \in Accounts : GrantOf(a)

\* A step that leaves an account's row and token alone, and its holders in place,
\* keeps its grant; others may drop out of the store state if it is accounted for.
LEMMA GrantKept ==
  ASSUME Types, NEW a \in Accounts, GrantOf(a),
         row'[a] = row[a], last'[a] = last[a], live'[a] \in {0, live[a]},
         \A j \in Runs : snap'[j][a] <= row[a],
         \A j \in Runs : InStore(j, a)' => InStore(j, a) /\ hand'[j] = hand[j],
         lost \subseteq lost',
         a \in Rotating /\ (\E j \in Runs : InStore(j, a) /\ ~InStore(j, a)') => a \in lost'
  PROVE  GrantOf(a)'
<1>1. Ages(a)'
  BY DEF GrantOf, Ages
<1>2. Holders(a)'
  BY DEF GrantOf, Holders
<1>3. Fixed(a)'
  BY DEF GrantOf, Fixed
<1>4. Reach(a)'
  BY DEF GrantOf, Reach
<1> QED BY <1>1, <1>2, <1>3, <1>4 DEF GrantOf

\* Where Twitch honours the token of a run, that token is the newest and in the
\* table, so nobody holds a newer one.
LEMMA HonoursIsNewest ==
  ASSUME Types, Grants, NEW j \in Runs, Honours(j)
  PROVE  /\ row[con[j]] = last[con[j]] /\ live[con[j]] = last[con[j]]
         /\ con[j] \in Rotating => \A i \in Runs : ~InStore(i, con[j])
<1>1. con[j] \in Accounts /\ row[con[j]] \in Nat /\ last[con[j]] \in Nat /\ Token(j) \in Nat
  BY DEF Types, Token
<1>2. Token(j) <= row[con[j]] /\ row[con[j]] <= last[con[j]]
  BY <1>1 DEF Grants, GrantOf, Ages, Token
<1>3. Token(j) = live[con[j]] /\ live[con[j]] = last[con[j]]
  BY <1>1 DEF Honours, Grants, GrantOf, Ages
<1>4. row[con[j]] = last[con[j]]
  BY <1>1, <1>2, <1>3
<1>5. con[j] \in Rotating => \A i \in Runs : ~InStore(i, con[j])
  BY <1>1, <1>4 DEF Grants, GrantOf, Holders
<1> QED BY <1>3, <1>4, <1>5

\* What the issue of a token does to each account.
LEMMA IssueEffect ==
  ASSUME Types, NEW b \in Accounts, Issue(b), NEW a \in Accounts
  PROVE  /\ a # b \/ b \notin Rotating => last'[a] = last[a] /\ live'[a] = live[a]
         /\ a = b /\ b \in Rotating => last'[a] = last[a] + 1 /\ live'[a] = last[a] + 1
BY DEF Types, Issue

\* Twitch has replaced an account's token and the new one is dropped.
LEMMA IssuedAndLost ==
  ASSUME Types, Grants, NEW j \in Runs, Honours(j), NEW a \in Accounts,
         row' = row, con[j] \in Rotating => con[j] \in lost', lost \subseteq lost',
         \A i \in Runs : snap'[i][a] = snap[i][a] \/ snap'[i][a] = 0,
         \A i \in Runs : InStore(i, a)' => InStore(i, a) /\ hand'[i] = hand[i],
         a \in Rotating /\ (\E i \in Runs : InStore(i, a) /\ ~InStore(i, a)') => a \in lost'
  PROVE  GrantOf(a)'
<1>c. con[j] \in Accounts /\ Issue(con[j])
  BY DEF Types, Honours
<1>t. /\ row[a] \in Nat /\ last[a] \in Nat /\ GrantOf(a)
      /\ \A i \in Runs : snap[i][a] \in Nat /\ snap[i][a] <= row[a]
  BY DEF Types, Grants, GrantOf, Ages
<1>s. ASSUME NEW i \in Runs PROVE snap'[i][a] <= row[a]
  <2>1. snap[i][a] \in Nat /\ snap[i][a] <= row[a] /\ row[a] \in Nat
    BY <1>t
  <2>2. CASE snap'[i][a] = snap[i][a]
    BY <2>1, <2>2
  <2>3. CASE snap'[i][a] = 0
    BY <2>1, <2>3
  <2> QED BY <2>2, <2>3
<1>1. CASE a = con[j] /\ a \in Rotating
  <2>1. last'[a] = last[a] + 1 /\ live'[a] = last[a] + 1 /\ row'[a] = row[a] /\ a \in lost'
    BY <1>1, <1>c, IssueEffect
  <2>2. \A i \in Runs : ~InStore(i, a)'
    BY <1>1, HonoursIsNewest
  <2>3. Ages(a)'
    BY <1>s, <1>t, <2>1 DEF GrantOf, Ages
  <2> QED BY <1>1, <2>1, <2>2, <2>3 DEF GrantOf, Holders, Fixed, Reach
<1>2. CASE ~(a = con[j] /\ a \in Rotating)
  <2>1. last'[a] = last[a] /\ live'[a] = live[a]
    BY <1>2, <1>c, IssueEffect
  <2> QED BY <1>s, <1>t, <2>1, GrantKept
<1> QED BY <1>1, <1>2

\* The step of one run from a place that is not the store, with nothing written.
LEMMA RunMoves ==
  ASSUME Types, Grants, NEW j \in Runs, NEW a \in Accounts, NEW to \in Places \ {"store"},
         at[j] # "store", Move(j, to),
         row' = row, live' = live, last' = last, hand' = hand, lost' = lost,
         \A i \in Runs \ {j} : con'[i] = con[i],
         \A i \in Runs : snap'[i][a] = snap[i][a] \/ snap'[i][a] = 0 \/ snap'[i][a] = row[a]
  PROVE  GrantOf(a)'
<1>t. row[a] \in Nat /\ live[a] \in Nat /\ GrantOf(a) /\ \A i \in Runs : snap[i][a] \in Nat
  BY DEF Types, Grants
<1>1. ASSUME NEW i \in Runs PROVE snap'[i][a] <= row[a]
  <2>1. snap[i][a] \in Nat /\ snap[i][a] <= row[a]
    BY <1>t DEF GrantOf, Ages
  <2> QED BY <1>t, <2>1
<1>2. ASSUME NEW i \in Runs PROVE InStore(i, a)' <=> InStore(i, a)
  BY DEF InStore, Move, Types
<1> QED BY <1>1, <1>2, <1>t, GrantKept

\* A restart drops what runs have in hand, and says so.
LEMMA RestartKeeps ==
  ASSUME Types, Grants, NEW issued \in SUBSET Accounts, Restart(issued), NEW a \in Accounts
  PROVE  /\ lost \subseteq lost' /\ row' = row
         /\ Rotating \cap issued \subseteq lost'
         /\ \A i \in Runs : snap'[i][a] = 0
         /\ \A i \in Runs : ~InStore(i, a)'
         /\ a \in Rotating /\ (\E i \in Runs : InStore(i, a)) => a \in lost'
BY DEF Restart, InStore, NoRows

\* Grants is inductive, given types.
LEMMA GrantsStep == Types /\ Grants /\ [Next]_vars => Grants'
<1> SUFFICES ASSUME Types, Grants, [Next]_vars, NEW a \in Accounts
             PROVE  GrantOf(a)'
  BY DEF Grants
<1>t. /\ row[a] \in Nat /\ last[a] \in Nat /\ live[a] \in Nat /\ GrantOf(a)
      /\ \A i \in Runs : snap[i][a] \in Nat /\ snap[i][a] <= row[a]
  BY DEF Types, Grants, GrantOf, Ages
<1>1. ASSUME NEW j \in Runs, Start(j) \/ QueryFails(j) \/ Validate(j) \/ Refused(j)
      PROVE  GrantOf(a)'
  <2>1. \E to \in Places \ {"store"} : Move(j, to) /\ at[j] # "store"
    BY <1>1 DEF Start, QueryFails, Validate, Refused, Places
  <2>2. UNCHANGED <<row, live, last, hand, lost, con, snap>>
    BY <1>1 DEF Start, QueryFails, Validate, Refused
  <2> QED BY <2>1, <2>2, RunMoves
<1>2. ASSUME NEW j \in Runs, Query(j) \/ Done(j) PROVE GrantOf(a)'
  <2>1. \E to \in Places \ {"store"} : Move(j, to) /\ at[j] # "store"
    BY <1>2 DEF Query, Done, Places
  <2>2. \A i \in Runs : snap'[i][a] = snap[i][a] \/ snap'[i][a] = 0 \/ snap'[i][a] = row[a]
    <3>1. NoRows[a] = 0
      BY DEF NoRows
    <3>2. snap' = [snap EXCEPT ![j] = row] \/ snap' = [snap EXCEPT ![j] = NoRows]
      BY <1>2 DEF Query, Done
    <3> QED BY <3>1, <3>2 DEF Types
  <2>3. UNCHANGED <<row, live, last, hand, lost, con>>
    BY <1>2 DEF Query, Done
  <2> QED BY <2>1, <2>2, <2>3, RunMoves
<1>3. ASSUME NEW j \in Runs, NEW b \in Accounts, Scan(j, b) PROVE GrantOf(a)'
  <2>1. \E to \in Places \ {"store"} : Move(j, to) /\ at[j] # "store"
    BY <1>3 DEF Scan, Places, Move, Types
  <2>2. \A i \in Runs \ {j} : con'[i] = con[i]
    BY <1>3 DEF Scan, Types
  <2>3. UNCHANGED <<row, live, last, hand, lost, snap>>
    BY <1>3 DEF Scan
  <2> QED BY <2>1, <2>2, <2>3, RunMoves
<1>4. ASSUME NEW j \in Runs, Refreshed(j) PROVE GrantOf(a)'
  <2>c. con[j] \in Accounts /\ Issue(con[j]) /\ Honours(j)
    BY <1>4 DEF Refreshed, Honours, Types
  <2>n. row[con[j]] = last[con[j]] /\ live[con[j]] = last[con[j]]
    BY <2>c, HonoursIsNewest
  <2>u. row' = row /\ snap' = snap /\ lost' = lost
    BY <1>4 DEF Refreshed
  <2>h. /\ \A i \in Runs : InStore(i, a)' <=> InStore(i, a) \/ (i = j /\ a = con[j])
        /\ \A i \in Runs \ {j} : hand'[i] = hand[i]
        /\ hand'[j] = live'[con[j]] /\ ~InStore(j, a)
    BY <1>4 DEF Refreshed, Move, InStore, Types
  <2>1. CASE a # con[j]
    <3>1. last'[a] = last[a] /\ live'[a] = live[a]
      BY <2>1, <2>c, IssueEffect
    <3> QED BY <1>t, <2>1, <2>u, <2>h, <3>1, GrantKept
  <2>2. CASE a = con[j] /\ a \in Rotating
    <3>1. last'[a] = last[a] + 1 /\ live'[a] = last[a] + 1 /\ row[a] = last[a]
      BY <2>2, <2>c, <2>n, IssueEffect
    <3>2. \A i \in Runs : ~InStore(i, a)
      BY <2>2, <2>c, HonoursIsNewest
    <3>3. \A i \in Runs : InStore(i, a)' <=> i = j
      BY <2>2, <2>h, <3>2
    <3>4. Ages(a)'
      BY <1>t, <2>u, <3>1 DEF Ages
    <3>5. Holders(a)'
      BY <1>t, <2>2, <2>u, <2>h, <3>1, <3>3 DEF Holders
    <3> QED BY <2>2, <3>3, <3>4, <3>5 DEF GrantOf, Fixed, Reach
  <2>3. CASE a = con[j] /\ a \notin Rotating
    <3>1. last'[a] = last[a] /\ live'[a] = live[a] /\ row[a] = last[a] /\ hand'[j] = last[a]
      BY <2>3, <2>c, <2>n, <2>h, IssueEffect
    <3>2. Ages(a)' /\ Fixed(a)'
      BY <1>t, <2>3, <2>u, <3>1 DEF GrantOf, Ages, Fixed
    <3>3. Holders(a)'
      BY <1>t, <2>3, <2>h, <3>1 DEF GrantOf, Holders
    <3> QED BY <2>3, <3>2, <3>3 DEF GrantOf, Reach
  <2> QED BY <2>1, <2>2, <2>3
<1>5. ASSUME NEW j \in Runs, Unread(j) PROVE GrantOf(a)'
  <2>1. Honours(j) /\ row' = row /\ snap' = snap /\ hand' = hand
    BY <1>5 DEF Unread
  <2>2. (con[j] \in Rotating => con[j] \in lost') /\ lost \subseteq lost'
    BY <1>5 DEF Unread, Dropped
  <2>3. \A i \in Runs : InStore(i, a)' <=> InStore(i, a)
    BY <1>5 DEF Unread, InStore, Move, Types
  <2> QED BY <2>1, <2>2, <2>3, IssuedAndLost
<1>6. ASSUME NEW j \in Runs, Panic(j), Honours(j), Restart({con[j]}) PROVE GrantOf(a)'
  <2>1. con[j] \in Accounts
    BY DEF Types
  <2> QED BY <1>6, <2>1, RestartKeeps, IssuedAndLost
<1>7. ASSUME Restart({}), UNCHANGED twitchVars PROVE GrantOf(a)'
  BY <1>t, <1>7, RestartKeeps, GrantKept
<1>8. ASSUME NEW j \in Runs, Store(j) PROVE GrantOf(a)'
  <2>u. /\ live' = live /\ last' = last /\ snap' = snap /\ lost' = lost
        /\ row' = [row EXCEPT ![con[j]] = hand[j]]
    BY <1>8 DEF Store
  <2>h. /\ \A i \in Runs : InStore(i, a)' <=> InStore(i, a) /\ i # j
        /\ \A i \in Runs \ {j} : hand'[i] = hand[i]
    BY <1>8 DEF Store, Move, InStore, Types
  <2>1. CASE a # con[j]
    <3>1. row'[a] = row[a] /\ ~InStore(j, a)
      BY <2>1, <2>u DEF Types, InStore
    <3> QED BY <1>t, <2>u, <2>h, <3>1, GrantKept
  <2>2. CASE a = con[j]
    <3>1. InStore(j, a) /\ hand[j] = last[a] /\ row'[a] = last[a]
      BY <1>8, <2>2, <2>u DEF Store, InStore, GrantOf, Holders, Grants, Types
    <3>2. Ages(a)'
      BY <1>t, <2>u, <3>1 DEF GrantOf, Ages
    <3>3. a \in Rotating => \A i \in Runs : ~InStore(i, a)'
      BY <1>t, <2>h, <3>1 DEF GrantOf, Holders
    <3>4. a \notin Rotating => row'[a] = row[a]
      BY <1>t, <3>1 DEF GrantOf, Fixed
    <3>5. Holders(a)'
      BY <1>t, <2>u, <2>h, <3>3 DEF GrantOf, Holders
    <3>6. Fixed(a)' /\ Reach(a)'
      BY <1>t, <2>u, <2>h, <3>1, <3>4 DEF GrantOf, Ages, Fixed, Reach
    <3> QED BY <3>2, <3>5, <3>6 DEF GrantOf
  <2> QED BY <2>1, <2>2
<1>9. ASSUME NEW j \in Runs, StoreFails(j) \/ StoreRejected(j) PROVE GrantOf(a)'
  <2>1. at[j] = "store" /\ GiveUp(j)
    BY <1>9 DEF StoreFails, StoreRejected
  <2>2. UNCHANGED <<row, live, last, snap>> /\ lost \subseteq lost'
    BY <2>1 DEF GiveUp, Dropped
  <2>3. /\ \A i \in Runs : InStore(i, a)' <=> InStore(i, a) /\ i # j
        /\ \A i \in Runs \ {j} : hand'[i] = hand[i]
    BY <2>1 DEF GiveUp, Move, InStore, Types
  <2>4. a \in Rotating /\ InStore(j, a) => a \in lost'
    BY <2>1 DEF GiveUp, Dropped, InStore
  <2> QED BY <1>t, <2>2, <2>3, <2>4, GrantKept
<1>10. CASE Shutdown \/ Take \/ Give \/ UNCHANGED vars
  <2>1. UNCHANGED <<row, live, last, at, snap, con, hand, lost>>
    BY <1>10 DEF Shutdown, Take, Give, vars
  <2> QED BY <1>t, <2>1, GrantKept DEF InStore
<1>11. ASSUME NEW b \in Accounts, Revoke(b) PROVE GrantOf(a)'
  <2>1. UNCHANGED <<row, last, at, snap, con, hand, lost>> /\ live'[a] \in {0, live[a]}
    BY <1>11 DEF Revoke, Types
  <2> QED BY <1>t, <2>1, GrantKept DEF InStore
<1> QED BY <1>1, <1>2, <1>3, <1>4, <1>5, <1>6, <1>7, <1>8, <1>9, <1>10, <1>11
        DEF Next, Run, Refresh, Upsert, Panic, Kill, Exit

LEMMA TypesAndGrants == Spec => [](Types /\ Grants)
<1>1. Init => Types
  BY TypesInit
<1>2. Init => Grants
  BY DEF Init, Grants, GrantOf, Ages, Holders, Fixed, Reach, InStore, NoRows
<1> QED BY <1>1, <1>2, TypesStep, GrantsStep, PTL DEF Spec

\* The token Twitch honours is in the table or about to be stored there, unless
\* it was revoked or dropped.
THEOREM GrantsInReach == Spec => []InReach
<1>1. Types /\ Grants => InReach
  <2> SUFFICES ASSUME Types, Grants, NEW a \in Accounts, live[a] # 0, a \notin lost,
                      row[a] # live[a]
               PROVE  \E j \in Runs : at[j] = "store" /\ con[j] = a /\ hand[j] = live[a]
    BY DEF InReach
  <2>1. GrantOf(a) /\ live[a] = last[a]
    BY DEF Grants, GrantOf, Ages
  <2>2. PICK j \in Runs : InStore(j, a)
    BY <2>1 DEF GrantOf, Fixed, Reach
  <2> QED BY <2>1, <2>2 DEF GrantOf, Holders, InStore
<1> QED BY <1>1, TypesAndGrants, PTL

\* No step takes a row back to an older token.
THEOREM RowsNeverGoBack == Spec => RowsMoveForward
<1>1. Types /\ Grants /\ [Next]_vars => [\A a \in Accounts : row'[a] >= row[a]]_vars
  <2> SUFFICES ASSUME Types, Grants, [Next]_vars, NEW a \in Accounts
               PROVE  row'[a] >= row[a] \/ UNCHANGED vars
    OBVIOUS
  <2>t. row[a] \in Nat /\ last[a] \in Nat /\ row[a] <= last[a]
    BY DEF Types, Grants, GrantOf, Ages
  <2>1. CASE row' = row
    BY <2>1, <2>t
  <2>2. ASSUME NEW j \in Runs, Store(j) PROVE row'[a] >= row[a]
    <3>1. row' = [row EXCEPT ![con[j]] = hand[j]]
      BY <2>2 DEF Store
    <3>2. con[j] = a => hand[j] = last[a]
      BY <2>2 DEF Store, Grants, GrantOf, Holders, InStore
    <3> QED BY <2>t, <3>1, <3>2 DEF Types
  <2> QED BY <2>1, <2>2
          DEF Next, Run, Start, Query, QueryFails, Scan, Done, Validate, Refresh, Refreshed,
              Refused, Unread, Panic, Restart, Upsert, StoreFails, StoreRejected, GiveUp,
              Kill, Exit, Shutdown, Take, Give, Revoke
<1> QED BY <1>1, TypesAndGrants, PTL DEF Spec, RowsMoveForward
-----------------------------------------------------------------------------
(* The safety halves of RunsEnd and ShutdownEnds: runs do not starve each    *)
(* other of connections, and none of them goes round.                       *)

Room == others = 0 => used < MaxConns

\* While no handler has a connection of the pool, one is free, whatever the runs
\* do: a run that keeps its rows open and waits for a second connection to store
\* a token (loops.go:345-413) never waits for runs alone.
THEOREM RunsLeaveRoom == Spec => []Room
<1>1. Types /\ Pool => Room
  <2> SUFFICES ASSUME Types, Pool, others = 0 PROVE used < MaxConns
    BY DEF Room
  <2>1. Open \subseteq Runs
    BY DEF Open
  <2>2. Cardinality(Open) <= Cardinality(Runs) /\ Cardinality(Runs) \in Nat
    BY <2>1, RunsAssumption, FS_Subset, FS_CardinalityType
  <2> QED BY <2>2, OpenIsFinite, PoolAssumption DEF Pool
<1>2. TypeOK => Types /\ Pool
  BY DEF TypeOK, Types, Pool
<1> QED BY <1>1, <1>2, TypeCorrect, PTL

\* How far a run is with the row in hand.
Rank == [validate |-> 1, refresh |-> 2, store |-> 3, next |-> 4]

\* A run that has read the table ends, takes a row off what it has still to do,
\* or goes on with the one in hand.
GoesForward(j) ==
  at[j] \notin {"off", "query"} =>
    \/ at'[j] = "off"
    \/ at'[j] # "query" /\ todo'[j] \subseteq todo[j] /\ todo'[j] # todo[j]
    \/ at'[j] # "query" /\ todo'[j] = todo[j] /\ Rank[at'[j]] >= Rank[at[j]]

\* No run scans a row twice, tries a call again or reads the table again: with
\* finitely many rows it makes finitely many steps, so that its connection goes
\* back unless one of them never comes (loops.go:387-549).
THEOREM RunsGoForward == Spec => [][\A j \in Runs : GoesForward(j)]_vars
<1>1. Types /\ [Next]_vars => [\A j \in Runs : GoesForward(j)]_vars
  <2> SUFFICES ASSUME Types, Next, NEW j \in Runs, at[j] \notin {"off", "query"}
               PROVE  GoesForward(j)
    BY DEF GoesForward
  <2>t. at[j] \in {"next", "validate", "refresh", "store"} /\ todo[j] \in SUBSET Accounts
    BY DEF Types, Places
  <2>u. /\ \A p \in {"next", "validate", "refresh", "store"} :
             Rank[p] \in Nat /\ Rank[p] <= Rank["next"]
        /\ Rank["validate"] <= Rank["refresh"] /\ Rank["refresh"] <= Rank["store"]
    BY DEF Rank
  <2>1. ASSUME at'[j] = at[j], todo'[j] = todo[j] PROVE GoesForward(j)
    BY <2>1, <2>t, <2>u DEF GoesForward
  <2>2. ASSUME NEW i \in Runs, Start(i) \/ Query(i) \/ QueryFails(i) PROVE GoesForward(j)
    <3>1. i # j
      BY <2>2, <2>t DEF Start, Query, QueryFails
    <3> QED BY <2>1, <2>2, <3>1 DEF Start, Query, QueryFails, Move, Types
  <2>3. ASSUME NEW i \in Runs, Done(i) PROVE GoesForward(j)
    <3>1. CASE i = j
      BY <2>3, <3>1 DEF Done, Move, Types, GoesForward
    <3>2. CASE i # j
      BY <2>1, <2>3, <3>2 DEF Done, Move, Types
    <3> QED BY <3>1, <3>2
  <2>4. ASSUME NEW i \in Runs, NEW a \in Accounts, Scan(i, a) PROVE GoesForward(j)
    <3>1. CASE i = j
      <4>1. a \in todo[j] /\ todo'[j] = todo[j] \ {a} /\ at'[j] # "query"
        BY <2>4, <3>1 DEF Scan, Move, Types
      <4> QED BY <4>1 DEF GoesForward
    <3>2. CASE i # j
      BY <2>1, <2>4, <3>2 DEF Scan, Move, Types
    <3> QED BY <3>1, <3>2
  <2>5. ASSUME NEW i \in Runs,
               Validate(i) \/ Refreshed(i) \/ Refused(i) \/ Unread(i) \/ Upsert(i)
        PROVE  GoesForward(j)
    <3>1. todo' = todo
      BY <2>5 DEF Validate, Refreshed, Refused, Unread, Upsert, Store, StoreFails,
                  StoreRejected, GiveUp
    <3>2. PICK to \in {"refresh", "store", "next"} :
            at' = [at EXCEPT ![i] = to] /\ Rank[to] >= Rank[at[i]]
      BY <2>5, <2>u DEF Validate, Refreshed, Refused, Unread, Upsert, Store, StoreFails,
                        StoreRejected, GiveUp, Move
    <3>3. CASE i = j
      BY <3>1, <3>2, <3>3 DEF Types, GoesForward
    <3>4. CASE i # j
      BY <2>1, <3>1, <3>2, <3>4 DEF Types
    <3> QED BY <3>3, <3>4
  <2>6. ASSUME NEW issued, Restart(issued) PROVE GoesForward(j)
    BY <2>6 DEF Restart, GoesForward
  <2>7. CASE Shutdown \/ Take \/ Give \/ \E a \in Accounts : Revoke(a)
    BY <2>1, <2>7 DEF Shutdown, Take, Give, Revoke
  <2> QED BY <2>2, <2>3, <2>4, <2>5, <2>6, <2>7
          DEF Next, Run, Refresh, Panic, Kill, Exit
<1> QED BY <1>1, TypesAndGrants, PTL DEF Spec
=============================================================================
