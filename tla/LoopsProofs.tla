----------------------------- MODULE LoopsProofs -----------------------------
(* Proofs about Loops, for any finite sets of overlapping runs and any      *)
(* sizes: types; that no rotation removes one of the newest dumps; that the *)
(* dumps stay bounded; that no table holds more copies than there are runs. *)
EXTENDS Loops, FiniteSetTheorems, WellFoundedInduction, TLAPS

USE DEF dumpVars, viewVars

\* The state of the dumps, and that of the tables, have nothing in common.
DumpTypes ==
  /\ last \in 0..MaxDumps
  /\ dumps \subseteq 1..last /\ good \subseteq dumps
  /\ announced \subseteq dumps /\ stuck \subseteq dumps
  /\ at \in [Backups -> {"off", "rotate", "dump", "report"}]
  /\ doomed \in [Backups -> SUBSET (1..last)]
  /\ file \in [Backups -> 0..last]

ViewTypes ==
  /\ copies \in [2..NViews -> 0..MaxCopies]
  /\ view \in [ViewRuns -> 0..NViews] /\ emptied \in [ViewRuns -> BOOLEAN]

ViewStep == \E u \in ViewRuns : StartViews(u) \/ InsertColors(u) \/ Truncate(u) \/ InsertBadges(u)

LEMMA TypesInit == Init => DumpTypes /\ ViewTypes
BY SizesAssumption, BoundsAssumption DEF Init, DumpTypes, ViewTypes

\* A file a backup is about to remove has been made.
LEMMA DumpTypesStep == DumpTypes /\ [Next]_vars => DumpTypes'
<1> SUFFICES ASSUME DumpTypes, [Next]_vars PROVE DumpTypes'
  OBVIOUS
<1> USE BoundsAssumption
<1>1. ASSUME NEW b \in Backups, List(b) PROVE DumpTypes'
  <2>1. Doomed(dumps) \subseteq 1..last
    BY DEF Doomed, DumpTypes
  <2> QED BY <1>1, <2>1 DEF DumpTypes, List, Move
<1>2. ASSUME NEW b \in Backups, NEW f \in doomed[b], Remove(b, f) PROVE DumpTypes'
  <2>1. /\ dumps' \subseteq dumps /\ good' \subseteq dumps'
        /\ announced' \subseteq dumps' /\ stuck' \subseteq dumps'
    <3>1. CASE /\ dumps' = dumps \ {f} /\ good' = good \ {f}
               /\ announced' = announced \ {f} /\ stuck' = stuck \ {f}
      BY <3>1 DEF DumpTypes
    <3>2. CASE stuck' = stuck \cup ({f} \cap dumps) /\ UNCHANGED <<dumps, good, announced>>
      BY <3>2 DEF DumpTypes
    <3> QED BY <1>2, <3>1, <3>2 DEF Remove
  <2>2. doomed' \in [Backups -> SUBSET (1..last)]
    BY <1>2 DEF DumpTypes, Remove
  <2>3. last' = last /\ at' = at /\ file' = file
    BY <1>2 DEF Remove
  <2> QED BY <2>1, <2>2, <2>3 DEF DumpTypes
<1>3. ASSUME NEW b \in Backups, Dump(b) PROVE DumpTypes'
  <2>1. CASE /\ last' = last + 1 /\ dumps' = dumps \cup {last + 1}
             /\ file' = [file EXCEPT ![b] = last + 1] /\ Move(b, "dump")
    <3>1. 1..last \subseteq 1..last' /\ 0..last \subseteq 0..last' /\ last + 1 \in 1..last'
      BY <2>1 DEF DumpTypes
    <3>2. last' \in 0..MaxDumps
      BY <1>3, <2>1 DEF DumpTypes, Dump
    <3>3. doomed' = doomed /\ good' = good /\ announced' = announced /\ stuck' = stuck
      BY <1>3 DEF Dump
    <3>4. doomed' \in [Backups -> SUBSET (1..last')]
      BY <3>1, <3>3 DEF DumpTypes
    <3>5. file' \in [Backups -> 0..last']
      BY <2>1, <3>1 DEF DumpTypes
    <3> QED BY <2>1, <3>1, <3>2, <3>3, <3>4, <3>5 DEF DumpTypes, Move
  <2>2. CASE Move(b, "off") /\ UNCHANGED <<dumps, last, file>>
    BY <1>3, <2>2 DEF DumpTypes, Dump, Move
  <2> QED BY <1>3, <2>1, <2>2 DEF Dump
<1>4. ASSUME NEW b \in Backups, DumpEnds(b) \/ Report(b) PROVE DumpTypes'
  <2>1. good' \subseteq dumps /\ announced' \subseteq dumps
    BY <1>4 DEF DumpTypes, DumpEnds, Report
  <2>2. at' \in [Backups -> {"off", "rotate", "dump", "report"}] /\ file' \in [Backups -> 0..last]
    BY <1>4 DEF DumpTypes, DumpEnds, Report, Over, Move
  <2> QED BY <1>4, <2>1, <2>2 DEF DumpTypes, DumpEnds, Report
<1>5. CASE Restart
  <2>1. good' \subseteq dumps
    BY <1>5 DEF DumpTypes, Restart
  <2>2. /\ at' \in [Backups -> {"off", "rotate", "dump", "report"}]
        /\ doomed' \in [Backups -> SUBSET (1..last)] /\ file' \in [Backups -> 0..last]
    <3>1. last \in Nat
      BY DEF DumpTypes
    <3> QED BY <1>5, <3>1 DEF Restart
  <2> QED BY <1>5, <2>1, <2>2 DEF DumpTypes, Restart
<1>6. CASE ViewStep \/ UNCHANGED vars
  BY <1>6 DEF DumpTypes, ViewStep, StartViews, InsertColors, Truncate, InsertBadges, vars
<1> QED BY <1>1, <1>2, <1>3, <1>4, <1>5, <1>6 DEF Next, ViewStep

LEMMA ViewTypesStep == ViewTypes /\ [Next]_vars => ViewTypes'
<1> SUFFICES ASSUME ViewTypes, [Next]_vars PROVE ViewTypes'
  OBVIOUS
<1> USE SizesAssumption, BoundsAssumption
<1>n. ASSUME NEW u \in ViewRuns, NextView(u)
      PROVE  view' \in [ViewRuns -> 0..NViews] /\ emptied' \in [ViewRuns -> BOOLEAN]
  BY <1>n DEF NextView, ViewTypes
<1>1. ASSUME NEW u \in ViewRuns, StartViews(u) PROVE ViewTypes'
  BY <1>1 DEF ViewTypes, StartViews
<1>2. ASSUME NEW u \in ViewRuns, InsertColors(u) PROVE ViewTypes'
  BY <1>2, <1>n DEF ViewTypes, InsertColors
<1>3. ASSUME NEW u \in ViewRuns, Truncate(u) PROVE ViewTypes'
  <2>1. copies' \in [2..NViews -> 0..MaxCopies]
    <3>1. CASE copies' = [copies EXCEPT ![view[u]] = 0]
      <4>1. 0 \in 0..MaxCopies
        OBVIOUS
      <4> HIDE SizesAssumption, BoundsAssumption
      <4> QED BY <3>1, <4>1 DEF ViewTypes
    <3>2. CASE copies' = copies
      BY <3>2 DEF ViewTypes
    <3> QED BY <1>3, <3>1, <3>2 DEF Truncate
  <2>2. view' \in [ViewRuns -> 0..NViews] /\ emptied' \in [ViewRuns -> BOOLEAN]
    <3>1. CASE emptied' = [emptied EXCEPT ![u] = TRUE] /\ view' = view
      BY <3>1 DEF ViewTypes
    <3> QED BY <1>3, <1>n, <3>1 DEF Truncate
  <2> QED BY <2>1, <2>2 DEF ViewTypes
<1>4. ASSUME NEW u \in ViewRuns, InsertBadges(u) PROVE ViewTypes'
  <2>1. copies' \in [2..NViews -> 0..MaxCopies]
    BY <1>4 DEF ViewTypes, InsertBadges
  <2> QED BY <1>4, <1>n, <2>1 DEF ViewTypes, InsertBadges
<1>5. CASE Restart
  BY <1>5 DEF ViewTypes, Restart
<1>6. ASSUME NEW b \in Backups,
             List(b) \/ Dump(b) \/ DumpEnds(b) \/ Report(b) \/ \E f \in doomed[b] : Remove(b, f)
      PROVE  ViewTypes'
  BY <1>6 DEF ViewTypes, List, Dump, DumpEnds, Report, Remove
<1>7. CASE UNCHANGED vars
  BY <1>7 DEF ViewTypes, vars
<1> QED BY <1>1, <1>2, <1>3, <1>4, <1>5, <1>6, <1>7 DEF Next

\* Every variable has its type, and what a backup removes or writes has been made.
THEOREM TypeCorrect == Spec => []TypeOK
<1>1. DumpTypes /\ ViewTypes => TypeOK
  BY DEF DumpTypes, ViewTypes, TypeOK
<1>2. Spec => [](DumpTypes /\ ViewTypes)
  BY TypesInit, DumpTypesStep, ViewTypesStep, PTL DEF Spec
<1> QED BY <1>1, <1>2, PTL
-----------------------------------------------------------------------------
(* The rotation                                                             *)

\* A file on any backup's list has MaxSize - 1 newer ones beside it, even if it was
\* listed long ago. KeepsNewest alone says nothing of the lists and is not inductive.
Outnumbered ==
  \A b \in Backups : \A f \in doomed[b] : Cardinality(Newer(f, dumps)) >= MaxSize - 1

LEMMA NewerIsFinite ==
  ASSUME NEW files, NEW n \in Nat, files \subseteq 1..n, NEW f
  PROVE  IsFiniteSet(Newer(f, files)) /\ Cardinality(Newer(f, files)) \in Nat
<1>1. IsFiniteSet(1..n)
  BY FS_Interval
<1>2. Newer(f, files) \subseteq 1..n
  BY DEF Newer
<1> QED BY <1>1, <1>2, FS_Subset, FS_CardinalityType

\* A larger set has at least as many members.
LEMMA MoreMembers ==
  ASSUME NEW few, NEW many, IsFiniteSet(many), few \subseteq many
  PROVE  /\ Cardinality(few) \in Nat /\ Cardinality(many) \in Nat
         /\ Cardinality(few) <= Cardinality(many)
BY FS_Subset, FS_CardinalityType

\* The removal of a file on a list leaves the others on any list outnumbered: an
\* older one is outnumbered by those the removed file was.
LEMMA RemoveOutnumbers ==
  ASSUME DumpTypes, Outnumbered, NEW b \in Backups, NEW f \in doomed[b],
         NEW c \in Backups, NEW g \in doomed[c]
  PROVE  Cardinality(Newer(g, dumps \ {f})) >= MaxSize - 1
<1> USE SizesAssumption
<1>1. last \in Nat /\ dumps \ {f} \subseteq 1..last /\ f \in Nat /\ g \in Nat
  BY BoundsAssumption DEF DumpTypes
<1>k. IsFiniteSet(Newer(g, dumps \ {f})) /\ MaxSize - 1 \in Int
  BY <1>1, NewerIsFinite
<1>2. CASE f > g
  <2>1. ASSUME NEW h \in dumps, h > f PROVE h > g /\ h # f
    <3>1. h \in Int
      BY <1>1 DEF DumpTypes
    <3> QED BY <1>1, <1>2, <2>1, <3>1
  <2>2. Newer(f, dumps) \subseteq Newer(g, dumps \ {f})
    BY <2>1 DEF Newer
  <2>3. Cardinality(Newer(f, dumps)) >= MaxSize - 1
    BY DEF Outnumbered
  <2>4. /\ Cardinality(Newer(f, dumps)) \in Nat /\ Cardinality(Newer(g, dumps \ {f})) \in Nat
        /\ Cardinality(Newer(f, dumps)) <= Cardinality(Newer(g, dumps \ {f}))
    BY <1>k, <2>2, MoreMembers
  <2> HIDE SizesAssumption
  <2> QED BY <1>k, <2>3, <2>4
<1>3. CASE ~(f > g)
  <2>1. Newer(g, dumps) \subseteq Newer(g, dumps \ {f})
    BY <1>1, <1>3 DEF Newer
  <2>2. Cardinality(Newer(g, dumps)) >= MaxSize - 1
    BY DEF Outnumbered
  <2>3. /\ Cardinality(Newer(g, dumps)) \in Nat /\ Cardinality(Newer(g, dumps \ {f})) \in Nat
        /\ Cardinality(Newer(g, dumps)) <= Cardinality(Newer(g, dumps \ {f}))
    BY <1>k, <2>1, MoreMembers
  <2> HIDE SizesAssumption
  <2> QED BY <1>k, <2>2, <2>3
<1> QED BY <1>2, <1>3

LEMMA OutnumberedStep == DumpTypes /\ Outnumbered /\ [Next]_vars => Outnumbered'
<1> SUFFICES ASSUME DumpTypes, Outnumbered, [Next]_vars PROVE Outnumbered'
  OBVIOUS
<1> USE SizesAssumption
<1>1. ASSUME NEW b \in Backups, List(b) PROVE Outnumbered'
  <2>1. dumps' = dumps /\ doomed' = [doomed EXCEPT ![b] = Doomed(dumps)]
    BY <1>1 DEF List
  <2>2. \A f \in Doomed(dumps) : Cardinality(Newer(f, dumps)) >= MaxSize - 1
    BY DEF Doomed
  <2> QED BY <2>1, <2>2 DEF Outnumbered, DumpTypes, Newer
<1>2. ASSUME NEW b \in Backups, NEW f \in doomed[b], Remove(b, f) PROVE Outnumbered'
  <2>1. \A c \in Backups : doomed'[c] \subseteq doomed[c]
    BY <1>2 DEF Remove, DumpTypes
  <2>2. CASE dumps' = dumps
    BY <2>1, <2>2 DEF Outnumbered, Newer
  <2>3. CASE dumps' = dumps \ {f}
    BY <2>1, <2>3, RemoveOutnumbers DEF Outnumbered, Newer
  <2> QED BY <1>2, <2>2, <2>3 DEF Remove
<1>3. ASSUME NEW b \in Backups, Dump(b) PROVE Outnumbered'
  <2>1. doomed' = doomed /\ dumps \subseteq dumps'
    BY <1>3 DEF Dump
  <2>2. last' \in Nat /\ dumps' \subseteq 1..last'
    BY DumpTypesStep, BoundsAssumption DEF DumpTypes
  <2>3. ASSUME NEW c \in Backups, NEW f \in doomed[c]
        PROVE  Cardinality(Newer(f, dumps')) >= MaxSize - 1
    <3>1. Newer(f, dumps) \subseteq Newer(f, dumps')
      BY <2>1 DEF Newer
    <3>2. Cardinality(Newer(f, dumps)) >= MaxSize - 1
      BY DEF Outnumbered
    <3>3. MaxSize - 1 \in Int
      OBVIOUS
    <3>n. IsFiniteSet(Newer(f, dumps'))
      <4> HIDE SizesAssumption
      <4>1. IsFiniteSet(1..last')
        BY <2>2, FS_Interval
      <4>2. Newer(f, dumps') \subseteq 1..last'
        BY <2>2 DEF Newer
      <4> QED BY <4>1, <4>2, FS_Subset
    <3>4. /\ Cardinality(Newer(f, dumps)) \in Nat /\ Cardinality(Newer(f, dumps')) \in Nat
          /\ Cardinality(Newer(f, dumps)) <= Cardinality(Newer(f, dumps'))
      BY <3>1, <3>n, MoreMembers
    <3> HIDE SizesAssumption
    <3> QED BY <3>2, <3>3, <3>4
  <2> QED BY <2>1, <2>3 DEF Outnumbered, Newer
<1>4. CASE Restart
  <2>1. \A b \in Backups : doomed'[b] = {}
    BY <1>4 DEF Restart
  <2> QED BY <2>1 DEF Outnumbered
<1>5. ASSUME dumps' = dumps, doomed' = doomed PROVE Outnumbered'
  BY <1>5 DEF Outnumbered, Newer
<1>6. ASSUME NEW b \in Backups, DumpEnds(b) \/ Report(b) PROVE Outnumbered'
  BY <1>5, <1>6 DEF DumpEnds, Report
<1>7. CASE ViewStep \/ UNCHANGED vars
  BY <1>5, <1>7 DEF ViewStep, StartViews, InsertColors, Truncate, InsertBadges, vars
<1> QED BY <1>1, <1>2, <1>3, <1>4, <1>6, <1>7 DEF Next, ViewStep

\* Only Remove takes a dump away, and it takes one of a list.
LEMMA OnlyRemoveRemoves ==
  ASSUME [Next]_vars, NEW f \in dumps, f \notin dumps'
  PROVE  \E b \in Backups : f \in doomed[b]
<1>1. ASSUME NEW b \in Backups, NEW g \in doomed[b], Remove(b, g)
      PROVE  \E c \in Backups : f \in doomed[c]
  BY <1>1 DEF Remove
<1>2. ASSUME NEW b \in Backups, List(b) \/ Dump(b) \/ DumpEnds(b) \/ Report(b) PROVE FALSE
  BY <1>2 DEF List, Dump, DumpEnds, Report
<1>3. ASSUME Restart \/ ViewStep \/ UNCHANGED vars PROVE FALSE
  BY <1>3 DEF Restart, ViewStep, StartViews, InsertColors, Truncate, InsertBadges, vars
<1> QED BY <1>1, <1>2, <1>3 DEF Next, ViewStep

\* No rotation removes one of the MaxSize - 1 newest dumps, whatever other backups
\* have listed, removed and written since it made its list (loops.go:567-607).
THEOREM RotationKeepsNewest == Spec => KeepsNewest
<1>1. Init => Outnumbered
  BY DEF Init, Outnumbered
<1>2. Outnumbered /\ [Next]_vars
        => [\A f \in dumps \ dumps' : Cardinality(Newer(f, dumps)) >= MaxSize - 1]_vars
  <2>1. ASSUME Outnumbered, [Next]_vars, NEW f \in dumps, f \notin dumps'
        PROVE  Cardinality(Newer(f, dumps)) >= MaxSize - 1
    <3>1. PICK b \in Backups : f \in doomed[b]
      BY <2>1, OnlyRemoveRemoves
    <3> QED BY <2>1, <3>1 DEF Outnumbered
  <2> QED BY <2>1
<1> QED BY <1>1, <1>2, TypesInit, DumpTypesStep, OutnumberedStep, PTL DEF Spec, KeepsNewest
-----------------------------------------------------------------------------
(* The number of dumps                                                      *)

\* The backups that have made their list and not begun to write.
Ready == {b \in Backups : at[b] = "rotate"}

\* The dumps there are when such a backup is through with its list.
Left(b) == (dumps \ stuck) \ doomed[b]

\* Of any backups that are ready, one leaves room for the dumps of all of them: the
\* one that made its list last. A later list is about more dumps, so no order of the
\* lists has to be remembered.
RoomLeft ==
  \A T \in SUBSET Ready :
    T # {} => \E b \in T : Cardinality(Left(b)) + Cardinality(T) <= MaxSize + Cardinality(Backups)

\* A set of numbers has a least one.
LEMMA Least ==
  ASSUME NEW S, S \subseteq Nat, S # {}
  PROVE  \E m \in S : \A n \in S : m <= n
<1>1. PICK m \in S : \A n \in S : <<n, m>> \notin OpToRel(<, Nat)
  BY NatLessThanWellFounded, WFMin
<1>2. \A n \in S : ~(n < m)
  BY <1>1 DEF OpToRel
<1> QED BY <1>2

LEMMA RunsCounted ==
  ASSUME NEW T, T \subseteq Backups
  PROVE  /\ IsFiniteSet(T) /\ Cardinality(T) \in Nat /\ Cardinality(Backups) \in Nat
         /\ Cardinality(T) <= Cardinality(Backups)
BY RunsAssumption, FS_Subset, FS_CardinalityType

LEMMA DumpsCounted ==
  ASSUME DumpTypes, NEW S, S \subseteq dumps
  PROVE  IsFiniteSet(S) /\ Cardinality(S) \in Nat /\ S \subseteq Nat
<1>1. last \in Nat
  BY BoundsAssumption DEF DumpTypes
<1>2. IsFiniteSet(1..last)
  BY <1>1, FS_Interval
<1>3. S \subseteq 1..last /\ S \subseteq Nat
  BY <1>1 DEF DumpTypes
<1> QED BY <1>2, <1>3, FS_Subset, FS_CardinalityType

\* A set with at most one member more.
LEMMA OneMore ==
  ASSUME NEW S, IsFiniteSet(S), NEW x, NEW T, T \subseteq S \cup {x}
  PROVE  /\ IsFiniteSet(T) /\ Cardinality(T) \in Nat /\ Cardinality(S) \in Nat
         /\ Cardinality(T) <= Cardinality(S) + 1
<1>1. Cardinality(S) \in Nat
  BY FS_CardinalityType
<1>2. IsFiniteSet(S \cup {x})
  BY FS_AddElement
<1>3. Cardinality(S \cup {x}) = IF x \in S THEN Cardinality(S) ELSE Cardinality(S) + 1
  BY FS_AddElement
<1>4. Cardinality(S \cup {x}) <= Cardinality(S) + 1
  BY <1>1, <1>3
<1>5. Cardinality(T) <= Cardinality(S \cup {x}) /\ IsFiniteSet(T)
  BY <1>2, FS_Subset
<1>6. Cardinality(T) \in Nat /\ Cardinality(S \cup {x}) \in Nat
  BY <1>2, <1>5, FS_CardinalityType
<1> QED BY <1>1, <1>4, <1>5, <1>6

\* What a rotation leaves of its list is not more than starts one.
LEMMA DoomedEnough ==
  ASSUME DumpTypes
  PROVE  Cardinality(dumps \ Doomed(dumps)) <= MaxSize
<1> USE SizesAssumption
<1>1. Cardinality(dumps) \in Nat /\ MaxSize \in Nat \ {0}
  BY DumpsCounted
<1>2. CASE Cardinality(dumps) <= MaxSize
  <2>1. Doomed(dumps) = {}
    BY <1>1, <1>2 DEF Doomed
  <2> QED BY <1>2, <2>1
<1>3. CASE Cardinality(dumps) > MaxSize /\ dumps \ Doomed(dumps) # {}
  <2> DEFINE S == dumps \ Doomed(dumps)
  <2>1. IsFiniteSet(S) /\ Cardinality(S) \in Nat /\ S \subseteq Nat
    BY DumpsCounted DEF Doomed
  <2>2. PICK m \in S : \A n \in S : m <= n
    BY <1>3, <2>1, Least
  <2>3. IsFiniteSet(Newer(m, dumps)) /\ Cardinality(Newer(m, dumps)) \in Nat
    BY DumpsCounted DEF Newer
  <2>4. ~(Cardinality(Newer(m, dumps)) >= MaxSize - 1)
    BY <1>3, <2>2 DEF Doomed
  <2>5. S \ {m} \subseteq Newer(m, dumps)
    BY <2>1, <2>2 DEF Newer
  <2>6. Cardinality(S \ {m}) = Cardinality(S) - 1
    BY <2>1, <2>2, FS_RemoveElement
  <2>7. Cardinality(S) - 1 <= Cardinality(Newer(m, dumps))
    BY <2>3, <2>5, <2>6, FS_Subset
  <2> HIDE DEF S
  <2> QED BY <1>1, <2>1, <2>3, <2>4, <2>7 DEF S
<1>4. CASE dumps \ Doomed(dumps) = {}
  BY <1>1, <1>4, FS_EmptySet
<1> QED BY <1>1, <1>2, <1>3, <1>4

\* RoomLeft survives whatever leaves less and makes nobody ready.
LEMMA LessLeft ==
  ASSUME DumpTypes, RoomLeft, Ready' \subseteq Ready,
         \A b \in Ready' : Left(b)' \subseteq Left(b)
  PROVE  RoomLeft'
<1> SUFFICES ASSUME NEW T \in SUBSET Ready', T # {}
             PROVE  \E b \in T : Cardinality(Left(b)') + Cardinality(T) <= MaxSize + Cardinality(Backups)
  BY DEF RoomLeft
<1>1. T \subseteq Backups
  BY DEF Ready
<1>2. PICK b \in T : Cardinality(Left(b)) + Cardinality(T) <= MaxSize + Cardinality(Backups)
  BY DEF RoomLeft
<1>3. Left(b)' \subseteq Left(b)
  OBVIOUS
<1>4. IsFiniteSet(Left(b)) /\ Cardinality(Left(b)) \in Nat
  BY DumpsCounted DEF Left
<1>5. Cardinality(Left(b)') \in Nat /\ Cardinality(Left(b)') <= Cardinality(Left(b))
  BY <1>3, <1>4, FS_Subset, FS_CardinalityType
<1> QED BY <1>1, <1>2, <1>4, <1>5, RunsCounted, SizesAssumption

\* A dump takes the room of the backup that makes it, and its list is done.
LEMMA DumpTakesRoom ==
  ASSUME DumpTypes, RoomLeft, NEW b \in Ready, doomed[b] = {},
         dumps' = dumps \cup {last + 1}, stuck' = stuck, doomed' = doomed,
         Ready' \subseteq Ready \ {b}
  PROVE  RoomLeft' /\ Cardinality(dumps' \ stuck') <= MaxSize + Cardinality(Backups)
<1> DEFINE Kept == dumps \ stuck
           Bound == MaxSize + Cardinality(Backups)
<1>1. IsFiniteSet(Kept) /\ Cardinality(Kept) \in Nat
  BY DumpsCounted
<1>b. Bound \in Nat /\ b \in Backups
  BY SizesAssumption, RunsCounted DEF Ready
<1>3. /\ IsFiniteSet(dumps' \ stuck') /\ Cardinality(dumps' \ stuck') \in Nat
      /\ Cardinality(dumps' \ stuck') <= Cardinality(Kept) + 1
  <2> DEFINE After == dumps' \ stuck'
  <2>1. After \subseteq Kept \cup {last + 1}
    OBVIOUS
  <2> HIDE DEF After, Kept
  <2>2. IsFiniteSet(After) /\ Cardinality(After) \in Nat /\ Cardinality(After) <= Cardinality(Kept) + 1
    BY <1>1, <2>1, OneMore
  <2> QED BY <2>2 DEF After
<1>4. Left(b) = Kept
  BY DEF Left
<1>5. Cardinality(dumps' \ stuck') <= Bound
  <2>1. Cardinality(Left(b)) + Cardinality({b}) <= Bound
    BY DEF RoomLeft
  <2>2. Cardinality({b}) = 1
    BY FS_Singleton
  <2> HIDE DEF Kept, Bound
  <2> QED BY <1>1, <1>b, <1>3, <1>4, <2>1, <2>2
<1>6. ASSUME NEW T \in SUBSET Ready', T # {}
      PROVE  \E c \in T : Cardinality(Left(c)') + Cardinality(T) <= Bound
  <2>1. T \subseteq Ready /\ T \subseteq Backups /\ b \notin T
    BY <1>6 DEF Ready
  <2>2. IsFiniteSet(T) /\ Cardinality(T) \in Nat
    BY <2>1, RunsCounted
  <2>3. Cardinality(T \cup {b}) = Cardinality(T) + 1
    BY <2>1, <2>2, FS_AddElement
  <2>4. PICK c \in T \cup {b} : Cardinality(Left(c)) + Cardinality(T \cup {b}) <= Bound
    BY <2>1 DEF RoomLeft
  <2>5. CASE c \in T
    <3>1. Left(c)' \subseteq Left(c) \cup {last + 1}
      BY DEF Left
    <3>2. IsFiniteSet(Left(c))
      BY DumpsCounted DEF Left
    <3>3. /\ Cardinality(Left(c)') \in Nat /\ Cardinality(Left(c)) \in Nat
          /\ Cardinality(Left(c)') <= Cardinality(Left(c)) + 1
      BY <3>1, <3>2, OneMore
    <3> HIDE DEF Bound
    <3> QED BY <1>b, <2>2, <2>3, <2>4, <2>5, <3>3
  <2>6. CASE c = b
    <3>1. PICK d \in T : TRUE
      BY <1>6
    <3>2. Left(d)' \subseteq dumps' \ stuck'
      BY DEF Left
    <3>3. Cardinality(Left(d)') \in Nat /\ Cardinality(Left(d)') <= Cardinality(dumps' \ stuck')
      BY <1>3, <3>2, FS_Subset, FS_CardinalityType
    <3> HIDE DEF Bound, Kept
    <3> QED BY <1>1, <1>b, <1>3, <1>4, <2>2, <2>3, <2>4, <2>6, <3>3
  <2> QED BY <2>4, <2>5, <2>6
<1> QED BY <1>5, <1>6 DEF RoomLeft

Bounded == RoomLeft /\ DumpsBounded

LEMMA BoundedStep == DumpTypes /\ Bounded /\ [Next]_vars => Bounded'
<1> SUFFICES ASSUME DumpTypes, RoomLeft, DumpsBounded, [Next]_vars PROVE RoomLeft' /\ DumpsBounded'
  BY DEF Bounded
<1>f. ASSUME dumps' \ stuck' \subseteq dumps \ stuck PROVE DumpsBounded'
  <2>1. IsFiniteSet(dumps \ stuck) /\ Cardinality(dumps \ stuck) \in Nat
    BY DumpsCounted
  <2>2. /\ Cardinality(dumps' \ stuck') \in Nat
        /\ Cardinality(dumps' \ stuck') <= Cardinality(dumps \ stuck)
    BY <1>f, <2>1, FS_Subset, FS_CardinalityType
  <2>3. MaxSize + Cardinality(Backups) \in Nat
    BY SizesAssumption, RunsCounted
  <2> QED BY <2>1, <2>2, <2>3 DEF DumpsBounded
<1>1. ASSUME NEW b \in Backups, List(b) PROVE RoomLeft' /\ DumpsBounded'
  <2>1. dumps' = dumps /\ stuck' = stuck
    BY <1>1 DEF List
  <2>2. /\ Ready' = Ready \cup {b} /\ doomed'[b] = Doomed(dumps)
        /\ \A c \in Backups \ {b} : doomed'[c] = doomed[c]
    BY <1>1 DEF List, Move, Ready, DumpTypes
  <2>3. ASSUME NEW T \in SUBSET Ready', T # {}
        PROVE  \E c \in T : Cardinality(Left(c)') + Cardinality(T) <= MaxSize + Cardinality(Backups)
    <3>1. CASE b \in T
      <4>1. Left(b)' \subseteq dumps \ Doomed(dumps)
        BY <2>1, <2>2 DEF Left
      <4>2. /\ IsFiniteSet(dumps \ Doomed(dumps)) /\ Cardinality(dumps \ Doomed(dumps)) \in Nat
        BY DumpsCounted
      <4>3. /\ Cardinality(Left(b)') \in Nat
            /\ Cardinality(Left(b)') <= Cardinality(dumps \ Doomed(dumps))
        BY <4>1, <4>2, FS_Subset, FS_CardinalityType
      <4>4. T \subseteq Backups
        BY <2>2 DEF Ready
      <4> QED BY <3>1, <4>2, <4>3, <4>4, DoomedEnough, RunsCounted, SizesAssumption
    <3>2. CASE b \notin T
      <4>1. T \subseteq Ready /\ \A c \in T : Left(c)' = Left(c)
        BY <2>1, <2>2, <3>2 DEF Left, Ready
      <4> QED BY <2>3, <4>1 DEF RoomLeft
    <3> QED BY <3>1, <3>2
  <2> QED BY <1>f, <2>1, <2>3 DEF RoomLeft
<1>2. ASSUME NEW b \in Backups, NEW f \in doomed[b], Remove(b, f) PROVE RoomLeft' /\ DumpsBounded'
  <2>1. dumps' \ stuck' \subseteq (dumps \ stuck) /\ (f \notin dumps' \/ f \in stuck')
    <3>1. CASE dumps' = dumps \ {f} /\ stuck' = stuck \ {f}
      BY <3>1
    <3>2. CASE stuck' = stuck \cup ({f} \cap dumps) /\ dumps' = dumps
      BY <3>2
    <3> QED BY <1>2, <3>1, <3>2 DEF Remove
  <2>2. Ready' = Ready /\ doomed'[b] = doomed[b] \ {f}
        /\ \A c \in Backups \ {b} : doomed'[c] = doomed[c]
    BY <1>2 DEF Remove, Ready, DumpTypes
  <2>3. \A c \in Ready' : Left(c)' \subseteq Left(c)
    BY <2>1, <2>2 DEF Left, Ready
  <2> QED BY <1>f, <2>1, <2>2, <2>3, LessLeft
<1>3. ASSUME NEW b \in Backups, Dump(b) PROVE RoomLeft' /\ DumpsBounded'
  <2>1. /\ b \in Ready /\ doomed[b] = {} /\ stuck' = stuck /\ doomed' = doomed
    BY <1>3 DEF Dump, Ready
  <2>2. Ready' \subseteq Ready \ {b}
    BY <1>3 DEF Dump, Move, Ready, DumpTypes
  <2>3. CASE dumps' = dumps \cup {last + 1}
    BY <2>1, <2>2, <2>3, DumpTakesRoom DEF DumpsBounded
  <2>4. CASE dumps' = dumps
    <3>1. \A c \in Ready' : Left(c)' \subseteq Left(c)
      BY <2>1, <2>4 DEF Left
    <3> QED BY <1>f, <2>1, <2>2, <2>4, <3>1, LessLeft
  <2> QED BY <1>3, <2>3, <2>4 DEF Dump
<1>4. ASSUME dumps' = dumps, stuck' = stuck, doomed' = doomed, Ready' \subseteq Ready
      PROVE  RoomLeft' /\ DumpsBounded'
  <2>1. \A c \in Ready' : Left(c)' \subseteq Left(c)
    BY <1>4 DEF Left
  <2> QED BY <1>4, <1>f, <2>1, LessLeft
<1>5. ASSUME NEW b \in Backups, DumpEnds(b) \/ Report(b) PROVE RoomLeft' /\ DumpsBounded'
  <2>1. Ready' \subseteq Ready
    BY <1>5 DEF DumpEnds, Report, Over, Move, Ready, DumpTypes
  <2> QED BY <1>4, <1>5, <2>1 DEF DumpEnds, Report
<1>6. CASE Restart
  <2>1. Ready' = {} /\ dumps' = dumps /\ stuck' = stuck
    BY <1>6 DEF Restart, Ready
  <2> QED BY <1>f, <2>1 DEF RoomLeft
<1>7. CASE ViewStep \/ UNCHANGED vars
  <2>1. UNCHANGED dumpVars
    BY <1>7 DEF ViewStep, StartViews, InsertColors, Truncate, InsertBadges, vars
  <2> QED BY <1>4, <2>1 DEF Ready
<1> QED BY <1>1, <1>2, <1>3, <1>5, <1>6, <1>7 DEF Next, ViewStep

\* However many backups overlap, on lists however old, there are never more dumps than
\* trigger a rotation and one of each backup, but for files that cannot be removed
\* (loops.go:567-607).
THEOREM DumpsStayBounded == Spec => []DumpsBounded
<1>1. Init => Bounded
  <2> SUFFICES ASSUME Init PROVE RoomLeft /\ DumpsBounded
    BY DEF Bounded
  <2>1. Ready = {} /\ dumps \ stuck = {}
    BY DEF Init, Ready
  <2>2. MaxSize + Cardinality(Backups) \in Nat
    BY SizesAssumption, RunsCounted
  <2> QED BY <2>1, <2>2, FS_EmptySet DEF RoomLeft, DumpsBounded
<1>2. Bounded => DumpsBounded
  BY DEF Bounded
<1> QED BY <1>1, <1>2, TypesInit, DumpTypesStep, BoundedStep, PTL DEF Spec
-----------------------------------------------------------------------------
(* The tables                                                               *)

\* The runs that have emptied a table and not filled it yet.
Fillers(v) == {u \in ViewRuns : view[u] = v /\ emptied[u]}

\* Each copy in a table, and each that is to come, is of a run of its own.
CopiesCounted ==
  \A v \in 2..NViews : copies[v] + Cardinality(Fillers(v)) <= Cardinality(ViewRuns)

LEMMA FillersAreFinite ==
  ASSUME NEW v
  PROVE  /\ IsFiniteSet(Fillers(v)) /\ Cardinality(Fillers(v)) \in Nat
         /\ IsFiniteSet(ViewRuns) /\ Cardinality(ViewRuns) \in Nat
         /\ Cardinality(Fillers(v)) <= Cardinality(ViewRuns)
<1>1. Fillers(v) \subseteq ViewRuns
  BY DEF Fillers
<1> QED BY <1>1, RunsAssumption, FS_Subset, FS_CardinalityType

LEMMA FewerFillers ==
  ASSUME ViewTypes, CopiesCounted, NEW v \in 2..NViews,
         copies'[v] \in Nat, copies'[v] <= copies[v], Fillers(v)' \subseteq Fillers(v)
  PROVE  copies'[v] + Cardinality(Fillers(v)') <= Cardinality(ViewRuns)
<1>1. /\ Cardinality(Fillers(v)') \in Nat
      /\ Cardinality(Fillers(v)') <= Cardinality(Fillers(v))
  BY FillersAreFinite, FS_Subset, FS_CardinalityType
<1>2. copies[v] \in Nat
  BY BoundsAssumption DEF ViewTypes
<1> QED BY <1>1, <1>2, FillersAreFinite DEF CopiesCounted

LEMMA CopiesStep == ViewTypes /\ CopiesCounted /\ [Next]_vars => CopiesCounted'
<1> SUFFICES ASSUME ViewTypes, CopiesCounted, [Next]_vars, NEW v \in 2..NViews
             PROVE  copies'[v] + Cardinality(Fillers(v)') <= Cardinality(ViewRuns)
  BY DEF CopiesCounted
<1> USE BoundsAssumption, SizesAssumption
<1>0. copies[v] \in Nat /\ Cardinality(ViewRuns) \in Nat
  <2>1. copies[v] \in Nat
    BY DEF ViewTypes
  <2> QED BY <2>1, FillersAreFinite
<1>n. ASSUME NEW u \in ViewRuns, NextView(u)
      PROVE  Fillers(v)' = Fillers(v) \ {u}
  BY <1>n DEF NextView, ViewTypes, Fillers
<1>1. ASSUME NEW u \in ViewRuns, StartViews(u) PROVE copies'[v] + Cardinality(Fillers(v)') <= Cardinality(ViewRuns)
  <2>1. Fillers(v)' \subseteq Fillers(v) /\ copies' = copies
    BY <1>1 DEF StartViews, ViewTypes, Fillers
  <2> QED BY <1>0, <2>1, FewerFillers
<1>2. ASSUME NEW u \in ViewRuns, InsertColors(u) PROVE copies'[v] + Cardinality(Fillers(v)') <= Cardinality(ViewRuns)
  <2>1. Fillers(v)' \subseteq Fillers(v) /\ copies' = copies
    BY <1>2, <1>n DEF InsertColors
  <2> QED BY <1>0, <2>1, FewerFillers
<1>3. ASSUME NEW u \in ViewRuns, Truncate(u) PROVE copies'[v] + Cardinality(Fillers(v)') <= Cardinality(ViewRuns)
  <2>1. copies'[v] \in {0, copies[v]}
    BY <1>3 DEF Truncate, ViewTypes
  <2>2. CASE NextView(u)
    <3>1. Fillers(v)' \subseteq Fillers(v)
      BY <1>n, <2>2
    <3> QED BY <1>0, <2>1, <3>1, FewerFillers
  <2>3. CASE /\ copies' = [copies EXCEPT ![view[u]] = 0]
             /\ emptied' = [emptied EXCEPT ![u] = TRUE] /\ view' = view
    <3>1. CASE view[u] = v
      <4>1. copies'[v] = 0
        BY <2>3, <3>1 DEF ViewTypes
      <4>2. /\ Cardinality(Fillers(v)') \in Nat
            /\ Cardinality(Fillers(v)') <= Cardinality(ViewRuns)
        <5>1. Fillers(v)' \subseteq ViewRuns
          BY DEF Fillers
        <5> QED BY <5>1, RunsAssumption, FS_Subset, FS_CardinalityType
      <4> QED BY <1>0, <4>1, <4>2
    <3>2. CASE view[u] # v
      <4>1. Fillers(v)' = Fillers(v)
        BY <2>3, <3>2 DEF Fillers, ViewTypes
      <4> QED BY <1>0, <2>1, <4>1, FewerFillers
    <3> QED BY <3>1, <3>2
  <2> QED BY <1>3, <2>2, <2>3 DEF Truncate
<1>4. ASSUME NEW u \in ViewRuns, InsertBadges(u) PROVE copies'[v] + Cardinality(Fillers(v)') <= Cardinality(ViewRuns)
  <2>1. Fillers(v)' = Fillers(v) \ {u}
    BY <1>4, <1>n DEF InsertBadges
  <2>2. CASE copies'[v] = copies[v]
    BY <1>0, <2>1, <2>2, FewerFillers
  <2>3. CASE view[u] = v /\ copies'[v] = copies[v] + 1
    <3>1. u \in Fillers(v)
      BY <1>4, <2>3 DEF InsertBadges, Fillers
    <3>2. IsFiniteSet(Fillers(v)) /\ Cardinality(Fillers(v)) \in Nat
      BY FillersAreFinite
    <3>3. Cardinality(Fillers(v)') = Cardinality(Fillers(v)) - 1
      BY <2>1, <3>1, <3>2, FS_RemoveElement
    <3> QED BY <1>0, <2>3, <3>2, <3>3 DEF CopiesCounted
  <2>4. copies'[v] = copies[v] \/ (view[u] = v /\ copies'[v] = copies[v] + 1)
    BY <1>4 DEF InsertBadges, ViewTypes
  <2> QED BY <2>2, <2>3, <2>4
<1>5. CASE Restart
  <2>1. Fillers(v)' \subseteq Fillers(v) /\ copies' = copies
    BY <1>5 DEF Restart, Fillers
  <2> QED BY <1>0, <2>1, FewerFillers
<1>6. ASSUME viewVars' = viewVars PROVE copies'[v] + Cardinality(Fillers(v)') <= Cardinality(ViewRuns)
  <2>1. Fillers(v)' \subseteq Fillers(v) /\ copies' = copies
    BY <1>6 DEF Fillers
  <2> QED BY <1>0, <2>1, FewerFillers
<1>7. ASSUME NEW b \in Backups,
             List(b) \/ Dump(b) \/ DumpEnds(b) \/ Report(b) \/ \E f \in doomed[b] : Remove(b, f)
      PROVE  viewVars' = viewVars
  BY <1>7 DEF List, Dump, DumpEnds, Report, Remove
<1>8. CASE UNCHANGED vars
  BY <1>6, <1>8 DEF vars
<1> QED BY <1>1, <1>2, <1>3, <1>4, <1>5, <1>6, <1>7, <1>8 DEF Next

\* However runs of the job overlap, fail or are cut off, a badge table holds its rows
\* at most once for each of them (loops.go:245-343).
THEOREM CopiesAreBounded == Spec => []OneCopyEach
<1>1. Init => CopiesCounted
  <2>1. ASSUME Init, NEW v \in 2..NViews PROVE copies[v] + Cardinality(Fillers(v)) <= Cardinality(ViewRuns)
    <3>1. copies[v] = 0
      BY <2>1 DEF Init
    <3> QED BY <3>1, FillersAreFinite
  <2> QED BY <2>1 DEF CopiesCounted
<1>2. ViewTypes /\ CopiesCounted => OneCopyEach
  <2>1. ASSUME ViewTypes, CopiesCounted, NEW v \in 2..NViews PROVE copies[v] <= Cardinality(ViewRuns)
    <3>1. copies[v] \in Nat
      BY <2>1, BoundsAssumption DEF ViewTypes
    <3> QED BY <2>1, <3>1, FillersAreFinite DEF CopiesCounted
  <2> QED BY <2>1 DEF OneCopyEach
<1> QED BY <1>1, <1>2, TypesInit, ViewTypesStep, CopiesStep, PTL DEF Spec
=============================================================================
