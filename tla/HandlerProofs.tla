--------------------------- MODULE HandlerProofs ---------------------------
(* Proofs about the handlers of HTTP requests: those of haste (Haste), for  *)
(* every set of keys, documents and requests, and GET /users/{username}     *)
(* (Users), for all names, rows and cooldowns and a pool of any size.       *)
EXTENDS Haste, Users, FiniteSetTheorems, TLAPS

-----------------------------------------------------------------------------
(* Haste                                                                    *)

\* What one request may do to the table: leave it, or give one free key a document.
Grows ==
  \A k \in Keys : rows'[k] = rows[k] \/ (rows[k] = None /\ rows'[k] \in Bodies)

\* Store only ever fills a free key.
LEMMA StoreGrows ==
  ASSUME TypeOK, NEW k \in Keys, NEW b \in Bodies, Store(k, b)
  PROVE  rows' \in [Keys -> Bodies \cup {None}] /\ Grows /\ rows'[k] # None
BY NoneAssumption DEF Store, TypeOK, Grows

\* Types are right.
THEOREM TypeCorrect == Spec => []TypeOK
<1>1. Init => TypeOK
  BY DEF Init, TypeOK, PostStates, Idle
<1>2. TypeOK /\ [Next]_vars => TypeOK'
  <2> SUFFICES ASSUME TypeOK, [Next]_vars PROVE TypeOK'
    OBVIOUS
  <2> DEFINE PostType == [at : PostStates, body : Bodies \cup {None}, key : Keys \cup {None}]
             GetType == [at : {"idle", "database", "fill"}, key : Keys \cup {None},
                         data : Text \cup {None}]
  <2>1. ASSUME NEW p \in Posts, Receive(p) PROVE TypeOK'
    <3>1. PICK b \in Bodies : 
            post' = [post EXCEPT ![p] = [at |-> "choosing", body |-> b, key |-> None]]
      BY <2>1 DEF Receive
    <3>2. post' \in [Posts -> PostType]
      BY <3>1 DEF TypeOK, PostStates
    <3>3. /\ post'[p].at = "choosing" /\ post'[p].body = b
          /\ \A q \in Posts \ {p} : post'[q] = post[q]
      BY <3>1 DEF TypeOK
    <3> QED BY <2>1, <3>2, <3>3 DEF Receive, TypeOK
  <2>2. ASSUME NEW p \in Posts, NEW k \in Keys, ChooseKey(p, k) PROVE TypeOK'
    <3>1. post' \in [Posts -> PostType]
      BY <2>2 DEF ChooseKey, TypeOK, PostStates
    <3>2. /\ post'[p].at = "inserting" /\ post'[p].key = k /\ post'[p].body = post[p].body
          /\ \A q \in Posts \ {p} : post'[q] = post[q]
      BY <2>2 DEF ChooseKey, TypeOK
    <3>3. post[p].body \in Bodies
      BY <2>2 DEF ChooseKey, TypeOK
    <3> QED BY <2>2, <3>1, <3>2, <3>3 DEF ChooseKey, TypeOK
  <2>3. ASSUME NEW p \in Posts, Insert(p) PROVE TypeOK'
    <3>1. post[p].key \in Keys /\ post[p].body \in Bodies
      BY <2>3 DEF Insert, TypeOK
    <3>2. rows' \in [Keys -> Bodies \cup {None}]
      BY <2>3, <3>1, StoreGrows DEF Insert
    <3> QED BY <2>3, <3>1, <3>2 DEF Insert, TypeOK, PostStates
  <2>4. ASSUME NEW p \in Posts, FailPost(p) PROVE TypeOK'
    <3>1. rows' \in [Keys -> Bodies \cup {None}]
      <4>1. CASE UNCHANGED rows
        BY <4>1 DEF TypeOK
      <4>2. CASE post[p].at = "inserting" /\ Store(post[p].key, post[p].body)
        <5>1. post[p].key \in Keys /\ post[p].body \in Bodies
          BY <4>2 DEF TypeOK
        <5> QED BY <4>2, <5>1, StoreGrows
      <4> QED BY <2>4, <4>1, <4>2 DEF FailPost
    <3> QED BY <2>4, <3>1 DEF FailPost, TypeOK, PostStates
  <2>5. ASSUME NEW g \in Gets, NEW k \in Keys, Lookup(g, k) PROVE TypeOK'
    <3>1. cache[k] \in Text \cup {None}
      BY DEF TypeOK
    <3>2. served' \in [Keys -> SUBSET Text]
      BY <2>5, <3>1 DEF Lookup, Serve, TypeOK
    <3>3. CASE UNCHANGED get
      BY <2>5, <3>2, <3>3 DEF Lookup, TypeOK
    <3>4. CASE get' = [get EXCEPT ![g] = [at |-> "database", key |-> k, data |-> None]]
      <4>1. [at |-> "database", key |-> k, data |-> None] \in GetType
        OBVIOUS
      <4>2. /\ get' \in [Gets -> GetType] /\ get'[g].key = k /\ get'[g].at = "database"
            /\ \A h \in Gets \ {g} : get'[h] = get[h]
        BY <3>4, <4>1 DEF TypeOK
      <4> QED BY <2>5, <3>2, <4>2 DEF Lookup, TypeOK
    <3> QED BY <2>5, <3>3, <3>4 DEF Lookup
  <2>6. ASSUME NEW g \in Gets, GetHaste(g) PROVE TypeOK'
    <3>1. served' \in [Keys -> SUBSET Text]
      BY <2>6 DEF GetHaste, Serve, TypeOK
    <3> QED BY <2>6, <3>1 DEF GetHaste, TypeOK, Idle
  <2>7. ASSUME NEW g \in Gets, Fill(g) PROVE TypeOK'
    BY <2>7 DEF Fill, TypeOK, Idle
  <2>8. ASSUME NEW k \in Keys, Expire(k) PROVE TypeOK'
    BY <2>8 DEF Expire, TypeOK
  <2>9. CASE UNCHANGED vars
    BY <2>9 DEF vars, TypeOK
  <2> QED BY <2>1, <2>2, <2>3, <2>4, <2>5, <2>6, <2>7, <2>8, <2>9 DEF Next
<1> QED BY <1>1, <1>2, PTL DEF Spec

\* The table only grows: no step changes or removes a document.
LEMMA RowsGrow == TypeOK /\ [Next]_vars => Grows
<1> SUFFICES ASSUME TypeOK, [Next]_vars, ~UNCHANGED rows PROVE Grows
  BY DEF Grows
<1>1. PICK p \in Posts :
        /\ post[p].at = "inserting" /\ Store(post[p].key, post[p].body)
  BY DEF Next, Receive, ChooseKey, Insert, FailPost, Lookup, GetHaste, Fill, Expire, vars
<1> QED BY <1>1, StoreGrows DEF TypeOK

\* What is in Redis, and what a request is about to put there, is in the table.
CacheTruthful ==
  /\ \A k \in Keys : cache[k] = None \/ cache[k] = rows[k]
  /\ \A g \in Gets : get[g].at = "fill" => get[g].data = rows[get[g].key]

\* CacheTruthful is inductive: a late fill brings what is still in the table.
LEMMA CacheStep == TypeOK /\ CacheTruthful /\ [Next]_vars => CacheTruthful'
<1> SUFFICES ASSUME TypeOK, CacheTruthful, [Next]_vars PROVE CacheTruthful'
  OBVIOUS
<1>g. Grows
  BY RowsGrow
<1>1. \A k \in Keys : rows[k] # None => rows'[k] = rows[k]
  BY <1>g DEF Grows
<1>2. \A k \in Keys : cache'[k] = None \/ cache'[k] = rows'[k]
  <2> SUFFICES ASSUME NEW k \in Keys PROVE cache'[k] = None \/ cache'[k] = rows'[k]
    OBVIOUS
  <2>1. CASE cache'[k] = cache[k]
    BY <1>1, <2>1 DEF CacheTruthful
  <2>2. ASSUME NEW g \in Gets, Fill(g), cache'[k] # cache[k] PROVE cache'[k] = rows'[k]
    <3>1. get[g].at = "fill" /\ k = get[g].key /\ cache'[k] = get[g].data
      BY <2>2 DEF Fill, TypeOK
    <3>2. get[g].data = rows[k] /\ rows[k] # None
      BY <3>1, NoneAssumption DEF CacheTruthful, TypeOK, Text
    <3> QED BY <1>1, <3>1, <3>2
  <2>3. ASSUME NEW j \in Keys, Expire(j) PROVE cache'[k] = None \/ cache'[k] = cache[k]
    BY <2>3 DEF Expire, TypeOK
  <2>4. ASSUME cache'[k] # cache[k]
        PROVE  (\E g \in Gets : Fill(g)) \/ \E j \in Keys : Expire(j)
    BY <2>4 DEF Next, Receive, ChooseKey, Insert, FailPost, Lookup, GetHaste, vars
  <2> QED BY <2>1, <2>2, <2>3, <2>4
<1>3. ASSUME NEW g \in Gets, get'[g].at = "fill" PROVE get'[g].data = rows'[get'[g].key]
  <2>1. CASE get'[g] = get[g]
    <3>1. get[g].key \in Keys /\ get[g].data = rows[get[g].key] /\ get[g].data # None
      BY <1>3, <2>1, NoneAssumption DEF CacheTruthful, TypeOK, Text
    <3> QED BY <1>1, <2>1, <3>1
  <2>2. ASSUME NEW h \in Gets, GetHaste(h), get'[g] # get[g]
        PROVE  get'[g].data = rows'[get'[g].key]
    BY <1>3, <2>2 DEF GetHaste, TypeOK, Idle
  <2>3. ASSUME NEW h \in Gets, Fill(h) \/ \E k \in Keys : Lookup(h, k) PROVE get'[g] = get[g]
    BY <1>3, <2>3 DEF Fill, Lookup, TypeOK, Idle
  <2>4. ASSUME get'[g] # get[g]
        PROVE  \E h \in Gets : GetHaste(h) \/ Fill(h) \/ \E k \in Keys : Lookup(h, k)
    BY <2>4 DEF Next, Receive, ChooseKey, Insert, FailPost, Expire, vars
  <2> QED BY <2>1, <2>2, <2>3, <2>4
<1> QED BY <1>2, <1>3 DEF CacheTruthful

\* What Redis holds is always what the table holds.
THEOREM CacheIsTruthful == Spec => []CacheTruthful
<1>1. Init => CacheTruthful
  BY DEF Init, CacheTruthful, Idle
<1> QED BY <1>1, CacheStep, TypeCorrect, PTL DEF Spec

\* A key that a POST was answered with has a document from then on.
THEOREM AnsweredStaysStored == Spec => []AnsweredIsStored
<1>1. Init => AnsweredIsStored
  BY DEF Init, AnsweredIsStored
<1>2. TypeOK /\ AnsweredIsStored /\ [Next]_vars => AnsweredIsStored'
  <2> SUFFICES ASSUME TypeOK, AnsweredIsStored, [Next]_vars,
                      NEW p \in Posts, post'[p].at = "answered"
               PROVE  rows'[post'[p].key] # None
    BY DEF AnsweredIsStored
  <2>1. \A k \in Keys : rows[k] # None => rows'[k] = rows[k]
    BY RowsGrow DEF Grows
  <2>2. CASE post'[p] = post[p]
    BY <2>1, <2>2 DEF AnsweredIsStored, TypeOK
  <2>3. ASSUME NEW q \in Posts, Insert(q), post'[p] # post[p] PROVE rows'[post'[p].key] # None
    <3>1. q = p /\ post'[p].key = post[p].key /\ post[p].at = "inserting"
      BY <2>3 DEF Insert, TypeOK
    <3>2. post[p].key \in Keys /\ post[p].body \in Bodies /\ Store(post[p].key, post[p].body)
      BY <2>3, <3>1 DEF Insert, TypeOK
    <3> QED BY <3>1, <3>2, StoreGrows
  <2>4. ASSUME NEW q \in Posts, Receive(q) \/ FailPost(q) \/ \E k \in Keys : ChooseKey(q, k)
        PROVE  post'[p] = post[p]
    BY <2>4 DEF Receive, FailPost, ChooseKey, TypeOK
  <2>5. ASSUME post'[p] # post[p]
        PROVE  \E q \in Posts : \/ Insert(q) \/ Receive(q) \/ FailPost(q)
                                \/ \E k \in Keys : ChooseKey(q, k)
    BY <2>5 DEF Next, Lookup, GetHaste, Fill, Expire, vars
  <2> QED BY <2>2, <2>3, <2>4, <2>5
<1> QED BY <1>1, <1>2, TypeCorrect, PTL DEF Spec

-----------------------------------------------------------------------------
(* Haste implements WriteOnce.                                              *)

\* Every step is a step of WriteOnce, or changes neither the table nor what was read.
LEMMA WriteOnceStep ==
  TypeOK /\ CacheTruthful /\ [Next]_vars => [Documents!Next]_(Documents!vars)
<1> SUFFICES ASSUME TypeOK, CacheTruthful, [Next]_vars
             PROVE  [Documents!Next]_(Documents!vars)
  OBVIOUS
<1> USE DEF Documents!Next, Documents!vars
<1>s. ASSUME NEW k \in Keys, NEW b \in Bodies, Store(k, b), UNCHANGED served
      PROVE  [Documents!Next]_(Documents!vars)
  <2>1. CASE rows[k] = None
    BY <1>s, <2>1 DEF Store, TypeOK, Documents!Put
  <2>2. CASE rows[k] # None
    BY <1>s, <2>2 DEF Store, TypeOK
  <2> QED BY <2>1, <2>2
<1>r. ASSUME NEW k \in Keys, rows[k] # None, Serve(k, rows[k]), UNCHANGED rows
      PROVE  [Documents!Next]_(Documents!vars)
  BY <1>r DEF Serve, Documents!Read
<1>1. ASSUME NEW p \in Posts, Insert(p) PROVE [Documents!Next]_(Documents!vars)
  BY <1>1, <1>s DEF Insert, TypeOK
<1>2. ASSUME NEW p \in Posts, FailPost(p) PROVE [Documents!Next]_(Documents!vars)
  BY <1>2, <1>s DEF FailPost, TypeOK
<1>3. ASSUME NEW g \in Gets, NEW k \in Keys, Lookup(g, k)
      PROVE  [Documents!Next]_(Documents!vars)
  <2>1. CASE UNCHANGED served
    BY <1>3, <2>1 DEF Lookup
  <2>2. CASE cache[k] # None /\ Serve(k, cache[k])
    BY <1>3, <1>r, <2>2 DEF Lookup, CacheTruthful
  <2> QED BY <1>3, <2>1, <2>2 DEF Lookup
<1>4. ASSUME NEW g \in Gets, GetHaste(g) PROVE [Documents!Next]_(Documents!vars)
  <2>1. CASE UNCHANGED served
    BY <1>4, <2>1 DEF GetHaste
  <2>2. CASE rows[get[g].key] \in Text /\ Serve(get[g].key, rows[get[g].key])
    <3>1. get[g].key \in Keys /\ rows[get[g].key] # None
      BY <1>4, <2>2, NoneAssumption DEF GetHaste, TypeOK, Text
    <3> QED BY <1>4, <1>r, <2>2, <3>1 DEF GetHaste
  <2> QED BY <1>4, <2>1, <2>2 DEF GetHaste
<1>5. CASE \/ \E p \in Posts : Receive(p) \/ \E k \in Keys : ChooseKey(p, k)
           \/ \E g \in Gets : Fill(g)
           \/ \E k \in Keys : Expire(k)
           \/ UNCHANGED vars
  BY <1>5 DEF Receive, ChooseKey, Fill, Expire, vars
<1> QED BY <1>1, <1>2, <1>3, <1>4, <1>5 DEF Next

\* Readers of a key get the one document it has ever had, whatever is cached.
THEOREM CacheIsInvisible == Spec => CacheInvisible
<1>1. Init => Documents!Init
  BY DEF Init, Documents!Init
<1> QED BY <1>1, WriteOnceStep, CacheIsTruthful, TypeCorrect, PTL
        DEF Spec, CacheInvisible, Documents!Spec

\* The key of a POST that still looks for one: of no more POSTs than there are keys,
\* each has filled one at most.
Filled == {k \in Keys : rows[k] # None}
Ended == {p \in Posts : post[p].at \in {"answered", "failed"}}

KeysLeft == Cardinality(Filled) <= Cardinality(Ended)

LEMMA KeysLeftStep ==
  ASSUME IsFiniteSet(Keys), IsFiniteSet(Posts), TypeOK, KeysLeft, [Next]_vars
  PROVE  KeysLeft'
<1>1. /\ IsFiniteSet(Filled) /\ IsFiniteSet(Ended) /\ IsFiniteSet(Ended')
      /\ Cardinality(Filled) \in Nat /\ Cardinality(Ended) \in Nat
  BY FS_Subset, FS_CardinalityType DEF Filled, Ended
<1>2. CASE UNCHANGED <<rows, post>>
  BY <1>2 DEF KeysLeft, Filled, Ended
<1>3. ASSUME NEW p \in Posts, Insert(p) \/ FailPost(p) PROVE KeysLeft'
  <2>1. p \notin Ended /\ Ended' = Ended \cup {p}
    BY <1>3 DEF Insert, FailPost, TypeOK, Ended
  <2>2. Cardinality(Ended') = Cardinality(Ended) + 1
    BY <1>1, <2>1, FS_AddElement
  <2>3. PICK k \in Keys \cup {None} : Filled' \subseteq Filled \cup {k}
    <3>1. CASE UNCHANGED rows
      BY <3>1 DEF Filled
    <3>2. CASE Store(post[p].key, post[p].body)
      <4>1. post[p].key \in Keys \cup {None}
        BY DEF TypeOK
      <4>2. \A j \in Keys \ {post[p].key} : rows'[j] = rows[j]
        BY <3>2 DEF Store, TypeOK
      <4> QED BY <4>1, <4>2 DEF Filled
    <3> QED BY <1>3, <3>1, <3>2 DEF Insert, FailPost
  <2>4. /\ Cardinality(Filled \cup {k}) \in {Cardinality(Filled), Cardinality(Filled) + 1}
        /\ IsFiniteSet(Filled \cup {k})
    BY <1>1, FS_AddElement
  <2>5. Cardinality(Filled') <= Cardinality(Filled \cup {k}) /\ Cardinality(Filled') \in Nat
        /\ Cardinality(Filled \cup {k}) \in Nat
    BY <2>3, <2>4, FS_Subset, FS_CardinalityType
  <2> QED BY <1>1, <2>2, <2>4, <2>5 DEF KeysLeft
<1>4. ASSUME NEW p \in Posts, Receive(p) \/ \E k \in Keys : ChooseKey(p, k) PROVE KeysLeft'
  <2>1. rows' = rows /\ Ended' = Ended
    BY <1>4 DEF Receive, ChooseKey, TypeOK, Ended
  <2> QED BY <2>1 DEF KeysLeft, Filled
<1> QED BY <1>2, <1>3, <1>4 DEF Next, Lookup, GetHaste, Fill, Expire, vars

\* chooseKey's loop can end: as long as there are no fewer keys than POSTs, one that is
\* choosing has a key that is free, whatever the others insert meanwhile.
THEOREM ChoosersHaveKeys ==
  ASSUME IsFiniteSet(Keys), IsFiniteSet(Posts), Cardinality(Posts) <= Cardinality(Keys)
  PROVE  Spec => [](\A p \in Posts : post[p].at = "choosing" => \E k \in Keys : rows[k] = None)
<1> DEFINE Free == \A p \in Posts : post[p].at = "choosing" => \E k \in Keys : rows[k] = None
<1>1. Init => KeysLeft
  <2> SUFFICES ASSUME Init PROVE KeysLeft
    OBVIOUS
  <2>1. Filled = {} /\ IsFiniteSet(Ended)
    BY FS_Subset DEF Init, Filled, Ended
  <2> QED BY <2>1, FS_EmptySet, FS_CardinalityType DEF KeysLeft
<1>2. TypeOK /\ KeysLeft /\ [Next]_vars => KeysLeft'
  BY KeysLeftStep
<1>3. KeysLeft => Free
  <2> SUFFICES ASSUME KeysLeft, NEW p \in Posts, post[p].at = "choosing",
                      \A k \in Keys : rows[k] # None
               PROVE  FALSE
    OBVIOUS
  <2>1. Filled = Keys /\ Ended \subseteq Posts /\ Ended # Posts
    BY DEF Filled, Ended
  <2>2. Cardinality(Ended) <= Cardinality(Posts) /\ Cardinality(Ended) # Cardinality(Posts)
    BY <2>1, FS_Subset
  <2>3. /\ Cardinality(Ended) \in Nat /\ Cardinality(Posts) \in Nat /\ Cardinality(Keys) \in Nat
        /\ Cardinality(Keys) <= Cardinality(Ended)
    BY <2>1, FS_CardinalityType, FS_Subset DEF KeysLeft
  <2> QED BY <2>2, <2>3
<1>4. Spec => []KeysLeft
  BY <1>1, <1>2, TypeCorrect, PTL DEF Spec
<1> QED BY <1>3, <1>4, PTL

-----------------------------------------------------------------------------
(* Users: the reads                                                         *)

Reads == Tables \cup Lists \cup Cooldowns
ReadStates == Over \cup {"off", "waiting", "query", "joining"}

\* Only the pool's own reads can hold a connection, so there are finitely many.
LEMMA HeldFinite == IsFiniteSet(Held)
<1>1. IsFiniteSet(Tables) /\ IsFiniteSet(Lists)
  <2>1. IsFiniteSet({"user"}) /\ IsFiniteSet({"commands"})
    BY FS_Singleton
  <2>2. IsFiniteSet({"user"} \cup {"channel"}) /\ IsFiniteSet({"commands"} \cup {"blocks"})
    BY <2>1, FS_AddElement
  <2>3. IsFiniteSet(({"user"} \cup {"channel"}) \cup {"potatoes"})
    BY <2>2, FS_AddElement
  <2>4. /\ Tables = ({"user"} \cup {"channel"}) \cup {"potatoes"}
        /\ Lists = {"commands"} \cup {"blocks"}
    BY DEF Tables, Lists
  <2> QED BY <2>2, <2>3, <2>4
<1>2. IsFiniteSet(Tables \cup Lists)
  BY <1>1, FS_Union
<1>3. IsFiniteSet(Names \X (Tables \cup Lists))
  BY <1>2, NamesAssumption, FS_Product
<1> QED BY <1>3, FS_Subset DEF Held

AtType == at \in [Names -> [Reads -> ReadStates]]

Moves(p, f, s) == at' = [at EXCEPT ![p][f] = s]

\* A read of one name goes on, and no other.
LEMMA OneMoves ==
  ASSUME AtType, NEW p \in Names, NEW f \in Reads, NEW s \in ReadStates, Moves(p, f, s)
  PROVE  /\ AtType'
         /\ at'[p][f] = s
         /\ \A q \in Names, g \in Reads : q # p \/ g # f => at'[q][g] = at[q][g]
BY DEF AtType, Moves

ListsGo(p) ==
  /\ at[p]["channel"] = "query" /\ p \in Rows["channel"]
  /\ at' = [at EXCEPT ![p]["channel"] = "joining",
                      ![p]["commands"] = "waiting", ![p]["blocks"] = "waiting"]

\* The channel of a name has a row: its lists are read as well.
LEMMA ChannelMoves ==
  ASSUME AtType, NEW p \in Names, ListsGo(p)
  PROVE  /\ AtType'
         /\ at'[p]["channel"] = "joining" /\ \A l \in Lists : at'[p][l] = "waiting"
         /\ \A q \in Names, g \in Reads :
              q # p \/ g \notin Lists \cup {"channel"} => at'[q][g] = at[q][g]
<1> DEFINE new == [at[p] EXCEPT !["channel"] = "joining",
                                !["commands"] = "waiting", !["blocks"] = "waiting"]
<1>0. {"channel", "commands", "blocks"} \subseteq Reads /\ {"joining", "waiting"} \subseteq ReadStates
  BY DEF Reads, ReadStates, Tables, Lists
<1>1. at[p] \in [Reads -> ReadStates]
  BY DEF AtType
<1>2. /\ new \in [Reads -> ReadStates] /\ new["channel"] = "joining"
      /\ new["commands"] = "waiting" /\ new["blocks"] = "waiting"
      /\ \A g \in Reads : g \notin Lists \cup {"channel"} => new[g] = at[p][g]
  BY <1>0, <1>1 DEF Lists
<1>3. at' = [at EXCEPT ![p] = new]
  BY <1>1 DEF AtType, ListsGo
<1> HIDE DEF new
<1> QED BY <1>2, <1>3 DEF AtType, Lists

\* What the reads rest on: nothing but a row of a table is read from it, a channel
\* joins lists that have begun and has a row when both are over, and of the others
\* none waits for lists.
ReadsOK ==
  \A p \in Names :
    /\ \A t \in Tables : /\ at[p][t] \notin {"off", "part"}
                         /\ at[p][t] = "row" => p \in Rows[t]
                         /\ at[p][t] = "none" => p \notin Rows[t]
    /\ \A k \in Cooldowns : at[p][k] \in Over \cup {"waiting"}
    /\ \A f \in (Tables \cup Lists) \ {"channel"} : at[p][f] # "joining"
    /\ at[p]["channel"] = "joining" =>
         p \in Rows["channel"] /\ \A l \in Lists : at[p][l] # "off"
    /\ at[p]["channel"] = "row" => \A l \in Lists : at[p][l] \in Over

\* What one read may do by itself, without another one's moving.
Goes(p, f, s) ==
  \/ f \in Tables \cup Lists /\ at[p][f] = "waiting" /\ s = "failed"
  \/ f \in Tables \cup Lists /\ at[p][f] = "waiting" /\ s = "query" /\ Cardinality(Held) < MaxConns
  \/ f \in Tables /\ at[p][f] = "query"
     /\ \/ s = "failed"
        \/ s = "none" /\ p \notin Rows[f]
        \/ s = "row" /\ p \in Rows[f] /\ f # "channel"
  \/ f \in Lists /\ at[p][f] = "query" /\ s \in Over
  \/ f = "channel" /\ at[p][f] = "joining" /\ s = "row" /\ \A l \in Lists : at[p][l] \in Over
  \/ f \in Cooldowns /\ at[p][f] = "waiting" /\ s \in {"row", "none", "failed"}

OneGoes(p) ==
  \E f \in Reads, s \in ReadStates : Goes(p, f, s) /\ Moves(p, f, s)

\* Every step of a read is one read going, or the channel's lists beginning.
LEMMA ReadGoes ==
  ASSUME NEW p \in Names,
         Read(p) \/ \E f \in Tables \cup Lists : AcquireFails(p, f)
  PROVE  OneGoes(p) \/ ListsGo(p)
<1>0. /\ Tables \cup Lists \subseteq Reads /\ Cooldowns \subseteq Reads
      /\ Over \cup {"query"} \subseteq ReadStates
      /\ Over = {"row", "none", "part", "failed"} /\ "channel" \in Tables
  BY DEF Reads, ReadStates, Over, Tables
<1> USE <1>0
<1>1. ASSUME NEW f \in Tables \cup Lists, Acquire(p, f) \/ AcquireFails(p, f) PROVE OneGoes(p)
  BY <1>1 DEF Acquire, AcquireFails, OneGoes, Goes, Moves
<1>2. ASSUME NEW t \in Tables, ReadRow(p, t) PROVE OneGoes(p)
  BY <1>2 DEF ReadRow, OneGoes, Goes, Moves
<1>3. ASSUME ReadChannel(p) PROVE OneGoes(p) \/ ListsGo(p)
  <2>1. CASE p \in Rows["channel"] /\ ListsGo(p)
    BY <2>1
  <2>2. CASE p \notin Rows["channel"] /\ at' = [at EXCEPT ![p]["channel"] = "none"]
    BY <1>3, <2>2 DEF ReadChannel, OneGoes, Goes, Moves
  <2>3. CASE at' = [at EXCEPT ![p]["channel"] = "failed"]
    BY <1>3, <2>3 DEF ReadChannel, OneGoes, Goes, Moves
  <2> QED BY <1>3, <2>1, <2>2, <2>3 DEF ReadChannel, ListsGo
<1>4. ASSUME NEW l \in Lists, ReadList(p, l) PROVE OneGoes(p)
  <2>1. PICK s \in Over : at' = [at EXCEPT ![p][l] = s]
    BY <1>4 DEF ReadList
  <2> QED BY <1>4, <2>1 DEF ReadList, OneGoes, Goes, Moves
<1>5. ASSUME Join(p) PROVE OneGoes(p)
  BY <1>5 DEF Join, OneGoes, Goes, Moves
<1>6. ASSUME NEW k \in Cooldowns, ReadCooldown(p, k) PROVE OneGoes(p)
  BY <1>6 DEF ReadCooldown, OneGoes, Goes, Moves
<1> QED BY <1>1, <1>2, <1>3, <1>4, <1>5, <1>6 DEF Read

\* Reads only go on: their types stay right, what is over stays so, and ReadsOK is
\* inductive.
LEMMA ReadStep ==
  ASSUME AtType, ReadsOK, NEW p \in Names, OneGoes(p) \/ ListsGo(p)
  PROVE  /\ AtType' /\ ReadsOK'
         /\ \A q \in Names, f \in Tables \cup Cooldowns :
              at[q][f] \in Over => at'[q][f] = at[q][f]
<1>0. /\ Tables \cup Lists \subseteq Reads /\ Cooldowns \subseteq Reads
      /\ Over \cup {"query"} \subseteq ReadStates
      /\ Over = {"row", "none", "part", "failed"}
      /\ Tables = {"user", "channel", "potatoes"} /\ Lists = {"commands", "blocks"}
  BY DEF Reads, ReadStates, Over, Tables, Lists
<1>1. CASE OneGoes(p)
  <2>1. PICK f \in Reads, s \in ReadStates : Goes(p, f, s) /\ Moves(p, f, s)
    BY <1>1 DEF OneGoes
  <2>2. /\ AtType' /\ at'[p][f] = s
        /\ \A q \in Names, g \in Reads : q # p \/ g # f => at'[q][g] = at[q][g]
    BY <2>1, OneMoves
  <2>3. at[p][f] \notin Over \/ f \notin Tables \cup Cooldowns
    BY <1>0, <2>1, CooldownsAssumption DEF Goes
  <2>4. \A q \in Names, g \in Tables \cup Cooldowns : at[q][g] \in Over => at'[q][g] = at[q][g]
    BY <1>0, <2>2, <2>3
  <2>5. ASSUME NEW q \in Names, NEW t \in Tables
        PROVE  /\ at'[q][t] \notin {"off", "part"}
               /\ at'[q][t] = "row" => q \in Rows[t]
               /\ at'[q][t] = "none" => q \notin Rows[t]
    <3>1. CASE q = p /\ t = f
      <4>1. \/ s \in {"query", "failed"}
            \/ s = "none" /\ p \notin Rows[f]
            \/ s = "row" /\ p \in Rows[f]
        BY <1>0, <2>1, <3>1, CooldownsAssumption DEF Goes, ReadsOK
      <4> QED BY <2>2, <3>1, <4>1
    <3>2. CASE q # p \/ t # f
      BY <1>0, <2>2, <3>2 DEF ReadsOK
    <3> QED BY <3>1, <3>2
  <2>6. ASSUME NEW q \in Names, NEW k \in Cooldowns PROVE at'[q][k] \in Over \cup {"waiting"}
    BY <1>0, <2>1, <2>2, CooldownsAssumption DEF ReadsOK, Goes
  <2>7. ASSUME NEW q \in Names, NEW g \in (Tables \cup Lists) \ {"channel"}
        PROVE  at'[q][g] # "joining"
    BY <1>0, <2>1, <2>2, CooldownsAssumption DEF ReadsOK, Goes
  <2>8. ASSUME NEW q \in Names, at'[q]["channel"] = "joining"
        PROVE  q \in Rows["channel"] /\ \A l \in Lists : at'[q][l] # "off"
    BY <1>0, <2>1, <2>2, <2>8, CooldownsAssumption DEF ReadsOK, Goes
  <2>9. ASSUME NEW q \in Names, at'[q]["channel"] = "row", NEW l \in Lists
        PROVE  at'[q][l] \in Over
    BY <1>0, <2>1, <2>2, <2>9, CooldownsAssumption DEF ReadsOK, Goes
  <2> QED BY <2>2, <2>4, <2>5, <2>6, <2>7, <2>8, <2>9 DEF ReadsOK
<1>2. CASE ListsGo(p)
  <2>1. /\ AtType' /\ at'[p]["channel"] = "joining" /\ \A l \in Lists : at'[p][l] = "waiting"
        /\ \A q \in Names, g \in Reads :
             q # p \/ g \notin Lists \cup {"channel"} => at'[q][g] = at[q][g]
    BY <1>2, ChannelMoves
  <2>2. ASSUME NEW q \in Names, NEW g \in Reads
        PROVE  \/ at'[q][g] = at[q][g]
               \/ q = p /\ g = "channel" /\ at[q][g] = "query" /\ at'[q][g] = "joining"
               \/ q = p /\ g \in Lists /\ at'[q][g] = "waiting"
    <3>1. at[p]["channel"] = "query"
      BY <1>2 DEF ListsGo
    <3> QED BY <2>1, <3>1
  <2>3. \A q \in Names, g \in Tables \cup Cooldowns : at[q][g] \in Over => at'[q][g] = at[q][g]
    BY <1>0, <2>2, CooldownsAssumption
  <2>4. ASSUME NEW q \in Names
        PROVE  /\ at'[q]["channel"] = "joining" =>
                    q \in Rows["channel"] /\ \A l \in Lists : at'[q][l] # "off"
               /\ at'[q]["channel"] = "row" => \A l \in Lists : at'[q][l] \in Over
    <3>1. CASE q = p
      BY <1>2, <2>1, <3>1 DEF ListsGo
    <3>2. CASE q # p
      BY <1>0, <2>1, <3>2 DEF ReadsOK
    <3> QED BY <3>1, <3>2
  <2>5. ASSUME NEW q \in Names, NEW t \in Tables
        PROVE  /\ at'[q][t] \notin {"off", "part"}
               /\ at'[q][t] = "row" => q \in Rows[t]
               /\ at'[q][t] = "none" => q \notin Rows[t]
               /\ t # "channel" => at'[q][t] # "joining"
    BY <1>0, <2>2 DEF ReadsOK
  <2>6. ASSUME NEW q \in Names, NEW k \in Cooldowns PROVE at'[q][k] \in Over \cup {"waiting"}
    BY <1>0, <2>2 DEF ReadsOK
  <2>7. ASSUME NEW q \in Names, NEW l \in Lists PROVE at'[q][l] # "joining"
    BY <1>0, <2>2 DEF ReadsOK
  <2> QED BY <2>1, <2>3, <2>4, <2>5, <2>6, <2>7 DEF ReadsOK
<1> QED BY <1>1, <1>2

\* A read takes a connection only while the pool has one to give.
LEMMA HeldStep ==
  ASSUME AtType, NEW p \in Names, OneGoes(p) \/ ListsGo(p), Cardinality(Held) <= MaxConns
  PROVE  Cardinality(Held') <= MaxConns
<1>0. /\ Tables \cup Lists \subseteq Reads /\ Cooldowns \subseteq Reads /\ Lists = {"commands", "blocks"}
      /\ Over = {"row", "none", "part", "failed"}
  BY DEF Reads, Over, Lists
<1>1. /\ Cardinality(Held) \in Nat /\ MaxConns \in Nat
      /\ \A S \in SUBSET Held : Cardinality(S) <= Cardinality(Held) /\ Cardinality(S) \in Nat
  BY HeldFinite, PoolAssumption, FS_CardinalityType, FS_Subset
<1>2. ASSUME Held' \subseteq Held PROVE Cardinality(Held') <= MaxConns
  BY <1>1, <1>2
<1>3. CASE OneGoes(p)
  <2>1. PICK f \in Reads, s \in ReadStates : Goes(p, f, s) /\ Moves(p, f, s)
    BY <1>3 DEF OneGoes
  <2>2. /\ at'[p][f] = s
        /\ \A q \in Names, g \in Reads : q # p \/ g # f => at'[q][g] = at[q][g]
    BY <2>1, OneMoves
  <2>3. CASE s # "query"
    <3>1. Held' \subseteq Held
      BY <1>0, <2>2, <2>3 DEF Held
    <3> QED BY <1>2, <3>1
  <2>4. CASE s = "query"
    <3>1. Cardinality(Held) < MaxConns /\ <<p, f>> \notin Held
      BY <1>0, <2>1, <2>4 DEF Goes, Held
    <3>2. Held' \subseteq Held \cup {<<p, f>>}
      BY <1>0, <2>2 DEF Held
    <3>3. /\ IsFiniteSet(Held \cup {<<p, f>>})
          /\ Cardinality(Held \cup {<<p, f>>}) = Cardinality(Held) + 1
      BY <3>1, HeldFinite, FS_AddElement
    <3>4. Cardinality(Held') <= Cardinality(Held) + 1 /\ Cardinality(Held') \in Nat
      BY <3>2, <3>3, FS_Subset, FS_CardinalityType
    <3> QED BY <1>1, <3>1, <3>4
  <2> QED BY <2>3, <2>4
<1>4. CASE ListsGo(p)
  <2>1. /\ at'[p]["channel"] = "joining" /\ \A l \in Lists : at'[p][l] = "waiting"
        /\ \A q \in Names, g \in Reads :
             q # p \/ g \notin Lists \cup {"channel"} => at'[q][g] = at[q][g]
    BY <1>4, ChannelMoves
  <2>2. Held' \subseteq Held
    BY <1>0, <2>1 DEF Held
  <2> QED BY <1>2, <2>2
<1> QED BY <1>3, <1>4

Info == [name : Names, fields : SUBSET Tables, ready : SUBSET Cooldowns]

LEMMA InfoType == \A p \in Names : UserInfo(p) \in Info /\ UserInfo(p).name = p
BY DEF UserInfo, Info, Ready

NamesIn(s) == {s[i].name : i \in DOMAIN s}

\* Names in a sequence when one is added at its end or taken from its head.
LEMMA NamesAppended ==
  ASSUME NEW s \in Seq(Info), NEW e \in Info
  PROVE  NamesIn(Append(s, e)) = NamesIn(s) \cup {e.name}
<1>1. \A i \in DOMAIN s : i \in DOMAIN Append(s, e) /\ Append(s, e)[i] = s[i]
  OBVIOUS
<1>2. Len(s) + 1 \in DOMAIN Append(s, e) /\ Append(s, e)[Len(s) + 1] = e
  OBVIOUS
<1>3. \A i \in DOMAIN Append(s, e) : i \in DOMAIN s \/ i = Len(s) + 1
  OBVIOUS
<1> QED BY <1>1, <1>2, <1>3 DEF NamesIn

LEMMA NamesTaken ==
  ASSUME NEW s \in Seq(Info), s # <<>>
  PROVE  /\ Head(s) \in Info /\ Tail(s) \in Seq(Info) /\ Len(Tail(s)) = Len(s) - 1
         /\ NamesIn(s) = NamesIn(Tail(s)) \cup {Head(s).name}
<1>1. Head(s) \in Info /\ Tail(s) \in Seq(Info) /\ Len(Tail(s)) = Len(s) - 1
  OBVIOUS
<1>2. \A i \in DOMAIN Tail(s) : i + 1 \in DOMAIN s /\ Tail(s)[i] = s[i + 1]
  OBVIOUS
<1>3. \A i \in DOMAIN s : i = 1 \/ (i - 1 \in DOMAIN Tail(s) /\ s[i] = Tail(s)[i - 1])
  OBVIOUS
<1>4. 1 \in DOMAIN s /\ s[1] = Head(s)
  OBVIOUS
<1>5. NamesIn(s) \subseteq NamesIn(Tail(s)) \cup {Head(s).name}
  BY <1>3, <1>4 DEF NamesIn
<1>6. NamesIn(Tail(s)) \cup {Head(s).name} \subseteq NamesIn(s)
  BY <1>2, <1>4 DEF NamesIn
<1> QED BY <1>1, <1>5, <1>6

\* What has come of the people looked up: the answer of each is sent when all its reads
\* are over, exactly once, and the handler collects until the channel is closed.
Collected ==
  /\ \A p \in sent : \A f \in Tables \cup Cooldowns : at[p][f] \in Over
  /\ \A i \in DOMAIN channel : \E p \in sent : channel[i] = UserInfo(p)
  /\ \A i \in DOMAIN answer : \E p \in sent : answer[i] = UserInfo(p)
  /\ NamesIn(channel) \cup NamesIn(answer) = sent
  /\ Len(channel) + Len(answer) = Cardinality(sent)
  /\ closed => sent = Names
  /\ status # 0 => closed /\ channel = <<>>
  /\ status = 404 => \E i \in DOMAIN answer : "user" \notin answer[i].fields

\* The inductive invariant of a request.
UsersInv == UsersTypeOK /\ ReadsOK /\ Collected

\* UsersTypeOK with its parts named.
LEMMA UsersTypes ==
  UsersTypeOK <=>
    /\ AtType /\ channel \in Seq(Info) /\ answer \in Seq(Info)
    /\ sent \subseteq Names /\ closed \in BOOLEAN /\ (closed => sent = Names)
    /\ status \in {0, 200, 404} /\ Cardinality(Held) <= MaxConns
<1>1. AtType <=> at \in [Names -> [Tables \cup Lists \cup Cooldowns ->
                                      Over \cup {"off", "waiting", "query", "joining"}]]
  BY DEF AtType, Reads, ReadStates
<1>2. Info = [name : Names, fields : SUBSET Tables, ready : SUBSET Cooldowns]
  BY DEF Info
<1> QED BY <1>1, <1>2, Zenon DEF UsersTypeOK

LEMMA UsersInitial == UsersInit => UsersInv
<1> SUFFICES ASSUME UsersInit PROVE UsersInv
  OBVIOUS
<1>0. /\ Tables = {"user", "channel", "potatoes"} /\ Lists = {"commands", "blocks"}
      /\ Over = {"row", "none", "part", "failed"}
  BY DEF Tables, Lists, Over
<1>1. /\ AtType /\ \A p \in Names, f \in Reads :
                      at[p][f] = IF f \in Lists THEN "off" ELSE "waiting"
  BY DEF UsersInit, AtType, Reads, ReadStates
<1>2. ReadsOK
  BY <1>0, <1>1, CooldownsAssumption DEF ReadsOK, Reads
<1>3. Held = {}
  BY <1>1 DEF Held, Reads
<1>4. Cardinality(Held) <= MaxConns
  BY <1>3, PoolAssumption, FS_EmptySet
<1>5. UsersTypeOK
  <2>1. channel \in Seq(Info) /\ answer \in Seq(Info) /\ sent \subseteq Names
        /\ closed = FALSE /\ status = 0
    BY DEF UsersInit
  <2> QED BY <1>1, <1>4, <2>1, UsersTypes
<1>6. Collected
  BY FS_EmptySet DEF UsersInit, Collected, NamesIn
<1> QED BY <1>2, <1>5, <1>6 DEF UsersInv

\* What has been put together stays true of the reads, which are over.
LEMMA CollectedStays ==
  ASSUME UsersInv, NEW p \in Names, OneGoes(p) \/ ListsGo(p), UNCHANGED <<chanVars, answer, status>>
  PROVE  UsersInv'
<1>1. /\ AtType /\ channel \in Seq(Info) /\ answer \in Seq(Info)
      /\ sent \subseteq Names /\ closed \in BOOLEAN /\ (closed => sent = Names)
      /\ status \in {0, 200, 404} /\ Cardinality(Held) <= MaxConns
  BY UsersTypes DEF UsersInv
<1>2. /\ AtType' /\ ReadsOK' 
      /\ \A q \in Names, f \in Tables \cup Cooldowns : at[q][f] \in Over => at'[q][f] = at[q][f]
  BY <1>1, ReadStep DEF UsersInv
<1>3. Cardinality(Held') <= MaxConns
  BY <1>1, HeldStep
<1>4. UNCHANGED <<channel, sent, closed, answer, status>>
  BY DEF chanVars
<1>5. UsersTypeOK'
  <2>1. /\ AtType' /\ channel' \in Seq(Info) /\ answer' \in Seq(Info)
        /\ sent' \subseteq Names /\ closed' \in BOOLEAN /\ (closed' => sent' = Names)
        /\ status' \in {0, 200, 404} /\ Cardinality(Held') <= MaxConns
    BY <1>1, <1>2, <1>3, <1>4
  <2> QED BY <2>1 DEF UsersTypeOK, AtType, Info, Reads, ReadStates
<1>6. \A q \in sent : UserInfo(q)' = UserInfo(q)
  <2> SUFFICES ASSUME NEW q \in sent PROVE UserInfo(q)' = UserInfo(q)
    OBVIOUS
  <2>1. \A f \in Tables \cup Cooldowns : at'[q][f] = at[q][f]
    BY <1>1, <1>2 DEF UsersInv, Collected
  <2>2. "potatoes" \in Tables
    BY DEF Tables
  <2>3. Ready(q)' = Ready(q) /\ {t \in Tables : at'[q][t] = "row"} = {t \in Tables : at[q][t] = "row"}
    BY <2>1, <2>2 DEF Ready
  <2> QED BY <2>3 DEF UserInfo
<1>7. Collected'
  <2>1. \A q \in sent' : \A f \in Tables \cup Cooldowns : at'[q][f] \in Over
    BY <1>1, <1>2, <1>4 DEF UsersInv, Collected
  <2>2. \A i \in DOMAIN channel' : \E q \in sent' : channel'[i] = UserInfo(q)'
    BY <1>4, <1>6 DEF UsersInv, Collected
  <2>3. \A i \in DOMAIN answer' : \E q \in sent' : answer'[i] = UserInfo(q)'
    BY <1>4, <1>6 DEF UsersInv, Collected
  <2>4. /\ NamesIn(channel)' = NamesIn(channel) /\ NamesIn(answer)' = NamesIn(answer)
    BY <1>4
  <2> QED BY <1>4, <2>1, <2>2, <2>3, <2>4 DEF UsersInv, Collected
<1> QED BY <1>2, <1>5, <1>7 DEF UsersInv

\* The steps that put a name together, and the ones of the request itself.
LEMMA CollectedGrows ==
  ASSUME UsersInv,
         \/ \E p \in Names : LoadUser(p)
         \/ Close \/ Collect \/ Respond \/ UNCHANGED usersVars
  PROVE  UsersInv'
<1>1. /\ AtType /\ channel \in Seq(Info) /\ answer \in Seq(Info)
      /\ sent \subseteq Names /\ closed \in BOOLEAN /\ (closed => sent = Names)
      /\ status \in {0, 200, 404} /\ Cardinality(Held) <= MaxConns
  BY UsersTypes DEF UsersInv
<1>2. at' = at
  BY DEF LoadUser, Send, Close, Collect, Respond, usersVars
<1>3. AtType' /\ ReadsOK' /\ Held' = Held /\ \A p : UserInfo(p)' = UserInfo(p)
  BY <1>1, <1>2 DEF AtType, ReadsOK, UsersInv, Held, UserInfo, Ready
<1>s. IsFiniteSet(sent) /\ Cardinality(sent) \in Nat
  BY <1>1, NamesAssumption, FS_Subset, FS_CardinalityType
<1>c. /\ \A p \in sent : \A f \in Tables \cup Cooldowns : at[p][f] \in Over
      /\ \A i \in DOMAIN channel : \E p \in sent : channel[i] = UserInfo(p)
      /\ \A i \in DOMAIN answer : \E p \in sent : answer[i] = UserInfo(p)
      /\ NamesIn(channel) \cup NamesIn(answer) = sent
      /\ Len(channel) + Len(answer) = Cardinality(sent)
      /\ status # 0 => closed /\ channel = <<>>
      /\ status = 404 => \E i \in DOMAIN answer : "user" \notin answer[i].fields
  BY DEF UsersInv, Collected
<1> SUFFICES /\ channel' \in Seq(Info) /\ answer' \in Seq(Info)
             /\ sent' \subseteq Names /\ closed' \in BOOLEAN /\ (closed' => sent' = Names)
             /\ status' \in {0, 200, 404}
             /\ \A p \in sent' : \A f \in Tables \cup Cooldowns : at[p][f] \in Over
             /\ \A i \in DOMAIN channel' : \E p \in sent' : channel'[i] = UserInfo(p)
             /\ \A i \in DOMAIN answer' : \E p \in sent' : answer'[i] = UserInfo(p)
             /\ NamesIn(channel') \cup NamesIn(answer') = sent'
             /\ Len(channel') + Len(answer') = Cardinality(sent')
             /\ status' # 0 => closed' /\ channel' = <<>>
             /\ status' = 404 => \E i \in DOMAIN answer' : "user" \notin answer'[i].fields
  <2>1. UsersTypeOK'
    <3>1. AtType' /\ Cardinality(Held') <= MaxConns
      BY <1>1, <1>3
    <3> QED BY <1>1, <3>1 DEF UsersTypeOK, AtType, Info, Reads, ReadStates
  <2>2. Collected'
    BY <1>2, <1>3 DEF Collected, NamesIn
  <2> QED BY <1>3, <2>1, <2>2 DEF UsersInv
<1>4. ASSUME NEW p \in Names, LoadUser(p)
      PROVE  /\ channel' = Append(channel, UserInfo(p)) /\ sent' = sent \cup {p} /\ p \notin sent
             /\ \A f \in Tables \cup Cooldowns : at[p][f] \in Over
             /\ UNCHANGED <<closed, answer, status>>
  BY <1>4 DEF LoadUser, Send
<1>5. CASE \E p \in Names : LoadUser(p)
  <2>1. PICK p \in Names : LoadUser(p)
    BY <1>5
  <2>2. UserInfo(p) \in Info /\ UserInfo(p).name = p
    BY InfoType
  <2>3. channel' \in Seq(Info) /\ Len(channel') = Len(channel) + 1
    BY <1>1, <1>4, <2>1, <2>2
  <2>4. NamesIn(channel') = NamesIn(channel) \cup {p}
    <3>1. NamesIn(Append(channel, UserInfo(p))) = NamesIn(channel) \cup {UserInfo(p).name}
      BY <1>1, <2>2, NamesAppended
    <3> QED BY <1>4, <2>1, <2>2, <3>1
  <2>5. Cardinality(sent') = Cardinality(sent) + 1
    BY <1>4, <1>s, <2>1, FS_AddElement
  <2>6. \A i \in DOMAIN channel' : \E q \in sent' : channel'[i] = UserInfo(q)
    <3>1. \A i \in DOMAIN channel' : \/ i \in DOMAIN channel /\ channel'[i] = channel[i]
                                     \/ channel'[i] = UserInfo(p)
      BY <1>1, <1>4, <2>1, <2>2
    <3> QED BY <1>4, <1>c, <2>1, <3>1
  <2>7. ~closed /\ status = 0 
    BY <1>1, <1>4, <1>c, <2>1
  <2>8. Len(channel) \in Nat /\ Len(answer) \in Nat
    BY <1>1
  <2> HIDE DEF Info
  <2> QED BY <1>1, <1>4, <1>c, <1>s, <2>1, <2>3, <2>4, <2>5, <2>6, <2>7, <2>8
<1>6. CASE Close
  BY <1>1, <1>6, <1>c DEF Close
<1>7. CASE Collect
  <2>1. /\ channel # <<>> /\ status = 0
        /\ channel' = Tail(channel) /\ answer' = Append(answer, Head(channel))
        /\ UNCHANGED <<sent, closed, status>>
    BY <1>7 DEF Collect
  <2>2. /\ Head(channel) \in Info /\ channel' \in Seq(Info) /\ Len(channel') = Len(channel) - 1
        /\ NamesIn(channel) = NamesIn(channel') \cup {Head(channel).name}
    BY <1>1, <2>1, NamesTaken
  <2>3. answer' \in Seq(Info) /\ Len(answer') = Len(answer) + 1
    BY <1>1, <2>1, <2>2
  <2>4. NamesIn(answer') = NamesIn(answer) \cup {Head(channel).name}
    BY <1>1, <2>1, <2>2, NamesAppended
  <2>5. \A i \in DOMAIN channel' : \E q \in sent : channel'[i] = UserInfo(q)
    <3>1. \A i \in DOMAIN channel' : i + 1 \in DOMAIN channel /\ channel'[i] = channel[i + 1]
      BY <1>1, <2>1
    <3> QED BY <1>c, <3>1
  <2>6. \A i \in DOMAIN answer' : \E q \in sent : answer'[i] = UserInfo(q)
    <3>1. \A i \in DOMAIN answer' : \/ i \in DOMAIN answer /\ answer'[i] = answer[i]
                                    \/ answer'[i] = channel[1]
      BY <1>1, <2>1, <2>2
    <3>2. 1 \in DOMAIN channel
      BY <1>1, <2>1
    <3> QED BY <1>c, <3>1, <3>2
  <2>7. Len(channel) \in Nat /\ Len(answer) \in Nat
    BY <1>1
  <2> QED BY <1>1, <1>c, <1>s, <2>1, <2>2, <2>3, <2>4, <2>5, <2>6, <2>7
<1>8. CASE Respond
  <2>1. /\ closed /\ channel = <<>> /\ status = 0 /\ UNCHANGED <<channel, sent, closed, answer>>
        /\ status' = IF "user" \in answer[1].fields THEN 200 ELSE 404
    BY <1>8 DEF Respond, chanVars
  <2>2. Len(answer) = Cardinality(Names) /\ Cardinality(Names) >= 1
    <3>1. Len(channel) = 0 /\ Len(answer) \in Nat /\ sent = Names
      BY <1>1, <2>1
    <3>2. Len(channel) + Len(answer) = Cardinality(Names)
      BY <1>c, <3>1
    <3>3. Cardinality(Names) \in Nat /\ Cardinality(Names) >= 1
      BY NamesAssumption
    <3> QED BY <3>1, <3>2, <3>3
  <2>3. 1 \in DOMAIN answer
    BY <1>1, <2>2
  <2> QED BY <1>1, <1>c, <2>1, <2>3
<1>9. CASE UNCHANGED usersVars
  BY <1>1, <1>c, <1>9 DEF usersVars, chanVars
<1> QED BY <1>5, <1>6, <1>7, <1>8, <1>9

LEMMA UsersInvStays == UsersInv /\ [UsersNext]_usersVars => UsersInv'
<1> SUFFICES ASSUME UsersInv, [UsersNext]_usersVars PROVE UsersInv'
  OBVIOUS
<1>1. ASSUME NEW p \in Names, Read(p) \/ \E f \in Tables \cup Lists : AcquireFails(p, f),
             UNCHANGED <<chanVars, answer, status>>
      PROVE  UsersInv'
  BY <1>1, ReadGoes, CollectedStays
<1> QED BY <1>1, CollectedGrows DEF UsersNext, Proceed

LEMMA UsersInvariant == UsersSpec => []UsersInv
BY UsersInitial, UsersInvStays, PTL DEF UsersSpec

\* Types, for all names and any pool: a read is where its table has reads, no answer is
\* sent twice or after the channel was closed, and the channel is closed when all names
\* have been sent (user.go:335-412).
THEOREM UsersTypeCorrect == UsersSpec => []UsersTypeOK
BY UsersInvariant, PTL DEF UsersInv

\* Each name is answered once, with the rows it has in every table that could be read and
\* the cooldowns as they were read, however the reads interleave, fail or share the pool;
\* a 404 comes only with a name for which no user was found (user.go:188-333, 368-412).
THEOREM AnswersAreTrue == UsersSpec => []AnswerTrue
<1> SUFFICES ASSUME UsersInv PROVE AnswerTrue
  BY UsersInvariant, PTL
<1> SUFFICES ASSUME status # 0 PROVE AnswerTrue
  BY DEF AnswerTrue
<1>0. channel = <<>> /\ sent = Names /\ answer \in Seq(Info)
  BY UsersTypes DEF UsersInv, Collected
<1>1. NamesIn(answer) = Names /\ Len(answer) = Cardinality(Names)
  BY <1>0 DEF UsersInv, Collected, NamesIn
<1>2. ASSUME NEW i \in DOMAIN answer
      PROVE  LET p == answer[i].name IN
         /\ \A t \in Tables : t \in answer[i].fields => p \in Rows[t]
         /\ \A t \in Tables : p \in Rows[t] => t \in answer[i].fields \/ at[p][t] = "failed"
         /\ "channel" \in answer[i].fields => \A l \in Lists : at[p][l] \in Over
         /\ "potatoes" \in answer[i].fields =>
              \A k \in Cooldowns : k \in answer[i].ready <=> at[p][k] # "row"
  <2>1. PICK p \in Names : answer[i] = UserInfo(p)
    BY <1>0, <1>2 DEF UsersInv, Collected
  <2>2. /\ answer[i].name = p /\ answer[i].fields = {t \in Tables : at[p][t] = "row"}
        /\ answer[i].ready = {k \in Cooldowns : at[p]["potatoes"] = "row" /\ at[p][k] # "row"}
    BY <2>1 DEF UserInfo, Ready
  <2>3. \A t \in Tables : at[p][t] \in Over /\ at[p][t] # "part"
    BY <1>0 DEF UsersInv, Collected, ReadsOK
  <2> QED BY <2>2, <2>3 DEF UsersInv, ReadsOK, Over
<1>3. status = 404 => \E i \in DOMAIN answer : "user" \notin answer[i].fields
  BY DEF UsersInv, Collected
<1> QED BY <1>1, <1>2, <1>3 DEF AnswerTrue, NamesIn

\* Until it is answered, some goroutine of a request can take a step: each disjunct is
\* the guard of a step of Proceed.
GoesOn ==
  status = 0 =>
    \/ \E p \in Names, f \in Tables \cup Lists :
         at[p][f] = "waiting" /\ Cardinality(Held) < MaxConns
    \/ \E p \in Names, f \in Tables \cup Lists : at[p][f] = "query"
    \/ \E p \in Names, k \in Cooldowns : at[p][k] = "waiting"
    \/ \E p \in Names : at[p]["channel"] = "joining" /\ \A l \in Lists : at[p][l] \in Over
    \/ \E p \in Names \ sent : \A f \in Tables \cup Cooldowns : at[p][f] \in Over
    \/ ~closed /\ sent = Names
    \/ channel # <<>>
    \/ closed

LEMMA SomeoneGoesOn == UsersInv => GoesOn
<1> SUFFICES ASSUME UsersInv PROVE GoesOn
  OBVIOUS
<1>1. AtType /\ sent \subseteq Names
  BY UsersTypes DEF UsersInv
<1>2. ASSUME NEW p \in Names, NEW f \in Tables \cup Lists, at[p][f] \in {"waiting", "query"}
      PROVE  GoesOn
  <2>1. CASE at[p][f] = "query"
    BY <2>1 DEF GoesOn
  <2>2. CASE at[p][f] = "waiting" /\ Cardinality(Held) < MaxConns
    BY <2>2 DEF GoesOn
  <2>3. CASE ~(Cardinality(Held) < MaxConns)
    <3>1. Held # {}
      BY <2>3, PoolAssumption, FS_EmptySet
    <3> QED BY <3>1 DEF Held, GoesOn
  <2> QED BY <1>2, <2>1, <2>2, <2>3
<1>3. ASSUME NEW p \in Names, NEW t \in Tables, at[p][t] = "joining" PROVE GoesOn
  <2>1. t = "channel"
    BY <1>3 DEF UsersInv, ReadsOK
  <2>2. \A l \in Lists : at[p][l] \in Over \cup {"waiting", "query"}
    BY <1>1, <1>3, <2>1 DEF UsersInv, ReadsOK, AtType, Reads, ReadStates, Lists
  <2>3. CASE \A l \in Lists : at[p][l] \in Over
    BY <1>3, <2>1, <2>3 DEF GoesOn
  <2> QED BY <1>2, <2>2, <2>3
<1>4. ASSUME NEW p \in Names \ sent PROVE GoesOn
  <2>1. CASE \A f \in Tables \cup Cooldowns : at[p][f] \in Over
    BY <1>4, <2>1 DEF GoesOn
  <2>2. ASSUME NEW k \in Cooldowns, at[p][k] \notin Over PROVE GoesOn
    BY <2>2 DEF UsersInv, ReadsOK, GoesOn
  <2>3. ASSUME NEW t \in Tables, at[p][t] \notin Over PROVE GoesOn
    <3>1. at[p][t] \in {"waiting", "query", "joining"}
      BY <1>1, <2>3 DEF UsersInv, ReadsOK, AtType, Reads, ReadStates
    <3> QED BY <1>2, <1>3, <3>1
  <2> QED BY <2>1, <2>2, <2>3
<1>5. CASE sent = Names
  BY <1>5 DEF GoesOn
<1> QED BY <1>1, <1>4, <1>5

\* A request that is not answered yet is never stuck: with no more than one
\* connection for everything it reads, none is held by a read that waits for others
\* (user.go:188-333).
THEOREM NoRequestIsStuck == UsersSpec => []GoesOn
BY UsersInvariant, SomeoneGoesOn, PTL
=============================================================================
