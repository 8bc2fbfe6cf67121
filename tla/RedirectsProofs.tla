-------------------------- MODULE RedirectsProofs --------------------------
(* Proofs about Redirects, for any sets of keys, hosts and requests: types, *)
(* with nothing but https in Redis and at the clients; that an answered key *)
(* leads to its URL; that readers see a table in which nothing ever changes.*)
EXTENDS Redirects, TLAPS

\* The variables of TypeOK one by one.
PostType ==
  [at : {"new"}, url : {None}, key : {None}]
    \cup [at : {"lookup", "choosing"}, url : Urls, key : {None}]
    \cup [at : {"inserting", "answered", "failed"}, url : Urls, key : Keys]

GetType ==
  {Idle} \cup [at : {"database"}, key : Keys, target : {None}]
         \cup [at : {"fill"}, key : Keys, target : Targets]

\* A cleaned URL is an https one, and a URL with its prefix is a URL.
LEMMA Cleaned ==
  ASSUME NEW url \in Urls
  PROVE  Clean(url) \in Targets /\ Prefixed(url) \in Urls /\ Clean(url) # None /\ url # None
<1>1. Prefixed(url) \in Urls
  BY DEF Prefixed, Urls
<1>2. Clean(url) \in Urls /\ Clean(url).scheme = "https"
  BY DEF Clean, Urls
<1> QED BY <1>1, <1>2, NoneAssumption DEF Targets

\* What a POST under way holds.
LEMMA PostHolds ==
  ASSUME TypeOK, NEW p \in Posts
  PROVE  /\ post[p].at # "new" => post[p].url \in Urls
         /\ post[p].at \in {"inserting", "answered", "failed"} => post[p].key \in Keys
BY DEF TypeOK

\* What a GET under way holds.
LEMMA GetHolds ==
  ASSUME TypeOK, NEW g \in Gets
  PROVE  /\ get[g].at # "idle" => get[g].key \in Keys
         /\ get[g].at = "fill" => get[g].target \in Targets
BY DEF TypeOK, Idle

LEMMA TypeStep == TypeOK /\ [Next]_vars => TypeOK'
<1> SUFFICES ASSUME TypeOK, [Next]_vars PROVE TypeOK'
  OBVIOUS
<1>p. ASSUME NEW p \in Posts, NEW r \in PostType, post' = [post EXCEPT ![p] = r],
             UNCHANGED <<cache, get, served>>, rows' \in [Keys -> Urls \cup {None}]
      PROVE  TypeOK'
  <2>1. post' \in [Posts -> PostType]
    BY <1>p DEF TypeOK, PostType
  <2> QED BY <1>p, <2>1 DEF TypeOK, PostType
<1>g. ASSUME NEW g \in Gets, NEW r \in GetType, get' = [get EXCEPT ![g] = r],
             UNCHANGED <<rows, post>>, served' \in [Keys -> SUBSET Targets],
             cache' \in [Keys -> Targets \cup {None}]
      PROVE  TypeOK'
  <2>1. get' \in [Gets -> GetType]
    BY <1>g DEF TypeOK, GetType
  <2> QED BY <1>g, <2>1 DEF TypeOK, GetType
<1>s. ASSUME NEW k \in Keys, NEW target \in Targets, Serve(k, target)
      PROVE  served' \in [Keys -> SUBSET Targets]
  BY <1>s DEF Serve, TypeOK
<1>1. ASSUME NEW p \in Posts, Receive(p) PROVE TypeOK'
  <2>1. PICK url \in Urls :
          post' = [post EXCEPT ![p] = [at |-> "lookup", url |-> Prefixed(url), key |-> None]]
    BY <1>1 DEF Receive
  <2>2. [at |-> "lookup", url |-> Prefixed(url), key |-> None] \in PostType
    BY Cleaned DEF PostType
  <2>3. rows' \in [Keys -> Urls \cup {None}] /\ UNCHANGED <<cache, get, served>>
    BY <1>1 DEF Receive, TypeOK
  <2> QED BY <1>p, <2>1, <2>2, <2>3
<1>2. ASSUME NEW p \in Posts, FindKey(p) PROVE TypeOK'
  <2>1. rows' \in [Keys -> Urls \cup {None}] /\ UNCHANGED <<cache, get, served>>
    BY <1>2 DEF FindKey, TypeOK
  <2>2. post[p].url \in Urls /\ post[p] \in [at : {"lookup", "choosing"}, url : Urls, key : {None}]
    BY <1>2 DEF FindKey, TypeOK
  <2>3. ASSUME NEW k \in Keys,
               post' = [post EXCEPT ![p] = [at |-> "answered", url |-> @.url, key |-> k]]
        PROVE  TypeOK'
    <3>1. [at |-> "answered", url |-> post[p].url, key |-> k] \in PostType
      BY <2>2 DEF PostType
    <3>2. post' = [post EXCEPT ![p] = [at |-> "answered", url |-> post[p].url, key |-> k]]
      BY <2>3 DEF TypeOK
    <3> QED BY <1>p, <2>1, <3>1, <3>2
  <2>4. ASSUME post' = [post EXCEPT ![p].at = "choosing"] PROVE TypeOK'
    <3>1. [post[p] EXCEPT !.at = "choosing"] \in PostType
      BY <2>2 DEF PostType
    <3>2. post' = [post EXCEPT ![p] = [post[p] EXCEPT !.at = "choosing"]]
      BY <2>4 DEF TypeOK
    <3> QED BY <1>p, <2>1, <3>1, <3>2
  <2> QED BY <1>2, <2>3, <2>4 DEF FindKey
<1>3. ASSUME NEW p \in Posts, NEW k \in Keys, ChooseKey(p, k) PROVE TypeOK'
  <2>1. rows' \in [Keys -> Urls \cup {None}] /\ UNCHANGED <<cache, get, served>>
    BY <1>3 DEF ChooseKey, TypeOK
  <2>2. post[p].url \in Urls
    BY <1>3, PostHolds DEF ChooseKey
  <2>3. [at |-> "inserting", url |-> post[p].url, key |-> k] \in PostType
    BY <2>2 DEF PostType
  <2>4. post' = [post EXCEPT ![p] = [at |-> "inserting", url |-> post[p].url, key |-> k]]
    BY <1>3 DEF ChooseKey, TypeOK
  <2> QED BY <1>p, <2>1, <2>3, <2>4
<1>4. ASSUME NEW p \in Posts, Insert(p) PROVE TypeOK'
  <2>1. post[p].key \in Keys /\ post[p].url \in Urls
    BY <1>4, PostHolds DEF Insert
  <2>2. rows' \in [Keys -> Urls \cup {None}] /\ UNCHANGED <<cache, get, served>>
    BY <1>4, <2>1 DEF Insert, TypeOK
  <2>3. PICK w \in {"answered", "failed"} : post' = [post EXCEPT ![p].at = w]
    BY <1>4 DEF Insert
  <2>4. [post[p] EXCEPT !.at = w] \in PostType
    BY <1>4 DEF Insert, TypeOK, PostType
  <2>5. post' = [post EXCEPT ![p] = [post[p] EXCEPT !.at = w]]
    BY <2>3 DEF TypeOK
  <2> QED BY <1>p, <2>2, <2>4, <2>5
<1>5. ASSUME NEW g \in Gets, NEW k \in Keys, Lookup(g, k) PROVE TypeOK'
  <2>1. UNCHANGED <<rows, cache, post>>
    BY <1>5 DEF Lookup
  <2>2. ASSUME cache[k] # None, Serve(k, cache[k]), UNCHANGED get PROVE TypeOK'
    <3>1. cache[k] \in Targets
      BY <2>2 DEF TypeOK
    <3>2. served' \in [Keys -> SUBSET Targets]
      BY <1>s, <2>2, <3>1
    <3> QED BY <2>1, <2>2, <3>2 DEF TypeOK
  <2>3. ASSUME get' = [get EXCEPT ![g] = [at |-> "database", key |-> k, target |-> None]],
               UNCHANGED served
        PROVE  TypeOK'
    <3>1. [at |-> "database", key |-> k, target |-> None] \in GetType
      BY DEF GetType
    <3>2. served' \in [Keys -> SUBSET Targets] /\ cache' \in [Keys -> Targets \cup {None}]
      BY <2>1, <2>3 DEF TypeOK
    <3> QED BY <1>g, <2>1, <2>3, <3>1, <3>2
  <2> QED BY <1>5, <2>2, <2>3 DEF Lookup
<1>6. ASSUME NEW g \in Gets, GetRow(g) PROVE TypeOK'
  <2>1. /\ get[g].key \in Keys /\ UNCHANGED <<rows, post>>
        /\ cache' \in [Keys -> Targets \cup {None}]
    BY <1>6, GetHolds DEF GetRow, TypeOK
  <2>2. ASSUME rows[get[g].key] # None, Serve(get[g].key, Clean(rows[get[g].key])),
               get' = [get EXCEPT ![g].at = "fill", ![g].target = Clean(rows[get[g].key])]
        PROVE  TypeOK'
    <3>1. Clean(rows[get[g].key]) \in Targets
      BY <2>1, <2>2, Cleaned DEF TypeOK
    <3>2. served' \in [Keys -> SUBSET Targets]
      BY <1>s, <2>1, <2>2, <3>1
    <3>3. get[g] \in [at : {"database"}, key : Keys, target : {None}]
      BY <1>6 DEF GetRow, TypeOK, Idle
    <3>4. [[get[g] EXCEPT !.at = "fill"] EXCEPT !.target = Clean(rows[get[g].key])] \in GetType
      <4>1. [get[g] EXCEPT !.at = "fill"] \in [at : {"fill"}, key : Keys, target : {None}]
        BY <3>3
      <4>2. [[get[g] EXCEPT !.at = "fill"] EXCEPT !.target = Clean(rows[get[g].key])]
              \in [at : {"fill"}, key : Keys, target : Targets]
        BY <3>1, <4>1
      <4> QED BY <4>2 DEF GetType
    <3>5. get' = [get EXCEPT ![g] = [[get[g] EXCEPT !.at = "fill"]
                                       EXCEPT !.target = Clean(rows[get[g].key])]]
      BY <2>2 DEF TypeOK
    <3> QED BY <1>g, <2>1, <3>2, <3>4, <3>5
  <2>3. ASSUME get' = [get EXCEPT ![g] = Idle], UNCHANGED served PROVE TypeOK'
    <3>1. Idle \in GetType /\ served' \in [Keys -> SUBSET Targets]
      BY <2>3 DEF GetType, TypeOK
    <3> QED BY <1>g, <2>1, <2>3, <3>1
  <2> QED BY <1>6, <2>2, <2>3 DEF GetRow
<1>7. ASSUME NEW g \in Gets, Fill(g) PROVE TypeOK'
  <2>1. get[g].key \in Keys /\ get[g].target \in Targets
    BY <1>7, GetHolds DEF Fill
  <2>2. cache' \in [Keys -> Targets \cup {None}]
    BY <1>7, <2>1 DEF Fill, TypeOK
  <2>3. /\ Idle \in GetType /\ served' \in [Keys -> SUBSET Targets]
        /\ UNCHANGED <<rows, post>> /\ get' = [get EXCEPT ![g] = Idle]
    BY <1>7 DEF Fill, GetType, TypeOK
  <2> QED BY <1>g, <2>2, <2>3
<1>8. ASSUME NEW k \in Keys, Expire(k) PROVE TypeOK'
  BY <1>8 DEF Expire, TypeOK
<1>9. CASE UNCHANGED vars
  BY <1>9 DEF vars, TypeOK
<1> QED BY <1>1, <1>2, <1>3, <1>4, <1>5, <1>6, <1>7, <1>8, <1>9 DEF Next

\* Types; every target in Redis, and every one a client was sent to, is https.
THEOREM TypeCorrect == Spec => []TypeOK
<1>1. Init => TypeOK
  BY DEF Init, TypeOK, Idle
<1> QED BY <1>1, TypeStep, PTL DEF Spec
-----------------------------------------------------------------------------
(* The table                                                                *)

\* A row stays as it is, and a new one has the URL of the POST that inserts it.
RowsStay == \A k \in Keys : rows[k] # None => rows'[k] = rows[k]

LEMMA RowsStayStep == TypeOK /\ [Next]_vars => RowsStay
<1> SUFFICES ASSUME TypeOK, [Next]_vars PROVE RowsStay
  OBVIOUS
<1>1. ASSUME NEW p \in Posts, Insert(p) PROVE RowsStay
  BY <1>1 DEF Insert, RowsStay, TypeOK
<1>2. CASE UNCHANGED rows
  BY <1>2 DEF RowsStay
<1>3. ASSUME ~UNCHANGED rows PROVE \E p \in Posts : Insert(p)
  BY <1>3 DEF Next, Receive, FindKey, ChooseKey, Lookup, GetRow, Fill, Expire, vars
<1> QED BY <1>1, <1>2, <1>3

LEMMA KeyStep == TypeOK /\ KeyLeadsToUrl /\ [Next]_vars => KeyLeadsToUrl'
<1> SUFFICES ASSUME TypeOK, KeyLeadsToUrl, [Next]_vars,
                    NEW p \in Posts, post'[p].at = "answered"
             PROVE  rows'[post'[p].key] = post'[p].url
  BY DEF KeyLeadsToUrl
<1>1. RowsStay
  BY RowsStayStep
<1>2. CASE post'[p] = post[p]
  <2>1. post[p].key \in Keys /\ post[p].url \in Urls /\ rows[post[p].key] = post[p].url
    BY <1>2, PostHolds DEF KeyLeadsToUrl
  <2>2. rows[post[p].key] # None
    BY <2>1, Cleaned
  <2> QED BY <1>1, <1>2, <2>1, <2>2 DEF RowsStay
<1>3. ASSUME NEW q \in Posts, FindKey(q), post'[p] # post[p] PROVE rows'[post'[p].key] = post'[p].url
  <2>1. post[q].at = "lookup" /\ post[q].url \in Urls /\ UNCHANGED rows
    BY <1>3, PostHolds DEF FindKey
  <2>2. PICK k \in Keys :
          /\ rows[k] = post[q].url
          /\ post' = [post EXCEPT ![q] = [at |-> "answered", url |-> @.url, key |-> k]]
    <3>1. ASSUME post' = [post EXCEPT ![q].at = "choosing"] PROVE FALSE
      <4>1. p = q
        BY <1>3, <3>1 DEF TypeOK
      <4>2. post[q] \in [at : {"lookup", "choosing"}, url : Urls, key : {None}]
        BY <2>1 DEF TypeOK
      <4>3. post'[p] = [post[p] EXCEPT !.at = "choosing"]
        BY <3>1, <4>1 DEF TypeOK
      <4> QED BY <4>1, <4>2, <4>3
    <3> QED BY <1>3, <3>1 DEF FindKey
  <2>3. p = q /\ post'[p].key = k /\ post'[p].url = post[q].url
    BY <1>3, <2>2 DEF TypeOK
  <2> QED BY <2>1, <2>2, <2>3
<1>4. ASSUME NEW q \in Posts, Insert(q), post'[p] # post[p] PROVE rows'[post'[p].key] = post'[p].url
  <2>1. post[q].key \in Keys /\ post[q].url \in Urls
    BY <1>4, PostHolds DEF Insert
  <2>2. PICK w \in {"answered", "failed"} :
          post' = [post EXCEPT ![q].at = w] /\ (w = "answered" => rows[post[q].key] = None)
    BY <1>4 DEF Insert
  <2>3. p = q
    BY <1>4, <2>2 DEF TypeOK
  <2>4. post'[p].at = w /\ post'[p].key = post[q].key /\ post'[p].url = post[q].url
    <3>1. post[q] \in [at : {"inserting", "answered", "failed"}, url : Urls, key : Keys]
      BY <1>4 DEF Insert, TypeOK
    <3>2. post'[p] = [post[q] EXCEPT !.at = w]
      BY <2>2, <2>3 DEF TypeOK
    <3> QED BY <3>1, <3>2
  <2>5. rows'[post[q].key] = post[q].url
    BY <1>4, <2>1, <2>2, <2>4 DEF Insert, TypeOK
  <2> QED BY <2>4, <2>5
<1>5. ASSUME NEW q \in Posts, Receive(q) \/ \E k \in Keys : ChooseKey(q, k) PROVE post'[p] = post[p]
  BY <1>5 DEF Receive, ChooseKey, TypeOK
<1>6. ASSUME post'[p] # post[p]
      PROVE  \E q \in Posts : \/ FindKey(q) \/ Insert(q) \/ Receive(q)
                              \/ \E k \in Keys : ChooseKey(q, k)
  BY <1>6 DEF Next, Lookup, GetRow, Fill, Expire, vars
<1> QED BY <1>2, <1>3, <1>4, <1>5, <1>6

\* The key a POST is answered with leads to its URL, whatever other POSTs insert
\* between its three calls (post/redirects.go:48-78).
THEOREM AnsweredKeyLeads == Spec => []KeyLeadsToUrl
<1>1. Init => KeyLeadsToUrl
  BY DEF Init, KeyLeadsToUrl
<1> QED BY <1>1, KeyStep, TypeCorrect, PTL DEF Spec
-----------------------------------------------------------------------------
(* Redirects implements WriteOnce.                                          *)

\* What is in Redis, and what is on its way there, is the target of the row.
CacheTruthful ==
  /\ \A k \in Keys : cache[k] # None => rows[k] # None /\ cache[k] = Clean(rows[k])
  /\ \A g \in Gets : get[g].at = "fill" =>
       rows[get[g].key] # None /\ get[g].target = Clean(rows[get[g].key])

LEMMA CacheStep == TypeOK /\ CacheTruthful /\ [Next]_vars => CacheTruthful'
<1> SUFFICES ASSUME TypeOK, CacheTruthful, [Next]_vars PROVE CacheTruthful'
  OBVIOUS
<1>1. \A k \in Keys : rows[k] # None => rows'[k] = rows[k]
  BY RowsStayStep DEF RowsStay
<1>2. ASSUME NEW k \in Keys, cache'[k] # None PROVE rows'[k] # None /\ cache'[k] = Clean(rows'[k])
  <2>1. CASE cache'[k] = cache[k]
    BY <1>1, <1>2, <2>1 DEF CacheTruthful
  <2>2. ASSUME NEW g \in Gets, Fill(g), cache'[k] # cache[k]
        PROVE  rows'[k] # None /\ cache'[k] = Clean(rows'[k])
    <3>1. get[g].at = "fill" /\ k = get[g].key /\ cache'[k] = get[g].target
      BY <2>2 DEF Fill, TypeOK
    <3> QED BY <1>1, <3>1 DEF CacheTruthful
  <2>3. ASSUME NEW j \in Keys, Expire(j) PROVE cache'[k] = None \/ cache'[k] = cache[k]
    BY <2>3 DEF Expire, TypeOK
  <2>4. ASSUME cache'[k] # cache[k] PROVE (\E g \in Gets : Fill(g)) \/ \E j \in Keys : Expire(j)
    BY <2>4 DEF Next, Receive, FindKey, ChooseKey, Insert, Lookup, GetRow, vars
  <2> QED BY <1>2, <2>1, <2>2, <2>3, <2>4
<1>3. ASSUME NEW g \in Gets, get'[g].at = "fill"
      PROVE  rows'[get'[g].key] # None /\ get'[g].target = Clean(rows'[get'[g].key])
  <2>1. CASE get'[g] = get[g]
    BY <1>1, <1>3, <2>1, GetHolds DEF CacheTruthful
  <2>2. ASSUME NEW h \in Gets, GetRow(h), get'[g] # get[g]
        PROVE  rows'[get'[g].key] # None /\ get'[g].target = Clean(rows'[get'[g].key])
    <3>1. get[h].key \in Keys /\ UNCHANGED rows
      BY <2>2, GetHolds DEF GetRow
    <3>2. ASSUME get' = [get EXCEPT ![h] = Idle] PROVE FALSE
      BY <1>3, <2>2, <3>2 DEF TypeOK, Idle
    <3>3. /\ rows[get[h].key] # None
          /\ get' = [get EXCEPT ![h].at = "fill", ![h].target = Clean(rows[get[h].key])]
      BY <2>2, <3>2 DEF GetRow
    <3>4. g = h
      BY <2>2, <3>3 DEF TypeOK
    <3>5. get[h] \in [at : {"database"}, key : Keys, target : {None}]
      BY <2>2 DEF GetRow, TypeOK, Idle
    <3>6. get'[g] = [[get[h] EXCEPT !.at = "fill"] EXCEPT !.target = Clean(rows[get[h].key])]
      BY <3>3, <3>4 DEF TypeOK
    <3>7. get'[g].key = get[h].key /\ get'[g].target = Clean(rows[get[h].key])
      BY <3>5, <3>6
    <3> QED BY <3>1, <3>3, <3>7
  <2>3. ASSUME NEW h \in Gets, Fill(h) \/ \E k \in Keys : Lookup(h, k) PROVE get'[g] = get[g]
    BY <1>3, <2>3 DEF Fill, Lookup, TypeOK, Idle
  <2>4. ASSUME get'[g] # get[g]
        PROVE  \E h \in Gets : GetRow(h) \/ Fill(h) \/ \E k \in Keys : Lookup(h, k)
    BY <2>4 DEF Next, Receive, FindKey, ChooseKey, Insert, Expire, vars
  <2> QED BY <2>1, <2>2, <2>3, <2>4
<1> QED BY <1>2, <1>3 DEF CacheTruthful

\* The links of the table, as WriteOnce sees them.
Led == [k \in Keys |-> IF rows[k] = None THEN None ELSE Clean(rows[k])]

LEMMA LedIs ==
  ASSUME TypeOK, NEW k \in Keys
  PROVE  Led[k] = (IF rows[k] = None THEN None ELSE Clean(rows[k])) /\ (Led[k] = None <=> rows[k] = None)
BY Cleaned DEF Led, TypeOK

\* Every step is a step of WriteOnce, or changes neither the links nor what was read.
LEMMA WriteOnceStep == TypeOK /\ CacheTruthful /\ [Next]_vars => [Links!Next]_(Links!vars)
<1> SUFFICES ASSUME TypeOK, CacheTruthful, [Next]_vars PROVE [Links!Next]_(Links!vars)
  OBVIOUS
<1>u. ASSUME UNCHANGED <<rows, served>> PROVE [Links!Next]_(Links!vars)
  BY <1>u DEF Links!vars
<1>r. ASSUME NEW k \in Keys, rows[k] # None, Serve(k, Clean(rows[k])), UNCHANGED rows
      PROVE  [Links!Next]_(Links!vars)
  <2>1. Links!Read(k)
    BY <1>r, LedIs DEF Serve, Led, Links!Read
  <2> QED BY <2>1 DEF Links!Next
<1>1. ASSUME NEW p \in Posts, Insert(p) PROVE [Links!Next]_(Links!vars)
  <2>1. post[p].key \in Keys /\ post[p].url \in Urls
    BY <1>1, PostHolds DEF Insert
  <2>2. CASE rows[post[p].key] # None
    <3>1. UNCHANGED <<rows, served>>
      BY <1>1, <2>1, <2>2 DEF Insert, TypeOK
    <3> QED BY <1>u, <3>1
  <2>3. CASE rows[post[p].key] = None
    <3>1. Clean(post[p].url) \in Targets /\ post[p].url # None
      BY <2>1, Cleaned
    <3>2. rows' = [rows EXCEPT ![post[p].key] = post[p].url] /\ UNCHANGED served
      BY <1>1, <2>1, <2>3 DEF Insert, TypeOK
    <3>3. Led' = [Led EXCEPT ![post[p].key] = Clean(post[p].url)]
      <4>1. \A k \in Keys : Led'[k] = IF k = post[p].key THEN Clean(post[p].url) ELSE Led[k]
        BY <2>1, <3>1, <3>2 DEF Led, TypeOK
      <4> QED BY <4>1, <2>1 DEF Led
    <3>4. Led[post[p].key] = None
      BY <2>1, <2>3, LedIs
    <3> QED BY <2>1, <3>1, <3>2, <3>3, <3>4 DEF Links!Next, Links!Put, Led
  <2> QED BY <2>2, <2>3
<1>2. ASSUME NEW g \in Gets, NEW k \in Keys, Lookup(g, k) PROVE [Links!Next]_(Links!vars)
  <2>1. CASE UNCHANGED served
    BY <1>2, <1>u, <2>1 DEF Lookup
  <2>2. CASE cache[k] # None /\ Serve(k, cache[k])
    BY <1>2, <1>r, <2>2 DEF Lookup, CacheTruthful
  <2> QED BY <1>2, <2>1, <2>2 DEF Lookup
<1>3. ASSUME NEW g \in Gets, GetRow(g) PROVE [Links!Next]_(Links!vars)
  <2>1. CASE UNCHANGED served
    BY <1>3, <1>u, <2>1 DEF GetRow
  <2>2. CASE rows[get[g].key] # None /\ Serve(get[g].key, Clean(rows[get[g].key]))
    BY <1>3, <1>r, <2>2, GetHolds DEF GetRow
  <2> QED BY <1>3, <2>1, <2>2 DEF GetRow
<1>4. CASE \/ \E p \in Posts : Receive(p) \/ FindKey(p) \/ \E k \in Keys : ChooseKey(p, k)
           \/ \E g \in Gets : Fill(g)
           \/ \E k \in Keys : Expire(k)
           \/ UNCHANGED vars
  BY <1>u, <1>4 DEF Receive, FindKey, ChooseKey, Fill, Expire, vars
<1> QED BY <1>1, <1>2, <1>3, <1>4 DEF Next

\* A link leads to the one target it has ever had, whatever is cached, and however
\* late (redirects.go:101-140).
THEOREM CacheIsInvisible == Spec => CacheInvisible
<1>1. Init => TypeOK /\ CacheTruthful
  BY DEF Init, TypeOK, CacheTruthful, Idle
<1>2. Init => Links!Init
  BY Cleaned DEF Init, Links!Init
<1> QED BY <1>1, <1>2, TypeStep, CacheStep, WriteOnceStep, PTL
        DEF Spec, CacheInvisible, Links!Spec
=============================================================================
