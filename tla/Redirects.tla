----------------------------- MODULE Redirects -----------------------------
(* Short links: redirects/redirects.go follows them, with the targets it    *)
(* has followed in Redis for an hour; api/routes/post/redirects.go makes    *)
(* them. Every request runs in a goroutine of its own, and each call to a   *)
(* database is a step.                                                      *)

CONSTANTS
  Keys,      \* the keys RandomString may draw
  Hosts,     \* what follows the scheme of a URL
  Posts,     \* POST requests, each one made at most once
  Gets,      \* GET requests in flight
  None

VARIABLES
  rows,      \* the url_redirects table; what it holds at first may be of any age
  cache,     \* Redis: the target of each key
  post,      \* each POST: where it is, the URL to be stored, its key
  get,       \* each GET: where it is, its key, the target to be cached
  served     \* history: where the clients of each key were sent

vars == <<rows, cache, post, get, served>>

\* A URL starts with a scheme or does not; what follows may start with "//".
Urls == [scheme : {"https", "http", "none"}, slashes : BOOLEAN, host : Hosts]

ASSUME NoneAssumption == None \notin Urls

Idle == [at |-> "idle", key |-> None, target |-> None]

Init ==
  /\ rows \in [Keys -> Urls \cup {None}]
  /\ cache = [k \in Keys |-> None]
  /\ post = [p \in Posts |-> [at |-> "new", url |-> None, key |-> None]]
  /\ get = [g \in Gets |-> Idle]
  /\ served = [k \in Keys |-> {}]
-----------------------------------------------------------------------------
(* createRedirect                                                           *)

\* The URL a POST looks for and stores.
Prefixed(url) == IF url.scheme = "none" THEN [url EXCEPT !.scheme = "https"] ELSE url

Receive(p) ==
  /\ post[p].at = "new"
  /\ \E url \in Urls :
       post' = [post EXCEPT ![p] = [at |-> "lookup", url |-> Prefixed(url), key |-> None]]
  /\ UNCHANGED <<rows, cache, get, served>>

\* GetKeyByRedirect: answer with the key of the URL. It has none when no row has
\* it or the database fails.
FindKey(p) ==
  /\ post[p].at = "lookup"
  /\ \/ \E k \in Keys :
          /\ rows[k] = post[p].url
          /\ post' = [post EXCEPT ![p] = [at |-> "answered", url |-> @.url, key |-> k]]
     \/ post' = [post EXCEPT ![p].at = "choosing"]
  /\ UNCHANGED <<rows, cache, get, served>>

\* generateUniqueKey: one turn of its loop returns a key that exists; one that does
\* not, or a database that fails, draws in vain.
ChooseKey(p, k) ==
  /\ post[p].at = "choosing"
  /\ rows[k] # None
  /\ post' = [post EXCEPT ![p] = [at |-> "inserting", url |-> @.url, key |-> k]]
  /\ UNCHANGED <<rows, cache, get, served>>

\* Mutant: the conflict of keys goes unnoticed.
InsertIgnoresConflict(p) ==
  /\ post[p].at = "inserting"
  /\ rows' = [rows EXCEPT ![post[p].key] = IF @ = None THEN post[p].url ELSE @]
  /\ post' = [post EXCEPT ![p].at = "answered"]
  /\ UNCHANGED <<cache, get, served>>

\* NewRedirect: the primary key refuses a key that exists, which is answered 500.
Insert(p) ==
  LET k == post[p].key IN
  /\ post[p].at = "inserting"
  /\ rows' = [rows EXCEPT ![k] = IF @ = None THEN post[p].url ELSE @]
  /\ post' = [post EXCEPT ![p].at = IF rows[k] = None THEN "answered" ELSE "failed"]
  /\ UNCHANGED <<cache, get, served>>
-----------------------------------------------------------------------------
(* getRedirect                                                              *)

\* Mutant: plain http is let through.
CleanKeepsHttp(url) ==
  IF url.scheme # "none" THEN url ELSE [url EXCEPT !.scheme = "https", !.slashes = FALSE]

\* cleanRedirectProtocolSoLinksActuallyWork: "https://" takes the place of
\* "http://" or "//", or comes before.
Clean(url) ==
  IF url.scheme # "none" THEN [url EXCEPT !.scheme = "https"]
  ELSE [url EXCEPT !.scheme = "https", !.slashes = FALSE]

Serve(k, target) == served' = [served EXCEPT ![k] = @ \cup {target}]

\* A hit is answered from Redis; Redis failing is a miss.
Lookup(g, k) ==
  /\ get[g].at = "idle"
  /\ \/ /\ cache[k] # None
        /\ Serve(k, cache[k])
        /\ UNCHANGED get
     \/ /\ get' = [get EXCEPT ![g] = [at |-> "database", key |-> k, target |-> None]]
        /\ UNCHANGED served
  /\ UNCHANGED <<rows, cache, post>>

\* Mutant: the URL is cached as it is in the table.
GetRowCachesRaw(g) ==
  LET k == get[g].key IN
  /\ get[g].at = "database"
  /\ \/ /\ rows[k] # None
        /\ Serve(k, Clean(rows[k]))
        /\ get' = [get EXCEPT ![g].at = "fill", ![g].target = rows[k]]
     \/ /\ get' = [get EXCEPT ![g] = Idle]
        /\ UNCHANGED served
  /\ UNCHANGED <<rows, cache, post>>

\* GetRedirectByKey: off to the cleaned URL, while its caching is started; no row is
\* 404, a failing database 500.
GetRow(g) ==
  LET k == get[g].key IN
  /\ get[g].at = "database"
  /\ \/ /\ rows[k] # None
        /\ Serve(k, Clean(rows[k]))
        /\ get' = [get EXCEPT ![g].at = "fill", ![g].target = Clean(rows[k])]
     \/ /\ get' = [get EXCEPT ![g] = Idle]
        /\ UNCHANGED served
  /\ UNCHANGED <<rows, cache, post>>

\* setRedis, in a goroutine of its own; Redis may fail it.
Fill(g) ==
  /\ get[g].at = "fill"
  /\ UNCHANGED cache \/ cache' = [cache EXCEPT ![get[g].key] = get[g].target]
  /\ get' = [get EXCEPT ![g] = Idle]
  /\ UNCHANGED <<rows, post, served>>

Expire(k) ==
  /\ cache[k] # None
  /\ cache' = [cache EXCEPT ![k] = None]
  /\ UNCHANGED <<rows, post, get, served>>
-----------------------------------------------------------------------------
Next ==
  \/ \E p \in Posts : Receive(p) \/ FindKey(p) \/ Insert(p) \/ \E k \in Keys : ChooseKey(p, k)
  \/ \E g \in Gets : GetRow(g) \/ Fill(g) \/ \E k \in Keys : Lookup(g, k)
  \/ \E k \in Keys : Expire(k)

Spec == Init /\ [][Next]_vars
-----------------------------------------------------------------------------
\* Where links may lead: always to https.
Targets == {url \in Urls : url.scheme = "https"}

\* Types, and nothing but https gets into Redis or to a client, whatever is in the
\* table (redirects.go:88-98, 133-136).
TypeOK ==
  /\ rows \in [Keys -> Urls \cup {None}]
  /\ cache \in [Keys -> Targets \cup {None}]
  /\ post \in [Posts -> [at : {"new"}, url : {None}, key : {None}]
                  \cup [at : {"lookup", "choosing"}, url : Urls, key : {None}]
                  \cup [at : {"inserting", "answered", "failed"}, url : Urls, key : Keys]]
  /\ get \in [Gets -> {Idle} \cup [at : {"database"}, key : Keys, target : {None}]
                        \cup [at : {"fill"}, key : Keys, target : Targets]]
  /\ served \in [Keys -> SUBSET Targets]

\* The key a POST is answered with leads to the URL that was posted, though
\* another POST may use the table between its three calls
\* (post/redirects.go:48, 59, 67).
KeyLeadsToUrl ==
  \A p \in Posts : post[p].at = "answered" => rows[post[p].key] = post[p].url

\* A link leads to the same target for good, whether the hit or the miss of Redis
\* answers, and however late a fill arrives.
Links == INSTANCE WriteOnce WITH
  Values <- Targets,
  stored <- [k \in Keys |-> IF rows[k] = None THEN None ELSE Clean(rows[k])],
  read <- served

CacheInvisible == Links!Spec
=============================================================================
