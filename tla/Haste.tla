------------------------------- MODULE Haste -------------------------------
(* haste/haste.go: documents under random keys, in Postgres, with the ones  *)
(* that were read in Redis for an hour. Every request runs in a goroutine   *)
(* of its own, and each of its calls to a database is a step.               *)

CONSTANTS
  Keys,      \* the keys RandomString may draw
  Bodies,    \* request bodies, none of them empty
  Binary,    \* the bodies that are not UTF-8 text
  Posts,     \* POST requests, each one made at most once
  Gets,      \* GET requests in flight, raw or not
  None

ASSUME BinaryAssumption == Binary \subseteq Bodies
ASSUME NoneAssumption == None \notin Bodies /\ None \notin Keys

VARIABLES
  rows,      \* the haste table: the document of each key
  cache,     \* Redis
  post,      \* each POST: where it is, its body, the key chosen for it
  get,       \* each GET: where it is, its key, the document to be cached
  served     \* history: the documents clients got for each key

vars == <<rows, cache, post, get, served>>

Text == Bodies \ Binary

PostStates == {"new", "choosing", "inserting", "answered", "failed"}

Idle == [at |-> "idle", key |-> None, data |-> None]

Init ==
  /\ rows = [k \in Keys |-> None]
  /\ cache = [k \in Keys |-> None]
  /\ post = [p \in Posts |-> [at |-> "new", body |-> None, key |-> None]]
  /\ get = [g \in Gets |-> Idle]
  /\ served = [k \in Keys |-> {}]
-----------------------------------------------------------------------------
(* handlePost                                                               *)

\* A body that passes the checks of type and length.
Receive(p) ==
  /\ post[p].at = "new"
  /\ \E b \in Bodies : post' = [post EXCEPT ![p] = [at |-> "choosing", body |-> b, key |-> None]]
  /\ UNCHANGED <<rows, cache, get, served>>

\* Mutant: chooseKey waits for a key that is taken.
ChooseKeyTaken(p, k) ==
  /\ post[p].at = "choosing"
  /\ rows[k] # None
  /\ post' = [post EXCEPT ![p] = [at |-> "inserting", body |-> @.body, key |-> k]]
  /\ UNCHANGED <<rows, cache, get, served>>

\* chooseKey: one turn of its loop; a key that holds a text is drawn in vain.
ChooseKey(p, k) ==
  /\ post[p].at = "choosing"
  /\ rows[k] = None
  /\ post' = [post EXCEPT ![p] = [at |-> "inserting", body |-> @.body, key |-> k]]
  /\ UNCHANGED <<rows, cache, get, served>>

\* Mutant: the document there already is replaced.
StoreOver(k, b) == rows' = [rows EXCEPT ![k] = b]

\* NewHaste: ON CONFLICT DO NOTHING
Store(k, b) == rows' = [rows EXCEPT ![k] = IF @ = None THEN b ELSE @]

Insert(p) ==
  /\ post[p].at = "inserting"
  /\ Store(post[p].key, post[p].body)
  /\ post' = [post EXCEPT ![p].at = "answered"]
  /\ UNCHANGED <<cache, get, served>>

\* Mutant: an error of the database goes unnoticed.
FailPostIgnored(p) ==
  /\ post[p].at = "inserting"
  /\ post' = [post EXCEPT ![p].at = "answered"]
  /\ UNCHANGED <<rows, cache, get, served>>

\* The database fails the request or the client gives up. GetHaste also fails on
\* a key that holds binary data, which it cannot convert. An insert that fails
\* may have been made.
FailPost(p) ==
  /\ \/ post[p].at = "choosing" /\ UNCHANGED rows
     \/ post[p].at = "inserting" /\ (UNCHANGED rows \/ Store(post[p].key, post[p].body))
  /\ post' = [post EXCEPT ![p].at = "failed"]
  /\ UNCHANGED <<cache, get, served>>
-----------------------------------------------------------------------------
(* handleGet and handleGetRaw                                               *)

Serve(k, data) == served' = [served EXCEPT ![k] = @ \cup {data}]

\* A hit is answered from Redis; Redis failing is a miss.
Lookup(g, k) ==
  /\ get[g].at = "idle"
  /\ \/ /\ cache[k] # None
        /\ Serve(k, cache[k])
        /\ UNCHANGED get
     \/ /\ get' = [get EXCEPT ![g] = [at |-> "database", key |-> k, data |-> None]]
        /\ UNCHANGED served
  /\ UNCHANGED <<rows, cache, post>>

\* Mutant: a document that is not found is cached like any other.
GetHasteAlwaysFills(g) ==
  /\ get[g].at = "database"
  /\ get' = [get EXCEPT ![g].at = "fill", ![g].data = rows[get[g].key]]
  /\ UNCHANGED <<rows, cache, post, served>>

\* The row is served and its caching started; no row, binary data and a failing
\* database are all 404.
GetHaste(g) ==
  LET data == rows[get[g].key] IN
  /\ get[g].at = "database"
  /\ \/ /\ data \in Text
        /\ Serve(get[g].key, data)
        /\ get' = [get EXCEPT ![g].at = "fill", ![g].data = data]
     \/ /\ get' = [get EXCEPT ![g] = Idle]
        /\ UNCHANGED served
  /\ UNCHANGED <<rows, cache, post>>

\* setRedis runs in its own goroutine. Redis may fail it, and that of handleGet is
\* cancelled when the response has been written first.
Fill(g) ==
  /\ get[g].at = "fill"
  /\ UNCHANGED cache \/ cache' = [cache EXCEPT ![get[g].key] = get[g].data]
  /\ get' = [get EXCEPT ![g] = Idle]
  /\ UNCHANGED <<rows, post, served>>

\* Redis drops an entry when its hour is over, or earlier.
Expire(k) ==
  /\ cache[k] # None
  /\ cache' = [cache EXCEPT ![k] = None]
  /\ UNCHANGED <<rows, post, get, served>>
-----------------------------------------------------------------------------
Next ==
  \/ \E p \in Posts :
       Receive(p) \/ Insert(p) \/ FailPost(p) \/ \E k \in Keys : ChooseKey(p, k)
  \/ \E g \in Gets : GetHaste(g) \/ Fill(g) \/ \E k \in Keys : Lookup(g, k)
  \/ \E k \in Keys : Expire(k)

Spec == Init /\ [][Next]_vars

\* The server keeps running its goroutines, and RandomString draws every key
\* again and again.
FairSpec ==
  /\ Spec
  /\ \A p \in Posts : WF_vars(Insert(p)) /\ \A k \in Keys : SF_vars(ChooseKey(p, k))
-----------------------------------------------------------------------------
\* Types, and what a GET is about to cache is a text (haste.go:169-177).
TypeOK ==
  /\ rows \in [Keys -> Bodies \cup {None}]
  /\ cache \in [Keys -> Text \cup {None}]
  /\ post \in [Posts -> [at : PostStates, body : Bodies \cup {None}, key : Keys \cup {None}]]
  /\ \A p \in Posts :
       /\ post[p].at \in {"choosing", "inserting", "answered"} => post[p].body \in Bodies
       /\ post[p].at \in {"inserting", "answered"} => post[p].key \in Keys
  /\ get \in [Gets -> [at : {"idle", "database", "fill"}, key : Keys \cup {None},
                       data : Text \cup {None}]]
  /\ \A g \in Gets :
       /\ get[g].at # "idle" => get[g].key \in Keys
       /\ get[g].at = "fill" => get[g].data \in Text
  /\ served \in [Keys -> SUBSET Text]

\* A key a POST was answered with has a document, whatever failed in between
\* (haste.go:297-305).
AnsweredIsStored ==
  \A p \in Posts : post[p].at = "answered" => rows[post[p].key] # None

\* However late a fill arrives in Redis, however often requests race: a client
\* that reads a key gets the one document the key has ever had. The cache is
\* invisible (haste.go:156-177, postgres.go:624).
Documents == INSTANCE WriteOnce WITH Values <- Bodies, stored <- rows, read <- served

CacheInvisible == Documents!Spec

\* While there are free keys chooseKey ends, and so does the POST
\* (haste.go:313-329).
PostEnds ==
  \A p \in Posts : post[p].at = "choosing" ~> post[p].at \in {"answered", "failed"}
=============================================================================
