------------------------------ MODULE Uploader ------------------------------
(* uploader/uploader.go: files under random keys, in Postgres, cached in    *)
(* Redis for 30 minutes from their upload and from each reading of the row; *)
(* with the daily sweep of common/db/loops.go, which knows no cache. Every  *)
(* request runs in a goroutine of its own, and each call to a database is a *)
(* step. An upload stands for its file and for the hash that deletes it,    *)
(* which is made of the key and the time the row was created.               *)

CONSTANTS
  Keys,      \* the keys RandomString may draw: it may draw one again
  Uploads,   \* POST requests, each one made at most once
  Gets,      \* GET requests in flight
  Deletes,   \* deletions in flight
  None

ASSUME NoneAssumption == None \notin Uploads /\ None \notin Keys

VARIABLES
  rows,      \* the file_store table
  cache,     \* Redis: the file of each key
  up,        \* each upload: where it is and its key
  get,       \* each GET: where it is, its key, the file to be cached
  del,       \* each deletion: where it is, its key and hash
  served,    \* history: the files clients got for each key, with the Content-Type
  held,      \* history: the uploads each key has had in the table
  gone       \* history: the hashes of deletions that were answered 204

histories == <<served, held, gone>>
vars == <<rows, cache, up, get, del, histories>>

\* What a text column, or a Content-Type header, can hold of a file.
Texts == {"detected type", "file name"}

Row == [file : Uploads, file_name : Texts, mime_type : Texts]

IdleGet == [at |-> "idle", key |-> None, file |-> None]
IdleDel == [at |-> "idle", key |-> None, hash |-> None]

Init ==
  /\ rows = [k \in Keys |-> None]
  /\ cache = [k \in Keys |-> None]
  /\ up = [u \in Uploads |-> [at |-> "new", key |-> None]]
  /\ get = [g \in Gets |-> IdleGet]
  /\ del = [d \in Deletes |-> IdleDel]
  /\ served = [k \in Keys |-> {}]
  /\ held = [k \in Keys |-> {}]
  /\ gone = {}
-----------------------------------------------------------------------------
(* handleUpload                                                             *)

ChooseKey(u, k) ==
  /\ up[u].at = "new"
  /\ up' = [up EXCEPT ![u] = [at |-> "inserting", key |-> k]]
  /\ UNCHANGED <<rows, cache, get, del, histories>>

\* Mutant: the row that has the key is replaced.
IsFreeAlways(k) == TRUE

\* The primary key
IsFree(k) == rows[k] = None

NewUpload(k, file, name, mimeType) ==
  /\ IsFree(k)
  /\ rows' = [rows EXCEPT ![k] = [file |-> file, file_name |-> name, mime_type |-> mimeType]]
  /\ held' = [held EXCEPT ![k] = @ \cup {file}]

\* The detected type and the file name are passed in this order.
Insert(u) ==
  /\ up[u].at = "inserting"
  /\ NewUpload(up[u].key, u, "detected type", "file name")
  /\ \/ up' = [up EXCEPT ![u].at = "fill"]
     \/ up' = [up EXCEPT ![u].at = "over"]      \* made, but reported as failed
  /\ UNCHANGED <<cache, get, del, served, gone>>

\* Mutant: the file is cached although the insert failed.
FailUploadFills(u) ==
  /\ up[u].at = "inserting"
  /\ up' = [up EXCEPT ![u].at = "fill"]
  /\ UNCHANGED <<rows, cache, get, del, histories>>

\* The key is taken, the name too long for its column, or the database fails: 500.
FailUpload(u) ==
  /\ up[u].at = "inserting"
  /\ up' = [up EXCEPT ![u].at = "over"]
  /\ UNCHANGED <<rows, cache, get, del, histories>>

\* setRedis, which Redis may fail
SetRedis(k, file) == cache' = [cache EXCEPT ![k] = file]

FillUpload(u) ==
  /\ up[u].at = "fill"
  /\ SetRedis(up[u].key, u) \/ UNCHANGED cache
  /\ up' = [up EXCEPT ![u].at = "over"]
  /\ UNCHANGED <<rows, get, del, histories>>
-----------------------------------------------------------------------------
(* handleGet                                                                *)

Serve(k, file, type) ==
  served' = [served EXCEPT ![k] = @ \cup {[file |-> file, type |-> type]}]

\* Mutant: a hit renews the entry.
LookupRenews(g, k) ==
  /\ get[g].at = "idle"
  /\ \/ /\ cache[k] # None
        /\ Serve(k, cache[k], "detected type")
        /\ get' = [get EXCEPT ![g] = [at |-> "fill", key |-> k, file |-> cache[k]]]
     \/ /\ get' = [get EXCEPT ![g] = [at |-> "database", key |-> k, file |-> None]]
        /\ UNCHANGED served
  /\ UNCHANGED <<rows, cache, up, del, held, gone>>

\* A hit is answered from Redis with a type detected anew; Redis failing is a miss.
Lookup(g, k) ==
  /\ get[g].at = "idle"
  /\ \/ /\ cache[k] # None
        /\ Serve(k, cache[k], "detected type")
        /\ UNCHANGED get
     \/ /\ get' = [get EXCEPT ![g] = [at |-> "database", key |-> k, file |-> None]]
        /\ UNCHANGED served
  /\ UNCHANGED <<rows, cache, up, del, held, gone>>

\* Mutant: a file that is not found is cached like any other.
GetFileAlwaysFills(g) ==
  LET k == get[g].key IN
  /\ get[g].at = "database"
  /\ get' = [get EXCEPT ![g].at = "fill",
                        ![g].file = IF rows[k] = None THEN None ELSE rows[k].file]
  /\ UNCHANGED <<rows, cache, up, del, histories>>

\* GetFileByKey: the row is served and its caching started; else 404 or 500.
GetFile(g) ==
  LET k == get[g].key IN
  /\ get[g].at = "database"
  /\ \/ /\ rows[k] # None
        /\ Serve(k, rows[k].file, rows[k].mime_type)
        /\ get' = [get EXCEPT ![g].at = "fill", ![g].file = rows[k].file]
     \/ /\ get' = [get EXCEPT ![g] = IdleGet]
        /\ UNCHANGED served
  /\ UNCHANGED <<rows, cache, up, del, held, gone>>

FillGet(g) ==
  /\ get[g].at = "fill"
  /\ SetRedis(get[g].key, get[g].file) \/ UNCHANGED cache
  /\ get' = [get EXCEPT ![g] = IdleGet]
  /\ UNCHANGED <<rows, up, del, histories>>

Expire(k) ==
  /\ cache[k] # None
  /\ cache' = [cache EXCEPT ![k] = None]
  /\ UNCHANGED <<rows, up, get, del, histories>>
-----------------------------------------------------------------------------
(* handleDelete, and the sweep                                              *)

\* redis.Del comes first, whatever the hash, and its error is ignored.
DropCached(d, k, hash) ==
  /\ del[d].at = "idle"
  /\ cache' = [cache EXCEPT ![k] = None] \/ UNCHANGED cache
  /\ del' = [del EXCEPT ![d] = [at |-> "check", key |-> k, hash |-> hash]]
  /\ UNCHANGED <<rows, up, get, histories>>

\* Mutant: the hash is not compared.
AcceptsAny(row, hash) == row # None

Accepts(row, hash) == row # None /\ row.file = hash

\* GetUploadCreatedAt and the comparison: on, or 404 and 401.
CheckHash(d) ==
  /\ del[d].at = "check"
  /\ del' = [del EXCEPT ![d] = IF Accepts(rows[del[d].key], del[d].hash)
                               THEN [@ EXCEPT !.at = "deleting"] ELSE IdleDel]
  /\ UNCHANGED <<rows, cache, up, get, histories>>

\* DeleteFileByKey deletes whatever the key has by now.
DeleteFile(d) ==
  /\ del[d].at = "deleting"
  /\ rows' = [rows EXCEPT ![del[d].key] = None]
  /\ del' = [del EXCEPT ![d] = IdleDel]
  /\ gone' = gone \cup {del[d].hash} \/ UNCHANGED gone   \* 204, or an error after all
  /\ UNCHANGED <<cache, up, get, served, held>>

\* Mutant: an error of the database is answered 204 as well.
FailDeleteIgnored(d) ==
  /\ del[d].at \in {"check", "deleting"}
  /\ del' = [del EXCEPT ![d] = IdleDel]
  /\ gone' = IF del[d].at = "deleting" THEN gone \cup {del[d].hash} ELSE gone
  /\ UNCHANGED <<rows, cache, up, get, served, held>>

FailDelete(d) ==
  /\ del[d].at \in {"check", "deleting"}
  /\ del' = [del EXCEPT ![d] = IdleDel]
  /\ UNCHANGED <<rows, cache, up, get, histories>>

\* deleteOldUploads removes the rows that are 30 days old.
Sweep(old) ==
  /\ \A k \in old : rows[k] # None
  /\ rows' = [k \in Keys |-> IF k \in old THEN None ELSE rows[k]]
  /\ UNCHANGED <<cache, up, get, del, histories>>
-----------------------------------------------------------------------------
Upload(u) == Insert(u) \/ FailUpload(u) \/ FillUpload(u) \/ \E k \in Keys : ChooseKey(u, k)

Get(g) == GetFile(g) \/ FillGet(g) \/ \E k \in Keys : Lookup(g, k)

Delete(d) ==
  \/ CheckHash(d) \/ DeleteFile(d) \/ FailDelete(d)
  \/ \E k \in Keys, hash \in Uploads : DropCached(d, k, hash)

Next ==
  \/ \E u \in Uploads : Upload(u)
  \/ \E g \in Gets : Get(g)
  \/ \E d \in Deletes : Delete(d)
  \/ \E k \in Keys : Expire(k)
  \/ \E old \in SUBSET Keys : Sweep(old)

Spec == Init /\ [][Next]_vars

\* The server keeps running its goroutines, and entries in Redis expire.
FairSpec ==
  /\ Spec
  /\ \A u \in Uploads : WF_vars(Insert(u) \/ FailUpload(u)) /\ WF_vars(FillUpload(u))
  /\ \A g \in Gets : WF_vars(GetFile(g)) /\ WF_vars(FillGet(g))
  /\ \A k \in Keys : WF_vars(Expire(k))
-----------------------------------------------------------------------------
\* Types; a request that is under way knows its key, and its file or hash.
TypeOK ==
  /\ rows \in [Keys -> Row \cup {None}]
  /\ cache \in [Keys -> Uploads \cup {None}]
  /\ up \in [Uploads -> [at : {"new"}, key : {None}]
                          \cup [at : {"inserting", "fill", "over"}, key : Keys]]
  /\ get \in [Gets -> {IdleGet} \cup [at : {"database"}, key : Keys, file : {None}]
                        \cup [at : {"fill"}, key : Keys, file : Uploads]]
  /\ del \in [Deletes -> {IdleDel} \cup [at : {"check", "deleting"}, key : Keys, hash : Uploads]]
  /\ served \in [Keys -> SUBSET [file : Uploads, type : Texts]]
  /\ held \in [Keys -> SUBSET Uploads]
  /\ gone \subseteq Uploads

\* A client gets only files that were in the table under the key it asked for,
\* from Redis too, and however late a fill or a deletion gets there.
ServedWasHeld ==
  \A k \in Keys : cache[k] \in held[k] \cup {None} /\ \A s \in served[k] : s.file \in held[k]

\* A file leaves the table only by the sweep or by a deletion that has shown its
\* hash, or the hash of a file that had the key before: handleDelete checks one row
\* and then deletes by key (uploader.go:203-216). No upload replaces a file.
DeletedByHash ==
  [][\A k \in Keys :
       rows[k] # None /\ rows'[k] # rows[k] =>
         /\ rows'[k] = None
         /\ \/ \E old \in SUBSET Keys : k \in old /\ Sweep(old)
            \/ \E d \in Deletes :
                 del[d].key = k /\ del[d].hash \in held[k] /\ del'[d] # del[d]]_vars

\* A file whose deletion was answered 204 is out of the table for good.
DeletedIsGone == \A k \in Keys : rows[k] # None => rows[k].file \notin gone

\* A key that has lost its file for good is in the end not served from Redis any
\* more either, though a fill may bring the file back after the deletion dropped
\* it, and the sweep leaves Redis alone (uploader.go:201, 258-259).
DeletedExpires ==
  \A k \in Keys : (<>[](rows[k] = None)) => <>[](cache[k] = None)
=============================================================================
