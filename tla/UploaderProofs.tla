--------------------------- MODULE UploaderProofs ---------------------------
(* Proofs about Uploader, for any sets of keys and requests: types; that    *)
(* only what a key has held is served; that a file goes only by its hash or *)
(* the sweep; that one whose deletion was answered is gone for good, from    *)
(* Redis too once the fills that had begun are over and the entry expired.  *)
EXTENDS Uploader, TLAPS

USE DEF histories

\* The variables of TypeOK one by one.
UpType == [at : {"new"}, key : {None}] \cup [at : {"inserting", "fill", "over"}, key : Keys]

GetType ==
  {IdleGet} \cup [at : {"database"}, key : Keys, file : {None}]
            \cup [at : {"fill"}, key : Keys, file : Uploads]

DelType == {IdleDel} \cup [at : {"check", "deleting"}, key : Keys, hash : Uploads]

Served == [file : Uploads, type : Texts]

\* The tables, and the records of the requests.
TableTypes ==
  /\ rows \in [Keys -> Row \cup {None}]
  /\ cache \in [Keys -> Uploads \cup {None}]
  /\ served \in [Keys -> SUBSET Served]
  /\ held \in [Keys -> SUBSET Uploads]
  /\ gone \subseteq Uploads

RequestTypes == up \in [Uploads -> UpType] /\ get \in [Gets -> GetType] /\ del \in [Deletes -> DelType]

LEMMA TypesSplit == TypeOK <=> TableTypes /\ RequestTypes
BY DEF TypeOK, TableTypes, RequestTypes, UpType, GetType, DelType, Served

\* What the requests under way hold.
LEMMA Holds ==
  ASSUME RequestTypes
  PROVE  /\ \A u \in Uploads : up[u].at # "new" => up[u].key \in Keys
         /\ \A g \in Gets : get[g].at # "idle" => get[g].key \in Keys
         /\ \A g \in Gets : get[g].at = "fill" => get[g].file \in Uploads
         /\ \A d \in Deletes : del[d].at # "idle" => del[d].key \in Keys /\ del[d].hash \in Uploads
BY DEF RequestTypes, UpType, GetType, DelType, IdleGet, IdleDel

\* The file of a row is an upload, and no row is None.
LEMMA RowHolds ==
  ASSUME TableTypes, NEW k \in Keys, rows[k] # None
  PROVE  rows[k].file \in Uploads /\ rows[k].mime_type \in Texts
BY DEF TableTypes, Row

LEMMA TableStep == TableTypes /\ RequestTypes /\ [Next]_vars => TableTypes'
<1> SUFFICES ASSUME TableTypes, RequestTypes, [Next]_vars PROVE TableTypes'
  OBVIOUS
<1>1. ASSUME NEW u \in Uploads, Insert(u) PROVE TableTypes'
  <2>1. up[u].key \in Keys
    BY <1>1, Holds DEF Insert
  <2>2. [file |-> u, file_name |-> "detected type", mime_type |-> "file name"] \in Row
    BY DEF Row, Texts
  <2>3. rows' \in [Keys -> Row \cup {None}]
    BY <1>1, <2>1, <2>2 DEF Insert, NewUpload, TableTypes
  <2>4. held' \in [Keys -> SUBSET Uploads]
    BY <1>1, <2>1 DEF Insert, NewUpload, TableTypes
  <2> QED BY <1>1, <2>3, <2>4 DEF Insert, TableTypes
<1>2. ASSUME NEW u \in Uploads, FillUpload(u) PROVE TableTypes'
  <2>1. cache' \in [Keys -> Uploads \cup {None}]
    BY <1>2 DEF FillUpload, SetRedis, TableTypes
  <2> QED BY <1>2, <2>1 DEF FillUpload, TableTypes
<1>s. ASSUME NEW k \in Keys, NEW f \in Uploads, NEW t \in Texts, Serve(k, f, t)
      PROVE  served' \in [Keys -> SUBSET Served]
  <2>1. [file |-> f, type |-> t] \in Served
    BY DEF Served
  <2> QED BY <1>s, <2>1 DEF Serve, TableTypes
<1>3. ASSUME NEW g \in Gets, NEW k \in Keys, Lookup(g, k) PROVE TableTypes'
  <2>1. served' \in [Keys -> SUBSET Served]
    <3>1. CASE UNCHANGED served
      BY <3>1 DEF TableTypes
    <3>2. CASE cache[k] # None /\ Serve(k, cache[k], "detected type")
      <4>1. cache[k] \in Uploads /\ "detected type" \in Texts
        BY <3>2 DEF TableTypes, Texts
      <4> QED BY <1>s, <3>2, <4>1
    <3> QED BY <1>3, <3>1, <3>2 DEF Lookup
  <2> QED BY <1>3, <2>1 DEF Lookup, TableTypes
<1>4. ASSUME NEW g \in Gets, GetFile(g) PROVE TableTypes'
  <2>1. served' \in [Keys -> SUBSET Served]
    <3>1. CASE UNCHANGED served
      BY <3>1 DEF TableTypes
    <3>2. CASE /\ rows[get[g].key] # None
               /\ Serve(get[g].key, rows[get[g].key].file, rows[get[g].key].mime_type)
      <4>1. get[g].key \in Keys
        BY <1>4, Holds DEF GetFile
      <4>2. rows[get[g].key].file \in Uploads /\ rows[get[g].key].mime_type \in Texts
        BY <3>2, <4>1, RowHolds
      <4> QED BY <1>s, <3>2, <4>1, <4>2
    <3> QED BY <1>4, <3>1, <3>2 DEF GetFile
  <2> QED BY <1>4, <2>1 DEF GetFile, TableTypes
<1>5. ASSUME NEW g \in Gets, FillGet(g) PROVE TableTypes'
  <2>1. get[g].key \in Keys /\ get[g].file \in Uploads
    BY <1>5, Holds DEF FillGet
  <2>2. cache' \in [Keys -> Uploads \cup {None}]
    BY <1>5, <2>1 DEF FillGet, SetRedis, TableTypes
  <2> QED BY <1>5, <2>2 DEF FillGet, TableTypes
<1>6. ASSUME NEW d \in Deletes, NEW k \in Keys, NEW h \in Uploads, DropCached(d, k, h) PROVE TableTypes'
  <2>1. cache' \in [Keys -> Uploads \cup {None}]
    BY <1>6 DEF DropCached, TableTypes
  <2> QED BY <1>6, <2>1 DEF DropCached, TableTypes
<1>7. ASSUME NEW d \in Deletes, DeleteFile(d) PROVE TableTypes'
  <2>1. del[d].hash \in Uploads
    BY <1>7, Holds DEF DeleteFile
  <2>2. gone' \subseteq Uploads
    BY <1>7, <2>1 DEF DeleteFile, TableTypes
  <2>3. rows' \in [Keys -> Row \cup {None}]
    BY <1>7 DEF DeleteFile, TableTypes
  <2> QED BY <1>7, <2>2, <2>3 DEF DeleteFile, TableTypes
<1>8. ASSUME NEW k \in Keys, Expire(k) PROVE TableTypes'
  BY <1>8 DEF Expire, TableTypes
<1>9. ASSUME NEW old \in SUBSET Keys, Sweep(old) PROVE TableTypes'
  <2>1. rows' \in [Keys -> Row \cup {None}]
    BY <1>9 DEF Sweep, TableTypes
  <2> QED BY <1>9, <2>1 DEF Sweep, TableTypes
<1>10. ASSUME NEW u \in Uploads, FailUpload(u) \/ \E k \in Keys : ChooseKey(u, k) PROVE TableTypes'
  BY <1>10 DEF FailUpload, ChooseKey, TableTypes
<1>11. ASSUME NEW d \in Deletes, CheckHash(d) \/ FailDelete(d) PROVE TableTypes'
  BY <1>11 DEF CheckHash, FailDelete, TableTypes
<1>12. CASE UNCHANGED vars
  BY <1>12 DEF vars, TableTypes
<1> QED BY <1>1, <1>2, <1>3, <1>4, <1>5, <1>6, <1>7, <1>8, <1>9, <1>10, <1>11, <1>12
        DEF Next, Upload, Get, Delete

LEMMA RequestStep == TableTypes /\ RequestTypes /\ [Next]_vars => RequestTypes'
<1> SUFFICES ASSUME TableTypes, RequestTypes, [Next]_vars PROVE RequestTypes'
  OBVIOUS
<1>u. ASSUME NEW u \in Uploads, NEW r \in UpType, up' = [up EXCEPT ![u] = r], UNCHANGED <<get, del>>
      PROVE  RequestTypes'
  BY <1>u DEF RequestTypes
<1>g. ASSUME NEW g \in Gets, NEW r \in GetType, get' = [get EXCEPT ![g] = r], UNCHANGED <<up, del>>
      PROVE  RequestTypes'
  BY <1>g DEF RequestTypes
<1>d. ASSUME NEW d \in Deletes, NEW r \in DelType, del' = [del EXCEPT ![d] = r], UNCHANGED <<up, get>>
      PROVE  RequestTypes'
  BY <1>d DEF RequestTypes
<1>1. ASSUME NEW u \in Uploads, NEW k \in Keys, ChooseKey(u, k) PROVE RequestTypes'
  <2>1. [at |-> "inserting", key |-> k] \in UpType
    BY DEF UpType
  <2> QED BY <1>1, <1>u, <2>1 DEF ChooseKey
<1>2. ASSUME NEW u \in Uploads, Insert(u) \/ FailUpload(u) \/ FillUpload(u) PROVE RequestTypes'
  <2>1. up[u] \in [at : {"inserting", "fill", "over"}, key : Keys] /\ UNCHANGED <<get, del>>
    BY <1>2 DEF Insert, FailUpload, FillUpload, RequestTypes, UpType
  <2>2. PICK w \in {"fill", "over"} : up' = [up EXCEPT ![u].at = w]
    BY <1>2 DEF Insert, FailUpload, FillUpload
  <2>3. [up[u] EXCEPT !.at = w] \in UpType
    BY <2>1 DEF UpType
  <2>4. up' = [up EXCEPT ![u] = [up[u] EXCEPT !.at = w]]
    BY <2>2 DEF RequestTypes
  <2> QED BY <1>u, <2>1, <2>3, <2>4
<1>3. ASSUME NEW g \in Gets, NEW k \in Keys, Lookup(g, k) PROVE RequestTypes'
  <2>1. [at |-> "database", key |-> k, file |-> None] \in GetType
    BY DEF GetType
  <2>2. CASE UNCHANGED get
    BY <1>3, <2>2 DEF Lookup, RequestTypes
  <2>3. CASE get' = [get EXCEPT ![g] = [at |-> "database", key |-> k, file |-> None]]
    BY <1>3, <1>g, <2>1, <2>3 DEF Lookup
  <2> QED BY <1>3, <2>2, <2>3 DEF Lookup
<1>i. IdleGet \in GetType /\ IdleDel \in DelType
  BY DEF GetType, DelType
<1>4. ASSUME NEW g \in Gets, GetFile(g) PROVE RequestTypes'
  <2>1. get[g].key \in Keys /\ get[g] \in [at : {"database"}, key : Keys, file : {None}]
    BY <1>4 DEF GetFile, RequestTypes, GetType, IdleGet
  <2>2. UNCHANGED <<up, del>>
    BY <1>4 DEF GetFile
  <2>3. ASSUME rows[get[g].key] # None,
               get' = [get EXCEPT ![g].at = "fill", ![g].file = rows[get[g].key].file]
        PROVE  RequestTypes'
    <3>1. rows[get[g].key].file \in Uploads
      BY <2>1, <2>3, RowHolds
    <3>2. [get[g] EXCEPT !.at = "fill"] \in [at : {"fill"}, key : Keys, file : {None}]
      BY <2>1
    <3>3. [[get[g] EXCEPT !.at = "fill"] EXCEPT !.file = rows[get[g].key].file]
            \in [at : {"fill"}, key : Keys, file : Uploads]
      BY <3>1, <3>2
    <3>4. [[get[g] EXCEPT !.at = "fill"] EXCEPT !.file = rows[get[g].key].file] \in GetType
      BY <3>3 DEF GetType
    <3>5. get' = [get EXCEPT ![g] = [[get[g] EXCEPT !.at = "fill"]
                                       EXCEPT !.file = rows[get[g].key].file]]
      BY <2>3 DEF RequestTypes
    <3> QED BY <1>g, <2>2, <3>4, <3>5
  <2>4. ASSUME get' = [get EXCEPT ![g] = IdleGet] PROVE RequestTypes'
    BY <1>g, <1>i, <2>2, <2>4
  <2> QED BY <1>4, <2>3, <2>4 DEF GetFile
<1>5. ASSUME NEW g \in Gets, FillGet(g) PROVE RequestTypes'
  BY <1>5, <1>g, <1>i DEF FillGet
<1>6. ASSUME NEW d \in Deletes, NEW k \in Keys, NEW h \in Uploads, DropCached(d, k, h) PROVE RequestTypes'
  <2>1. [at |-> "check", key |-> k, hash |-> h] \in DelType
    BY DEF DelType
  <2> QED BY <1>6, <1>d, <2>1 DEF DropCached
<1>7. ASSUME NEW d \in Deletes, CheckHash(d) PROVE RequestTypes'
  <2>1. del[d] \in [at : {"check", "deleting"}, key : Keys, hash : Uploads] /\ UNCHANGED <<up, get>>
    BY <1>7 DEF CheckHash, RequestTypes, DelType, IdleDel
  <2>2. CASE del' = [del EXCEPT ![d] = [del[d] EXCEPT !.at = "deleting"]]
    <3>1. [del[d] EXCEPT !.at = "deleting"] \in DelType
      BY <2>1 DEF DelType
    <3> QED BY <1>d, <2>1, <2>2, <3>1
  <2>3. CASE del' = [del EXCEPT ![d] = IdleDel]
    BY <1>d, <1>i, <2>1, <2>3
  <2> QED BY <1>7, <2>2, <2>3 DEF CheckHash, RequestTypes
<1>8. ASSUME NEW d \in Deletes, DeleteFile(d) \/ FailDelete(d) PROVE RequestTypes'
  BY <1>8, <1>d, <1>i DEF DeleteFile, FailDelete
<1>9. CASE (\E k \in Keys : Expire(k)) \/ (\E old \in SUBSET Keys : Sweep(old)) \/ UNCHANGED vars
  BY <1>9 DEF Expire, Sweep, vars, RequestTypes
<1> QED BY <1>1, <1>2, <1>3, <1>4, <1>5, <1>6, <1>7, <1>8, <1>9 DEF Next, Upload, Get, Delete

\* Types; what a request under way holds is of the kind its next step needs.
THEOREM TypeCorrect == Spec => []TypeOK
<1>1. Init => TypeOK
  BY DEF Init, TypeOK, IdleGet, IdleDel
<1>2. TypeOK /\ [Next]_vars => TypeOK'
  <2>1. TypeOK' <=> TableTypes' /\ RequestTypes'
    BY DEF TypeOK, TableTypes, RequestTypes, UpType, GetType, DelType, Served
  <2> QED BY <2>1, TypesSplit, TableStep, RequestStep
<1> QED BY <1>1, <1>2, PTL DEF Spec
-----------------------------------------------------------------------------
(* What is served                                                           *)

\* Whatever is in the table, in Redis, on its way there, or with a client has been in
\* the table under its key.
FromTable ==
  /\ \A k \in Keys : rows[k] # None => rows[k].file \in held[k]
  /\ \A u \in Uploads : up[u].at = "fill" => u \in held[up[u].key]
  /\ \A g \in Gets : get[g].at = "fill" => get[g].file \in held[get[g].key]
  /\ ServedWasHeld

\* A key that is given a file has held it from then on.
LEMMA HeldGrows ==
  TableTypes /\ RequestTypes /\ [Next]_vars
    => /\ \A k \in Keys : held[k] \subseteq held'[k]
       /\ \A k \in Keys : rows'[k] # None /\ rows'[k] # rows[k] => rows'[k].file \in held'[k]
<1> SUFFICES ASSUME TableTypes, RequestTypes, [Next]_vars
             PROVE  /\ \A k \in Keys : held[k] \subseteq held'[k]
                    /\ \A k \in Keys : rows'[k] # None /\ rows'[k] # rows[k] => rows'[k].file \in held'[k]
  OBVIOUS
<1>1. ASSUME NEW u \in Uploads, Insert(u)
      PROVE  /\ \A k \in Keys : held[k] \subseteq held'[k]
             /\ \A k \in Keys : rows'[k] # None /\ rows'[k] # rows[k] => rows'[k].file \in held'[k]
  BY <1>1 DEF Insert, NewUpload, TableTypes
<1>2. ASSUME UNCHANGED held, \A k \in Keys : rows'[k] = None \/ rows'[k] = rows[k]
      PROVE  /\ \A k \in Keys : held[k] \subseteq held'[k]
             /\ \A k \in Keys : rows'[k] # None /\ rows'[k] # rows[k] => rows'[k].file \in held'[k]
  BY <1>2
<1>3. ASSUME NEW d \in Deletes, DeleteFile(d)
      PROVE  UNCHANGED held /\ \A k \in Keys : rows'[k] = None \/ rows'[k] = rows[k]
  BY <1>3 DEF DeleteFile, TableTypes
<1>4. ASSUME NEW old \in SUBSET Keys, Sweep(old)
      PROVE  UNCHANGED held /\ \A k \in Keys : rows'[k] = None \/ rows'[k] = rows[k]
  BY <1>4 DEF Sweep
<1>5. ASSUME ~UNCHANGED <<rows, held>>
      PROVE  \/ \E u \in Uploads : Insert(u)
             \/ \E d \in Deletes : DeleteFile(d)
             \/ \E old \in SUBSET Keys : Sweep(old)
  BY <1>5 DEF Next, Upload, Get, Delete, ChooseKey, FailUpload, FillUpload, Lookup, GetFile,
     FillGet, DropCached, CheckHash, FailDelete, Expire, vars
<1>6. CASE UNCHANGED <<rows, held>>
  BY <1>2, <1>6
<1> QED BY <1>1, <1>2, <1>3, <1>4, <1>5, <1>6

\* Redis and the clients are given what the step finds in the table, in Redis or with a request.
LEMMA GivenWasHeld == TableTypes /\ RequestTypes /\ FromTable /\ [Next]_vars => ServedWasHeld'
<1> SUFFICES ASSUME TableTypes, RequestTypes, FromTable, [Next]_vars, NEW k \in Keys
             PROVE  cache'[k] \in held'[k] \cup {None} /\ \A s \in served'[k] : s.file \in held'[k]
  BY DEF ServedWasHeld
<1>h. held[k] \subseteq held'[k]
  BY HeldGrows
<1>1. cache'[k] \in held'[k] \cup {None}
  <2>1. CASE cache'[k] \in {None, cache[k]}
    BY <1>h, <2>1 DEF FromTable, ServedWasHeld
  <2>2. ASSUME NEW u \in Uploads, FillUpload(u), cache'[k] # cache[k] PROVE cache'[k] \in held'[k]
    <3>1. k = up[u].key /\ up[u].at = "fill" /\ cache'[k] = u
      BY <2>2 DEF FillUpload, SetRedis, TableTypes
    <3> QED BY <1>h, <3>1 DEF FromTable
  <2>3. ASSUME NEW g \in Gets, FillGet(g), cache'[k] # cache[k] PROVE cache'[k] \in held'[k]
    <3>1. k = get[g].key /\ get[g].at = "fill" /\ cache'[k] = get[g].file
      BY <2>3 DEF FillGet, SetRedis, TableTypes
    <3> QED BY <1>h, <3>1 DEF FromTable
  <2>4. ASSUME NEW d \in Deletes, NEW j \in Keys, NEW hash \in Uploads, DropCached(d, j, hash)
        PROVE  cache'[k] \in {None, cache[k]}
    BY <2>4 DEF DropCached, TableTypes
  <2>5. ASSUME NEW j \in Keys, Expire(j) PROVE cache'[k] \in {None, cache[k]}
    BY <2>5 DEF Expire, TableTypes
  <2>6. ASSUME cache'[k] # cache[k]
        PROVE  \/ \E u \in Uploads : FillUpload(u)
               \/ \E g \in Gets : FillGet(g)
               \/ \E d \in Deletes, j \in Keys, hash \in Uploads : DropCached(d, j, hash)
               \/ \E j \in Keys : Expire(j)
    BY <2>6 DEF Next, Upload, Get, Delete, ChooseKey, Insert, FailUpload, Lookup, GetFile,
       CheckHash, DeleteFile, FailDelete, Sweep, vars
  <2> QED BY <2>1, <2>2, <2>3, <2>4, <2>5, <2>6
<1>2. ASSUME NEW s \in served'[k] PROVE s.file \in held'[k]
  <2>1. CASE s \in served[k]
    BY <1>h, <2>1 DEF FromTable, ServedWasHeld
  <2>2. ASSUME NEW j \in Keys, NEW f, NEW t, Serve(j, f, t), f \in held[j], s \notin served[k]
        PROVE  s.file \in held'[k]
    BY <1>h, <1>2, <2>2 DEF Serve, TableTypes
  <2>3. ASSUME NEW g \in Gets, NEW j \in Keys, Lookup(g, j), s \notin served[k] PROVE s.file \in held'[k]
    <3>1. cache[j] # None /\ Serve(j, cache[j], "detected type")
      BY <1>2, <2>3 DEF Lookup
    <3>2. cache[j] \in held[j]
      BY <3>1 DEF FromTable, ServedWasHeld
    <3> QED BY <2>2, <2>3, <3>1, <3>2
  <2>4. ASSUME NEW g \in Gets, GetFile(g), s \notin served[k] PROVE s.file \in held'[k]
    <3>1. /\ rows[get[g].key] # None
          /\ Serve(get[g].key, rows[get[g].key].file, rows[get[g].key].mime_type)
      BY <1>2, <2>4 DEF GetFile
    <3>2. get[g].key \in Keys
      BY <2>4, Holds DEF GetFile
    <3>3. rows[get[g].key].file \in held[get[g].key]
      BY <3>1, <3>2 DEF FromTable
    <3> QED BY <2>2, <2>4, <3>1, <3>2, <3>3
  <2>5. ASSUME s \notin served[k] PROVE \E g \in Gets : GetFile(g) \/ \E j \in Keys : Lookup(g, j)
    BY <1>2, <2>5 DEF Next, Upload, Get, Delete, ChooseKey, Insert, FailUpload, FillUpload,
       FillGet, DropCached, CheckHash, DeleteFile, FailDelete, Expire, Sweep, vars
  <2> QED BY <2>1, <2>3, <2>4, <2>5
<1> QED BY <1>1, <1>2

\* A fill is as it was, or begins with the insert of its file or the reading of its row.
LEMMA FillBegins ==
  ASSUME TableTypes, RequestTypes, [Next]_vars
  PROVE  /\ \A u \in Uploads : up'[u].at = "fill" =>
              \/ up'[u] = up[u]
              \/ Insert(u) /\ up'[u].key = up[u].key
         /\ \A g \in Gets : get'[g].at = "fill" =>
              \/ get'[g] = get[g]
              \/ /\ GetFile(g) /\ get'[g].key = get[g].key
                 /\ rows[get[g].key] # None /\ get'[g].file = rows[get[g].key].file
<1>1. ASSUME NEW u \in Uploads, up'[u].at = "fill", up'[u] # up[u]
      PROVE  Insert(u) /\ up'[u].key = up[u].key
  <2>1. ASSUME NEW v \in Uploads, Insert(v) PROVE Insert(u) /\ up'[u].key = up[u].key
    <3>1. PICK w \in {"fill", "over"} : up' = [up EXCEPT ![v].at = w]
      BY <2>1 DEF Insert
    <3>2. u = v
      BY <1>1, <3>1 DEF RequestTypes
    <3>3. up[u] \in [at : {"inserting", "fill", "over"}, key : Keys]
      BY <2>1, <3>2 DEF Insert, RequestTypes, UpType
    <3>4. up'[u] = [up[u] EXCEPT !.at = w]
      BY <3>1, <3>2 DEF RequestTypes
    <3>5. up'[u].key = up[u].key
      BY <3>3, <3>4
    <3> QED BY <2>1, <3>2, <3>5
  <2>2. ASSUME NEW v \in Uploads, FailUpload(v) \/ FillUpload(v) PROVE FALSE
    <3>1. up' = [up EXCEPT ![v].at = "over"] /\ up[v].at # "new"
      BY <2>2 DEF FailUpload, FillUpload
    <3>2. u = v
      BY <1>1, <3>1 DEF RequestTypes
    <3>3. up[u] \in [at : {"inserting", "fill", "over"}, key : Keys]
      BY <3>1, <3>2 DEF RequestTypes, UpType
    <3>4. up'[u] = [up[u] EXCEPT !.at = "over"]
      BY <3>1, <3>2 DEF RequestTypes
    <3>5. up'[u].at = "over"
      BY <3>3, <3>4
    <3> QED BY <1>1, <3>5
  <2>3. ASSUME NEW v \in Uploads, NEW k \in Keys, ChooseKey(v, k) PROVE FALSE
    BY <1>1, <2>3 DEF ChooseKey, RequestTypes
  <2>4. \E v \in Uploads : \/ Insert(v) \/ FailUpload(v) \/ FillUpload(v)
                           \/ \E k \in Keys : ChooseKey(v, k)
    BY <1>1 DEF Next, Upload, Get, Delete, Lookup, GetFile, FillGet, DropCached, CheckHash,
       DeleteFile, FailDelete, Expire, Sweep, vars
  <2> QED BY <2>1, <2>2, <2>3, <2>4
<1>2. ASSUME NEW g \in Gets, get'[g].at = "fill", get'[g] # get[g]
      PROVE  /\ GetFile(g) /\ get'[g].key = get[g].key
             /\ rows[get[g].key] # None /\ get'[g].file = rows[get[g].key].file
  <2>1. ASSUME NEW h \in Gets, GetFile(h)
        PROVE  /\ GetFile(g) /\ get'[g].key = get[g].key
               /\ rows[get[g].key] # None /\ get'[g].file = rows[get[g].key].file
    <3>1. ASSUME get' = [get EXCEPT ![h] = IdleGet] PROVE FALSE
      BY <1>2, <3>1 DEF RequestTypes, IdleGet
    <3>2. /\ rows[get[h].key] # None
          /\ get' = [get EXCEPT ![h].at = "fill", ![h].file = rows[get[h].key].file]
      BY <2>1, <3>1 DEF GetFile
    <3>3. g = h
      BY <1>2, <3>2 DEF RequestTypes
    <3>4. get[h] \in [at : {"database"}, key : Keys, file : {None}]
      BY <2>1 DEF GetFile, RequestTypes, GetType, IdleGet
    <3>5. get'[g] = [[get[h] EXCEPT !.at = "fill"] EXCEPT !.file = rows[get[h].key].file]
      BY <3>2, <3>3 DEF RequestTypes
    <3>6. get'[g].key = get[h].key /\ get'[g].file = rows[get[h].key].file
      BY <3>4, <3>5
    <3> QED BY <2>1, <3>2, <3>3, <3>6
  <2>2. ASSUME NEW h \in Gets, FillGet(h) \/ \E k \in Keys : Lookup(h, k) PROVE FALSE
    <3>1. ASSUME get' = [get EXCEPT ![h] = IdleGet] PROVE FALSE
      BY <1>2, <3>1 DEF RequestTypes, IdleGet
    <3>2. ASSUME NEW k \in Keys,
                 get' = [get EXCEPT ![h] = [at |-> "database", key |-> k, file |-> None]]
          PROVE  FALSE
      BY <1>2, <3>2 DEF RequestTypes
    <3> QED BY <1>2, <2>2, <3>1, <3>2 DEF FillGet, Lookup
  <2>3. \E h \in Gets : GetFile(h) \/ FillGet(h) \/ \E k \in Keys : Lookup(h, k)
    BY <1>2 DEF Next, Upload, Get, Delete, ChooseKey, Insert, FailUpload, FillUpload, DropCached,
       CheckHash, DeleteFile, FailDelete, Expire, Sweep, vars
  <2> QED BY <2>1, <2>2, <2>3
<1> QED BY <1>1, <1>2

\* A request goes on to fill Redis with the file it has inserted or read.
LEMMA FillsWereHeld ==
  TableTypes /\ RequestTypes /\ FromTable /\ [Next]_vars
    => /\ \A u \in Uploads : up'[u].at = "fill" => u \in held'[up'[u].key]
       /\ \A g \in Gets : get'[g].at = "fill" => get'[g].file \in held'[get'[g].key]
<1> SUFFICES ASSUME TableTypes, RequestTypes, FromTable, [Next]_vars
             PROVE  /\ \A u \in Uploads : up'[u].at = "fill" => u \in held'[up'[u].key]
                    /\ \A g \in Gets : get'[g].at = "fill" => get'[g].file \in held'[get'[g].key]
  OBVIOUS
<1>h. \A k \in Keys : held[k] \subseteq held'[k]
  BY HeldGrows
<1>1. ASSUME NEW u \in Uploads, up'[u].at = "fill" PROVE u \in held'[up'[u].key]
  <2>1. CASE up'[u] = up[u]
    BY <1>h, <1>1, <2>1, Holds DEF FromTable
  <2>2. CASE Insert(u) /\ up'[u].key = up[u].key
    <3>1. up[u].key \in Keys
      BY <2>2, Holds DEF Insert
    <3> QED BY <2>2, <3>1 DEF Insert, NewUpload, TableTypes
  <2> QED BY <1>1, <2>1, <2>2, FillBegins
<1>2. ASSUME NEW g \in Gets, get'[g].at = "fill" PROVE get'[g].file \in held'[get'[g].key]
  <2>1. CASE get'[g] = get[g]
    BY <1>h, <1>2, <2>1, Holds DEF FromTable
  <2>2. CASE /\ GetFile(g) /\ get'[g].key = get[g].key
             /\ rows[get[g].key] # None /\ get'[g].file = rows[get[g].key].file
    <3>1. get[g].key \in Keys
      BY <2>2, Holds DEF GetFile
    <3> QED BY <1>h, <2>2, <3>1 DEF FromTable
  <2> QED BY <1>2, <2>1, <2>2, FillBegins
<1> QED BY <1>1, <1>2

LEMMA FromTableStep == TableTypes /\ RequestTypes /\ FromTable /\ [Next]_vars => FromTable'
<1> SUFFICES ASSUME TableTypes, RequestTypes, FromTable, [Next]_vars PROVE FromTable'
  OBVIOUS
<1>1. ASSUME NEW k \in Keys, rows'[k] # None PROVE rows'[k].file \in held'[k]
  BY <1>1, HeldGrows DEF FromTable
<1> QED BY <1>1, FillsWereHeld, GivenWasHeld DEF FromTable

LEMMA Always == Spec => [](TableTypes /\ RequestTypes)
BY TypeCorrect, TypesSplit, PTL

\* A client gets only files that were in the table under its key, however late a fill
\* or a deletion gets to Redis (uploader.go:226-270).
THEOREM ServesOnlyHeld == Spec => []ServedWasHeld
<1>1. Init => FromTable
  BY DEF Init, FromTable, ServedWasHeld, IdleGet
<1>2. FromTable => ServedWasHeld
  BY DEF FromTable
<1> QED BY <1>1, <1>2, FromTableStep, Always, PTL DEF Spec
-----------------------------------------------------------------------------
(* What is deleted                                                          *)

\* An upload is in one key only and is made once; a deletion that is to delete has
\* shown a hash the key has held; a file whose deletion was answered is gone.
DeletionsHold ==
  /\ \A k \in Keys : rows[k] # None => rows[k].file \in held[k]
  /\ \A k \in Keys : \A u \in held[k] : up[u].at \in {"fill", "over"} /\ up[u].key = k
  /\ \A d \in Deletes : del[d].at = "deleting" => del[d].hash \in held[del[d].key]
  /\ \A h \in gone : up[h].at \in {"fill", "over"}
  /\ DeletedIsGone

\* An upload that was made keeps its key, and is not made again.
LEMMA MadeOnce ==
  ASSUME TableTypes, RequestTypes, [Next]_vars, NEW u \in Uploads, up[u].at \in {"fill", "over"}
  PROVE  up'[u].at \in {"fill", "over"} /\ up'[u].key = up[u].key
<1>1. ASSUME NEW v \in Uploads, Insert(v) \/ FailUpload(v) \/ FillUpload(v)
      PROVE  up'[u].at \in {"fill", "over"} /\ up'[u].key = up[u].key
  <2>1. PICK w \in {"fill", "over"} : up' = [up EXCEPT ![v].at = w]
    BY <1>1 DEF Insert, FailUpload, FillUpload
  <2>2. up[u] \in [at : {"inserting", "fill", "over"}, key : Keys]
    BY DEF RequestTypes, UpType
  <2>3. up'[u] = up[u] \/ up'[u] = [up[u] EXCEPT !.at = w]
    BY <2>1 DEF RequestTypes
  <2> QED BY <2>2, <2>3
<1>2. ASSUME NEW v \in Uploads, NEW k \in Keys, ChooseKey(v, k) PROVE up'[u] = up[u]
  BY <1>2 DEF ChooseKey, RequestTypes
<1>3. ASSUME up'[u] # up[u]
      PROVE  \E v \in Uploads : \/ Insert(v) \/ FailUpload(v) \/ FillUpload(v)
                                \/ \E k \in Keys : ChooseKey(v, k)
  BY <1>3 DEF Next, Upload, Get, Delete, Lookup, GetFile, FillGet, DropCached, CheckHash,
     DeleteFile, FailDelete, Expire, Sweep, vars
<1> QED BY <1>1, <1>2, <1>3

\* Only an Insert gives a key a file, and the upload is over or about to be cached then.
LEMMA HeldIsMade ==
  TableTypes /\ RequestTypes /\ DeletionsHold /\ [Next]_vars
    => \A k \in Keys : \A u \in held'[k] : up'[u].at \in {"fill", "over"} /\ up'[u].key = k
<1> SUFFICES ASSUME TableTypes, RequestTypes, DeletionsHold, [Next]_vars,
                    NEW k \in Keys, NEW u \in held'[k]
             PROVE  up'[u].at \in {"fill", "over"} /\ up'[u].key = k
  OBVIOUS
<1>1. CASE u \in held[k]
  <2>1. u \in Uploads /\ up[u].at \in {"fill", "over"} /\ up[u].key = k
    BY <1>1 DEF TableTypes, DeletionsHold
  <2> QED BY <2>1, MadeOnce
<1>2. ASSUME NEW v \in Uploads, Insert(v), u \notin held[k]
      PROVE  up'[u].at \in {"fill", "over"} /\ up'[u].key = k
  <2>1. up[v] \in [at : {"inserting", "fill", "over"}, key : Keys]
    BY <1>2 DEF Insert, RequestTypes, UpType
  <2>2. u = v /\ up[v].key = k
    BY <1>2, <2>1 DEF Insert, NewUpload, TableTypes
  <2>3. PICK w \in {"fill", "over"} : up' = [up EXCEPT ![v].at = w]
    BY <1>2 DEF Insert
  <2>4. up'[u] = [up[v] EXCEPT !.at = w]
    BY <2>2, <2>3 DEF RequestTypes
  <2> QED BY <2>1, <2>2, <2>4
<1>3. ASSUME u \notin held[k] PROVE \E v \in Uploads : Insert(v)
  BY <1>3 DEF Next, Upload, Get, Delete, ChooseKey, FailUpload, FillUpload, Lookup, GetFile,
     FillGet, DropCached, CheckHash, DeleteFile, FailDelete, Expire, Sweep, vars
<1> QED BY <1>1, <1>2, <1>3

\* Between the check of the hash and the deletion the key goes on having held its file.
LEMMA HashWasHeld ==
  TableTypes /\ RequestTypes /\ DeletionsHold /\ [Next]_vars
    => \A d \in Deletes : del'[d].at = "deleting" => del'[d].hash \in held'[del'[d].key]
<1> SUFFICES ASSUME TableTypes, RequestTypes, DeletionsHold, [Next]_vars,
                    NEW d \in Deletes, del'[d].at = "deleting"
             PROVE  del'[d].hash \in held'[del'[d].key]
  OBVIOUS
<1>h. \A k \in Keys : held[k] \subseteq held'[k]
  BY HeldGrows
<1>1. CASE del'[d] = del[d]
  BY <1>h, <1>1, Holds DEF DeletionsHold
<1>2. ASSUME NEW c \in Deletes, CheckHash(c), del'[d] # del[d] PROVE del'[d].hash \in held'[del'[d].key]
  <2>1. del[c].key \in Keys /\ del[c] \in [at : {"check", "deleting"}, key : Keys, hash : Uploads]
    BY <1>2 DEF CheckHash, RequestTypes, DelType, IdleDel
  <2>2. ASSUME del' = [del EXCEPT ![c] = IdleDel] PROVE FALSE
    BY <1>2, <2>2 DEF RequestTypes, IdleDel
  <2>3. /\ Accepts(rows[del[c].key], del[c].hash)
        /\ del' = [del EXCEPT ![c] = [del[c] EXCEPT !.at = "deleting"]]
    BY <1>2, <2>2 DEF CheckHash, RequestTypes
  <2>4. del'[d] = [del[c] EXCEPT !.at = "deleting"]
    BY <1>2, <2>3 DEF RequestTypes
  <2>5. del'[d].key = del[c].key /\ del'[d].hash = del[c].hash
    BY <2>1, <2>4
  <2>6. del[c].hash \in held[del[c].key]
    BY <2>1, <2>3 DEF Accepts, DeletionsHold
  <2> QED BY <1>h, <2>1, <2>5, <2>6
<1>3. ASSUME NEW c \in Deletes, del'[d] # del[d],
             \/ DeleteFile(c) \/ FailDelete(c)
             \/ \E k \in Keys, hash \in Uploads : DropCached(c, k, hash)
      PROVE  FALSE
  <2>1. CASE del' = [del EXCEPT ![c] = IdleDel]
    BY <1>3, <2>1 DEF RequestTypes, IdleDel
  <2>2. ASSUME NEW k \in Keys, NEW hash \in Uploads,
               del' = [del EXCEPT ![c] = [at |-> "check", key |-> k, hash |-> hash]]
        PROVE  FALSE
    BY <1>3, <2>2 DEF RequestTypes
  <2> QED BY <1>3, <2>1, <2>2 DEF DeleteFile, FailDelete, DropCached
<1>4. ASSUME del'[d] # del[d]
      PROVE  \E c \in Deletes : \/ CheckHash(c) \/ DeleteFile(c) \/ FailDelete(c)
                                \/ \E k \in Keys, hash \in Uploads : DropCached(c, k, hash)
  BY <1>4 DEF Next, Upload, Get, Delete, ChooseKey, Insert, FailUpload, FillUpload, Lookup,
     GetFile, FillGet, Expire, Sweep, vars
<1> QED BY <1>1, <1>2, <1>3, <1>4

\* A deleted file is in no other row, for it has one key, and is not inserted again.
LEMMA GoneStays ==
  TableTypes /\ RequestTypes /\ DeletionsHold /\ [Next]_vars
    => DeletedIsGone' /\ \A h \in gone' : up'[h].at \in {"fill", "over"}
<1> SUFFICES ASSUME TableTypes, RequestTypes, DeletionsHold, [Next]_vars
             PROVE  DeletedIsGone' /\ \A h \in gone' : up'[h].at \in {"fill", "over"}
  OBVIOUS
<1>g. ASSUME NEW h \in gone PROVE up'[h].at \in {"fill", "over"}
  <2>1. h \in Uploads /\ up[h].at \in {"fill", "over"}
    BY DEF TableTypes, DeletionsHold
  <2> QED BY <2>1, MadeOnce
<1>1. ASSUME gone' = gone, \A k \in Keys : rows'[k] = None \/ rows'[k] = rows[k]
      PROVE  DeletedIsGone' /\ \A h \in gone' : up'[h].at \in {"fill", "over"}
  BY <1>1, <1>g DEF DeletedIsGone, DeletionsHold
<1>2. ASSUME NEW u \in Uploads, Insert(u)
      PROVE  DeletedIsGone' /\ \A h \in gone' : up'[h].at \in {"fill", "over"}
  <2>1. gone' = gone /\ up[u].key \in Keys
    BY <1>2, Holds DEF Insert
  <2>2. u \notin gone
    BY <1>2 DEF Insert, DeletionsHold
  <2>3. ASSUME NEW k \in Keys, rows'[k] # None PROVE rows'[k].file \notin gone
    <3>1. CASE rows'[k] = rows[k]
      BY <2>3, <3>1 DEF DeletionsHold, DeletedIsGone
    <3>2. CASE rows'[k] # rows[k]
      <4>1. rows'[k].file = u
        BY <1>2, <3>2 DEF Insert, NewUpload, TableTypes
      <4> QED BY <2>2, <4>1
    <3> QED BY <3>1, <3>2
  <2> QED BY <1>g, <2>1, <2>3 DEF DeletedIsGone
<1>3. ASSUME NEW d \in Deletes, DeleteFile(d)
      PROVE  DeletedIsGone' /\ \A h \in gone' : up'[h].at \in {"fill", "over"}
  <2>1. /\ del[d].key \in Keys /\ del[d].hash \in Uploads
        /\ del[d].hash \in held[del[d].key]
    BY <1>3, Holds DEF DeleteFile, DeletionsHold
  <2>2. up[del[d].hash].at \in {"fill", "over"} /\ up[del[d].hash].key = del[d].key
    BY <2>1 DEF DeletionsHold
  <2>3. gone' \subseteq gone \cup {del[d].hash} /\ UNCHANGED up
    BY <1>3 DEF DeleteFile
  <2>4. rows'[del[d].key] = None /\ \A k \in Keys : k # del[d].key => rows'[k] = rows[k]
    BY <1>3, <2>1 DEF DeleteFile, TableTypes
  <2>5. ASSUME NEW k \in Keys, rows'[k] # None PROVE rows'[k].file \notin gone'
    <3>1. k # del[d].key /\ rows'[k] = rows[k]
      BY <2>4, <2>5
    <3>2. rows[k].file \notin gone /\ rows[k].file \in held[k]
      BY <2>5, <3>1 DEF DeletionsHold, DeletedIsGone
    <3>3. rows[k].file # del[d].hash
      BY <2>2, <3>1, <3>2 DEF DeletionsHold
    <3> QED BY <2>3, <3>1, <3>2, <3>3
  <2> QED BY <1>g, <2>2, <2>3, <2>5 DEF DeletedIsGone
<1>4. ASSUME NEW old \in SUBSET Keys, Sweep(old)
      PROVE  gone' = gone /\ \A k \in Keys : rows'[k] = None \/ rows'[k] = rows[k]
  BY <1>4 DEF Sweep
<1>5. ASSUME ~UNCHANGED <<rows, gone>>
      PROVE  \/ \E u \in Uploads : Insert(u)
             \/ \E d \in Deletes : DeleteFile(d)
             \/ \E old \in SUBSET Keys : Sweep(old)
  BY <1>5 DEF Next, Upload, Get, Delete, ChooseKey, FailUpload, FillUpload, Lookup, GetFile,
     FillGet, DropCached, CheckHash, FailDelete, Expire, vars
<1>6. CASE UNCHANGED <<rows, gone>>
  BY <1>1, <1>6
<1> QED BY <1>1, <1>2, <1>3, <1>4, <1>5, <1>6

LEMMA DeletionsStep == TableTypes /\ RequestTypes /\ DeletionsHold /\ [Next]_vars => DeletionsHold'
<1> SUFFICES ASSUME TableTypes, RequestTypes, DeletionsHold, [Next]_vars PROVE DeletionsHold'
  OBVIOUS
<1>1. ASSUME NEW k \in Keys, rows'[k] # None PROVE rows'[k].file \in held'[k]
  BY <1>1, HeldGrows DEF DeletionsHold
<1> QED BY <1>1, HeldIsMade, HashWasHeld, GoneStays DEF DeletionsHold

LEMMA DeletionsAlwaysHold == Spec => []DeletionsHold
<1>1. Init => DeletionsHold
  BY DEF Init, DeletionsHold, DeletedIsGone, IdleDel
<1> QED BY <1>1, DeletionsStep, Always, PTL DEF Spec

\* A file whose deletion was answered 204 is out of the table for good, whatever else
\* is inserted, deleted or swept (uploader.go:196-224).
THEOREM DeletedStaysGone == Spec => []DeletedIsGone
<1>1. DeletionsHold => DeletedIsGone
  BY DEF DeletionsHold
<1> QED BY <1>1, DeletionsAlwaysHold, PTL

\* A file goes only by the sweep or by a hash its key has held (uploader.go:203-216).
THEOREM DeletesByHash == Spec => DeletedByHash
<1>1. TableTypes /\ RequestTypes /\ DeletionsHold /\ [Next]_vars
        => [\A k \in Keys :
              rows[k] # None /\ rows'[k] # rows[k] =>
                /\ rows'[k] = None
                /\ \/ \E old \in SUBSET Keys : k \in old /\ Sweep(old)
                   \/ \E d \in Deletes :
                        del[d].key = k /\ del[d].hash \in held[k] /\ del'[d] # del[d]]_vars
  <2> SUFFICES ASSUME TableTypes, RequestTypes, DeletionsHold, [Next]_vars,
                      NEW k \in Keys, rows[k] # None, rows'[k] # rows[k]
               PROVE  /\ rows'[k] = None
                      /\ \/ \E old \in SUBSET Keys : k \in old /\ Sweep(old)
                         \/ \E d \in Deletes :
                              del[d].key = k /\ del[d].hash \in held[k] /\ del'[d] # del[d]
    OBVIOUS
  <2>1. ASSUME NEW u \in Uploads, Insert(u) PROVE FALSE
    BY <2>1 DEF Insert, NewUpload, IsFree, TableTypes
  <2>2. ASSUME NEW d \in Deletes, DeleteFile(d)
        PROVE  rows'[k] = None /\ del[d].key = k /\ del[d].hash \in held[k] /\ del'[d] # del[d]
    <3>1. rows'[k] = None /\ del[d].key = k
      BY <2>2 DEF DeleteFile, TableTypes
    <3>2. del[d].hash \in held[k]
      BY <2>2, <3>1 DEF DeleteFile, DeletionsHold
    <3>3. del'[d] # del[d]
      BY <2>2 DEF DeleteFile, RequestTypes, IdleDel
    <3> QED BY <3>1, <3>2, <3>3
  <2>3. ASSUME NEW old \in SUBSET Keys, Sweep(old) PROVE rows'[k] = None /\ k \in old
    BY <2>3 DEF Sweep
  <2>4. \/ \E u \in Uploads : Insert(u)
        \/ \E d \in Deletes : DeleteFile(d)
        \/ \E old \in SUBSET Keys : Sweep(old)
    BY DEF Next, Upload, Get, Delete, ChooseKey, FailUpload, FillUpload, Lookup, GetFile,
       FillGet, DropCached, CheckHash, FailDelete, Expire, vars
  <2> QED BY <2>1, <2>2, <2>3, <2>4
<1> QED BY <1>1, DeletionsAlwaysHold, Always, PTL DEF Spec, DeletedByHash

-----------------------------------------------------------------------------
(* The cache of a key that has lost its file.                               *)

\* A key without a row and without an entry in Redis, where nobody is about to put one.
Cleared(k) ==
  /\ rows[k] = None /\ cache[k] = None
  /\ \A u \in Uploads : up[u].at = "fill" => up[u].key # k
  /\ \A g \in Gets : get[g].at = "fill" => get[g].key # k

\* A deletion drops the entry before the row, so a fill may bring a deleted file back
\* into Redis (uploader.go:201, 216, 258-259); but when the fills that had begun are over
\* and the entry has expired, only a new upload ends that state.
THEOREM ClearedStaysCleared ==
  Spec => [][\A k \in Keys :
               Cleared(k) => Cleared(k)' \/ \E u \in Uploads : up[u].key = k /\ Insert(u)]_vars
<1>1. TableTypes /\ RequestTypes /\ [Next]_vars
        => [\A k \in Keys :
              Cleared(k) => Cleared(k)' \/ \E u \in Uploads : up[u].key = k /\ Insert(u)]_vars
  <2> SUFFICES ASSUME TableTypes, RequestTypes, [Next]_vars, NEW k \in Keys, Cleared(k),
                      \A u \in Uploads : up[u].key = k => ~Insert(u)
               PROVE  Cleared(k)'
    OBVIOUS
  <2>1. cache'[k] = None
    <3>1. CASE UNCHANGED cache
      BY <3>1 DEF Cleared
    <3>2. ASSUME NEW u \in Uploads, FillUpload(u) PROVE cache'[k] = None
      BY <3>2 DEF FillUpload, SetRedis, Cleared, TableTypes
    <3>3. ASSUME NEW g \in Gets, FillGet(g) PROVE cache'[k] = None
      BY <3>3 DEF FillGet, SetRedis, Cleared, TableTypes
    <3>4. ASSUME NEW j \in Keys, Expire(j) PROVE cache'[k] = None
      BY <3>4 DEF Expire, Cleared, TableTypes
    <3>5. ASSUME NEW d \in Deletes, NEW j \in Keys, NEW hash \in Uploads, DropCached(d, j, hash)
          PROVE  cache'[k] = None
      BY <3>5 DEF DropCached, Cleared, TableTypes
    <3> QED BY <3>1, <3>2, <3>3, <3>4, <3>5
            DEF Next, Upload, Get, Delete, Insert, FailUpload, ChooseKey, GetFile, Lookup,
                CheckHash, DeleteFile, FailDelete, Sweep, vars
  <2>2. rows'[k] = None
    <3>1. CASE UNCHANGED rows
      BY <3>1 DEF Cleared
    <3>2. ASSUME NEW u \in Uploads, Insert(u) PROVE rows'[k] = None
      BY <3>2 DEF Insert, NewUpload, Cleared, TableTypes
    <3>3. ASSUME NEW d \in Deletes, DeleteFile(d) PROVE rows'[k] = None
      BY <3>3 DEF DeleteFile, Cleared, TableTypes
    <3>4. ASSUME NEW old \in SUBSET Keys, Sweep(old) PROVE rows'[k] = None
      BY <3>4 DEF Sweep, Cleared
    <3> QED BY <3>1, <3>2, <3>3, <3>4
            DEF Next, Upload, Get, Delete, FailUpload, FillUpload, ChooseKey, GetFile, FillGet,
                Lookup, DropCached, CheckHash, FailDelete, Expire, vars
  <2>3. ASSUME NEW u \in Uploads, up'[u].at = "fill" PROVE up'[u].key # k
    BY <2>3, FillBegins DEF Cleared
  <2>4. ASSUME NEW g \in Gets, get'[g].at = "fill" PROVE get'[g].key # k
    BY <2>4, FillBegins DEF Cleared
  <2> QED BY <2>1, <2>2, <2>3, <2>4 DEF Cleared
<1> QED BY <1>1, Always, PTL DEF Spec
=============================================================================
