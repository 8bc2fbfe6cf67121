# TLA+ for potat-api

Specifications of potat-api, their model-checking runs and machine-checked
proofs. potat-api is one Go process that serves a WebSocket feed, a pastebin
("haste"), a private file host ("uploader"), short links ("redirects") and the
HTTP API of a chat bot, over one Postgres, one Redis, one ClickHouse and a NATS
connection.

File names below are relative to the repository; `hub.go:28` is `socket/hub.go`
line 28, and so on.

## 1. The system

| Part | State it keeps | Operations | Talks to |
|---|---|---|---|
| Socket hub (`socket/hub.go`) | map of clients; unbuffered channels register, unregister, broadcast | register, unregister, fan-out, `Send` | NATS callback, every connection |
| Connection (`socket/client.go`) | `send` channel (1024), write mutex, `closeOnce`, `closeSignal`, read deadline | handler, read pump, write pump, `closeHandler` | hub, peer |
| Rate limiter (`api/middleware/ratelimit.go`) | one counter with expiry per ip, in Redis | Lua script INCR / EXPIRE / TTL | all HTTP services |
| Haste (`haste/haste.go`) | table `haste`; Redis entries (1 h) | POST, GET, raw GET | Postgres, Redis |
| Uploader (`uploader/uploader.go`) | table `file_store`; Redis entries (30 min) | upload, GET, delete | Postgres, Redis, daily sweep |
| Redirects (`redirects/redirects.go`, `api/routes/post/redirects.go`) | table `url_redirects`; Redis entries (1 h) | create, follow | Postgres, Redis |
| Background loops (`common/db/loops.go`) | cron jobs and three goroutines; tokens, duels, views, dumps, usage | hourly, daily, weekly, 30 min, 2 h, 12 h jobs | Postgres, ClickHouse, Redis, Helix, disk, NATS |
| NATS broker (`common/utils/broker.go`) | connection, subscription, the socket's callback | subscribe again, publish, ping/pong, proxy-socket, bridge requests | hub, loops |
| Startup (`main.go`) | clients of all services | start with ping and retry, serve, shut down | everything |
| User routes (`api/routes/get/user.go`, `me.go`) | the pool of connections, while a request lasts | a fan-out of reads per name | Postgres, Redis |
| Other API routes (`api/`) | route table; login states; help cache | login, help | Postgres, Redis, NATS |
| Authenticator (`api/middleware/authenticate.go`) | none | static key, JWT | Postgres |

All services run in one process and share the Redis database. Every HTTP request
and WebSocket connection has goroutines of its own, so what is hard here is
mostly the order of steps between goroutines and between two databases: caches
filled after the row they came from has changed, checks that are stale when they
are used, channels closed by one goroutine while another uses them, a slow peer
in a fan-out, jobs of cron that overlap with their own last run, results of a
call that nobody waits for any more. What survives the process is Postgres,
ClickHouse, Redis until an entry expires, and the dumps on the disk.

What makes each part correct:

* **hub and connections**: no panic on a channel; a subscriber reads an ordered
  run of broadcasts without a gap, or is dropped; no peer holds up NATS or the
  other peers; closing a connection always completes and takes it out of the hub.
* **rate limiter**: no window lets through more than the limit; every window ends.
* **haste**: an answered key has a document, the POSTed one; a key's document
  never changes; the cache cannot be noticed.
* **uploader**: only files that were uploaded under a key are served for it; only
  the hash of an upload deletes; a deleted file is gone, from Redis too in the end.
* **redirects**: an answered key leads to the posted URL, always by https; links
  do not change; a new URL gets a new key.
* **token loops**: whatever runs overlap, the token Twitch honours is not lost
  between Twitch and the table; a row never goes back; every run ends.
* **backups**: no rotation takes one of the newest dumps; dumps do not pile up; a
  dump that is announced as good is good.
* **statistics**: a badge table holds its rows once for each overlapping run at most.
* **startup and shutdown**: the servers start on clients that have answered; a ping
  that timed out is tried again; `main` hangs on nothing; an orderly shutdown
  leaves nothing open.
* **broker**: the hub gets each message of the bot once and in order, whatever
  becomes of the connection.
* **users**: an answer has each name once with the rows there are; it comes even if
  its reads have to share one connection.

The hazards of the code, each with its line and the properties that watch it,
are listed in `PROJECT.json`.

## 2. The modules

| Module | Models | Kind |
|---|---|---|
| `Broadcast` | what the hub promises its subscribers | abstract specification |
| `SocketHub` | `hub.go`, `client.go` | detailed, implements `Broadcast` |
| `MCSocketHub` | symmetry and view for TLC | MC module |
| `RateLimiter` | `ratelimit.go` | detailed |
| `MCRateLimiter` | a single and a double chain of limiters | MC module |
| `WriteOnce` | what a store of links promises its readers | abstract specification |
| `Haste` | `haste.go` and its queries | detailed, implements `WriteOnce` |
| `Uploader` | `uploader.go`, its queries, `deleteOldUploads` | detailed |
| `Redirects` | both `redirects.go`, their queries | detailed, implements `WriteOnce` |
| `Tokens` | the token jobs of `loops.go`, `requests.go`, the pool, the end of the process | detailed |
| `Loops` | the backups and the statistics of `loops.go` | detailed |
| `MCLoops` | symmetry and view for TLC | MC module |
| `Startup` | `main.go`, the connection and subscription of `broker.go` | detailed |
| `Users` | `GET /users`, its queries of `postgres.go`, the pool | detailed |
| `SocketHubProofs`, `RateLimiterProofs`, `UploaderProofs`, `RedirectsProofs`, `TokensProofs`, `LoopsProofs`, `StartupProofs` | theorems about the module of that name | proofs |
| `HandlerProofs` | theorems about `Haste` and `Users`, which it extends both | proofs |

Definitions whose comment begins with "Mutant:" are no part of a specification.
Each is a definition of the code with a plausible mistake in it; put in place of
the original it makes TLC find a property violated, which shows that the property
can fail. `PROJECT.json` pairs them.

### SocketHub

A connection `c` has three goroutines, and `pc[c]` says where each of them is:
the HTTP handler (`serveWs`: upgrade, register, hello), the read pump and the write
pump. The hub is a fourth, with its map `clients` and `todo`, what is left of the
fan-out under way: the loop of hub.go:34 is one step per client, in any order, and
nothing else reaches the hub until it is done. The NATS callback is a fifth.

* The hub's channels are unbuffered, so sending and receiving are one step:
  `HubRegister`, `HubUnregister`, `HubReceive`. A client's `send` is a sequence of
  at most `Cap` messages with a flag for "closed". `panicked` records a send on a
  closed channel, and a second close, which end a Go process.
* `sendMessage` is two steps: `Lock` takes the write mutex, `WriteFrame` is
  `conn.WriteMessage` and its release. In between the write may hang, as there is
  no write deadline (`writeWait` is declared and not used), and after a failure
  every later write fails, as gorilla/websocket does it. `AfterWrite` says where
  each caller goes on; so a write pump whose broadcast fails just returns
  (client.go:130-133).
* `closeHandler` is three steps: `CloseBegin` (the first caller closes
  `closeSignal` and blocks on unregister), `HubUnregister`, `CloseConn`;
  a second caller waits in `closeOnce.Do` (`CloseReturn`). The `break` of
  client.go:174 leaves the select only, so a read pump that failed goes on to
  check `closeSignal`.
* `hub.Send` reads `len(h.clients)` without a lock. `SendCheck` lets it go on if it
  may have seen a non-empty map: if the map was non-empty at the last rendezvous
  with the hub, or has become so since. If it may also see an empty one it drops
  the message, which changes nothing here.
* A message is the number of its broadcast. `joined` and `wire` are histories.

### RateLimiter

One step of the Lua script is one step here, as it is in Redis. A request behind
several limiters (the uploader's 200 and 15, or 200 and 25) evaluates it once for
each, with the same key, and other requests run in between. `Tick` is Redis' clock;
when `ttl` gets to 0 the key is gone. The histories `passed` and `nested` count
what got through in the current window: `passed[ip][l]` all passes through limiters
of at most `l`, `nested[ip][l]` the requests that passed both of theirs in this
window. The key is the CF-Connecting-IP header, else the remote address with its
port; "ip" stands for either.

### Haste, Uploader, Redirects

A request is a record with a place `at`, and each call it makes to Postgres or
Redis is a step, which may fail. Setting Redis is a step after the row was read,
because the code does it in a goroutine. `Expire` may take any entry at any time:
entries have a time to live, and Redis may drop them earlier. `served` records what
clients were given.

`Haste`: `ChooseKey` is the turn of chooseKey's loop that finds a free key, `Store`
is `INSERT ... ON CONFLICT DO NOTHING`. `Binary` are the bodies that are not UTF-8:
Postgres stores them and cannot give them back (`convert_from`), so they are never
served. The key is stored as its MD5, which is taken to be one-to-one.
`access_count` is left out; nothing reads it.

`Uploader`: an upload stands for its file and for its deletion hash, which the code
makes of the key and the row's creation time. `Row` has the two text columns and
`Texts` says what ends up in them. `Sweep` may take any rows: it over-approximates
"older than 30 days", which keeps time out of the model. Keys may be drawn again.

`Redirects`: a URL is a scheme (`https`, `http`, or none), whether `//` follows, and
the rest; that is all the two normalisations look at. The table may hold any URLs
at first, as rows predate this code. `ChooseKey` returns keys that exist, as
`generateUniqueKey` does.

### Tokens

A run of `validateTokens` or `refreshAllHelixTokens` is at a place `at`: waiting for
its query, between rows, validating, refreshing, storing. Its rows are a snapshot of
the table (`snap`), as Postgres gives it, and they keep a connection of the pool out
(`used`) until the run is over, while each upsert needs another for one statement.
Cron starts runs whether or not others are going; `Validations` and `Refreshes` are
those that may overlap.

* A token pair is the number of its refresh token. Access tokens may expire at any
  time and Twitch may answer with any status, so `Validate` may have either outcome.
* Twitch replaces the refresh token of the accounts in `Rotating` with every refresh
  and honours the last one only; it never replaces those of the others. `Revoke` is
  the user's doing.
* `refreshOrDelete` has four outcomes: `Refreshed`, then one of the three of
  `Upsert`; `Refused`; `Unread` (an answer of 200 that cannot be decoded); and
  `Panic`: `RefreshHelixToken` reads `res.StatusCode` before it looks at `err`
  (requests.go:210-216), so a call that fails ends the process. It never deletes,
  whatever its name and the counters in the log say (loops.go:476, 545).
* `Restart` is any end of the process: `Kill` at any time, `Panic`, and `Exit` after
  a shutdown. `Shutdown` is `main` arriving in `postgres.Close()`, which rejects who
  asks for a connection (`StoreRejected`) and waits for those that are out.
* `lost` is a history: the accounts of which Twitch has issued a token that was
  dropped. Their rows are spent from then on.

### Loops

Two jobs that share nothing, in one module because they have the same hazards: a run
may overlap with the next one, each of its calls may fail, and the process may end
between two of them (`Restart`).

* A backup `b` is at a place `at[b]`. `List` is `Glob` with what `deleteOldDumps`
  picks from it, which is kept in `doomed[b]` and removed one file at a time
  (`Remove`) while other backups list, remove and write. `Dump` is the shell that
  opens the file, `DumpEnds` its end, `Report` the statistics and the message.
* A dump is its number. The rotation goes by the order of the list, and `sortFiles`
  leaves it as it is: it calls `os.Stat` for `dump/` and a path that begins with
  `dump/` already, which fails for every pair, so that nothing compares as smaller.
  What decides is the order of the names `Glob` returns, and the names contain the
  time. (The sort is not a stable one; up to 12 elements it is insertion, which keeps
  the order. More than that need removals to have failed.)
* The status of `pg_dump | zstd > file` is that of zstd, so a failure of `pg_dump`
  looks like success; `good` has the dumps that are whole. `announced` and `stuck` are
  histories. A dump's shell is not killed with the process, so `Restart` may still
  leave a good file.
* The half-hourly job goes through its tables in order: the colours are table 1, the
  three badge tables are made alike. `copies[v]` counts how often the badge table
  holds its data. A TRUNCATE that fails may have been done; the job then leaves the
  table, and an INSERT that fails leaves it empty.

### Startup

`at` is where `main` is: at the client it starts, serving, closing one client after
the other, or in its deferred calls. `config` is any subset of the API, the loops,
NATS and the socket: these decide which clients there are and what happens to them.

* `runWithTimeout` is `Create` (the first attempt), `Answer` and `Put` (the goroutine of
  an attempt: the ping returns, then its result goes into `done`, which has one place),
  `Expire` (the context of the last attempt), and the two cases of the select,
  `TakeResult` and `TakeTimeout`. The goroutines of earlier attempts live on. Redis has
  one ping and no retry (`CreateRedis`), NATS one connect (`CreateNats`).
* `logger.Error.Panicln` in `main` is a panic in its goroutine: the deferred `Drain`
  and `cancel` are next (`Defers`), then the process ends. A panic of another goroutine
  ends it at once: `NilNats`, as the socket and the backups call a NATS client that is
  nil when NATS is not configured (hub.go:86, loops.go:677).
* `ServerFails` is a server that returns from `ListenAndServe`, `Signal` is SIGINT or
  SIGTERM. The four `Close...` steps are in the order of main.go:131-145; a client that
  refuses ends the shutdown in a panic.
* `broker` is the goroutine of `CreateNatsBroker`: it subscribes and waits for the end
  of `main`, or sleeps five seconds and tries again on the same connection. `Link` is
  what nats.go does of itself: a connection is lost, made again with its
  subscriptions, or closed for good after 60 attempts. Messages of the bot go to
  each subscription; `HandleMessage` gives them to the hub once the socket has set
  its callback (`ServeSocket`). Pings and pongs are answered and leave no state.

### Users

One request for the names `Names`. `at[p][f]` is where the read `f` of the name `p` is:
the three tables and the cooldowns are read in a goroutine each (user.go:188-314), and
below the channel there are two more, for its lists (postgres.go:364-382), which
start once its row was read and are waited for in `Join`. A read waits for a connection
(`Acquire`), keeps it for one statement, and comes to a row, none, an error, or, for
the commands, a part (`rows.Err` is not asked for). Redis has no pool worth modelling:
a cooldown is one step. `LoadUser` is `wg.Wait` with the answer for the name put on
the channel, which `Close` closes after the last one; `Collect` and `Respond` are the
handler. `MaxConns` is the size of the pool. (`UsersInit`, `UsersNext`, `UsersSpec` and
`UsersTypeOK` bear the module's name because `HandlerProofs` extends `Haste` too.)

## 3. The runs

| Run | Instance | Checks | Shows |
|---|---|---|---|
| `SocketHub` | 1 talking client, Cap 1, 3 broadcasts, fair | TypeOK, InOrder, SenderNeverStuck, CloseCompletes, TtlHonoured, PongedPeerCloses | streams have no gaps: `SocketHub` implements `Broadcast`; nothing waits for ever that should not |
| `SocketHubTwo` | 2 silent clients, Cap 1, 2 broadcasts | NoPanic, ClosedMeansForgotten | no order of drop, close and unregister panics |
| `RateLimiter` | 1 ip, 3 requests, limits 5 and 5-then-3, window 2, fair | TypeOK, WindowBound, NestedCountTwice, WindowEnds | limits hold in every window |
| `Haste` | 2 keys, 3 bodies (1 binary), 2 POSTs, 2 GETs, fair | TypeOK, AnsweredIsStored, CacheInvisible, PostEnds | implements `WriteOnce`; POSTs end |
| `Uploader` | 1 key, 2 uploads, 2 deletions, 1 GET, fair | TypeOK, ServedWasHeld, DeletedIsGone, DeletedByHash, DeletedExpires | who can delete what, and what stays |
| `Redirects` | 2 keys, 1 host, 2 POSTs, 1 GET | TypeOK, KeyLeadsToUrl, CacheInvisible | implements `WriteOnce` |
| `Tokens` | 2 accounts (1 rotating), 1 validation, 1 refresh, pool of 3, fair | TypeOK, InReach, RowsMoveForward, RunsEnd, ShutdownEnds | overlapping runs lose no token; nothing waits for the pool for ever |
| `Loops` | 2 backups, MaxSize 3, 7 dumps; 2 runs of the job, 2 tables, 3 copies | TypeOK, DumpsBounded, OneCopyEach, KeepsNewest | stale lists remove nothing new; tables are filled only when emptied |
| `LoopsBackup` | 1 backup, MaxSize 2, 3 dumps; 1 run of the job | SuccessMeansGood (violated) | finding 2 |
| `Startup` | all 16 configurations, 3 attempts, 3 messages, fair | ServesAnswered, LeavesNothingOpen, ProxiedOnce, MainGoesOn | `main` serves on answers only, hangs on nothing, leaves nothing open |
| `StartupRetry` | all 16 configurations, 3 attempts, no messages | OwnVerdict (violated) | finding 1 |
| `Users` | 2 names, 1 of them in all tables, 1 cooldown, a pool of 1, fair | UsersTypeOK, AnswerTrue, AnswerEnds | the fan-out loses no row and does not block itself |

Bounds, and why they are enough:

* `Cap` and `MaxMsgs`: a channel of 1 is full after 1 message, with one more in the
  pump's hand; the third broadcast finds it full and drops the client, which is the
  longest story a broadcast can begin. The proofs are for every `Cap`.
* `Talkers`: the connections whose peers send data or pongs. In the two-client run
  there are none, which keeps it small; sending data only adds another goroutine
  that calls `closeHandler`, and the one-client run and the proofs have it.
* Two clients meet only in the hub: its map, its fan-out, the order of its
  rendezvous. The view of `SocketHubTwo` leaves out which number a message has and
  the histories, which no guard and neither of its properties looks at; its symmetry
  swaps clients, of which none is special in that run.
* `MaxCount`: the counter saturates above every limit, where counts are not told apart.
* Callers, keys of the uploader and connections of different clients do not share
  anything but what the runs have; two requests are enough for every check-then-act.
  `Posts` of haste does not exceed `Keys`, so that a key is always free.
* `Tokens`: two overlapping runs are what the schedule starts at every even hour;
  three tokens per account let each of them refresh and store. The pool has one
  connection more than there are runs, the least with which `RunsEnd` can hold: with
  as many runs as connections each would wait for its second. The code has 32 and
  starts at most three runs in two hours.
* `Loops`: with a rotation from three dumps on, seven dumps let both backups rotate
  several times on lists that have gone stale; the code has 10 and needs no more to go
  wrong. `MaxCopies` is one more than `OneCopyEach` allows. The runs of each kind are
  alike, which is the symmetry; the view leaves out which dumps are good and which
  were reported, which nothing in that run looks at but `TypeOK`, whose part about
  them is proved in `LoopsProofs`.
* `Startup`: three attempts are the code's. Three messages, of which one may be in the
  inbox when the connection is lost and one arrive when it is back, are enough for an
  order. `ServesAnswered` and the rest are proved for any number of either.
* `Users`: a pool of one is the hardest, and one name with rows and one without have
  all the outcomes a read can have; a second cooldown would only be another read.

Deadlock is not checked where the modelled thing really ends: `Startup` (the process)
and `Users` (one request).

Fairness, and why the code justifies it:

* `SocketHub`: Go's `select` chooses at random among ready cases, and `sync.Mutex`
  hands over to a starving waiter: strong fairness for the hub's rendezvous, for the
  TTL and the close signal in the write pump, and for `Lock`. Goroutines that are
  ready run: weak fairness elsewhere. Nothing is assumed of peers: a write to an
  open connection may hang for ever, and only a broken or closed one makes it
  return. A read returns when the connection is closed, or when a pong's deadline
  passes while no ping goes out to be answered. `TtlHonoured` and
  `PongedPeerCloses` say themselves that they need `PeersRead`.
* `RateLimiter`: only time passes by itself.
* `Haste`: a request that may insert does; `RandomString` is random, so each key is
  drawn again and again (strong fairness of `ChooseKey`).
* `Uploader`: started requests go on, entries of Redis expire.
* `Tokens`: a call to Twitch is over after ten seconds (requests.go:68-70); handlers
  give connections back; the pool serves who waits in turn, so a connection that
  becomes free again and again is got (strong fairness of `Query` and `Store`).
* `Startup`: `main` goes on with what it can do, a context of one second is over after
  one, the calls that connect have timeouts of their own. Not assumed: that a ping ever
  returns, that a server ever ends, that a signal ever comes, that NATS comes back.
* `Users`: some goroutine that can go on does, and a statement that has its connection
  ends. Not assumed: that waiting for a connection ever fails.

## 4. Findings

1. `OwnVerdict` (`StartupRetry`): the attempts of `runWithTimeout` share one channel.
   When an attempt has timed out, its ping returns the context's error a moment
   later, and the next attempt takes that for its own result (main.go:158-162): a
   ping that timed out is announced as retried, and the start fails all the same.
2. `SuccessMeansGood` (`LoopsBackup`): a failure of `pg_dump` is hidden by the pipe
   (loops.go:615), so a broken dump is announced as "Database back-up successful"
   (loops.go:663) and takes a place in the rotation: ten of them push out the last
   good one.

Met while modelling, without a run of their own:

* Haste: two POSTs that choose the same free key are both answered 200 and the second
  document is lost, as postgres.go:624 does nothing on a conflict and reports no
  error. A body that is not UTF-8 is accepted and can never be read (postgres.go:601).
* Uploader: uploader.go:169-170 passes type and name in the wrong order, so once Redis
  has forgotten a file its Content-Type is its file name. A deletion may remove a later
  upload under the same key (uploader.go:203-216), which `DeletedByHash` allows and
  nothing more. The key's authenticator is made with a nil function
  (uploader.go:93), which a request without the key would call.
* Redirects: `generateUniqueKey` has its test the wrong way round
  (post/redirects.go:93). No new URL can be shortened: the POST is answered 500, or
  never while the table is empty.
* Rate limiter: a route behind two limiters has half its inner limit
  (`NestedCountTwice`).
* Hub: a peer that never answered a ping keeps its connection when the write pump has
  quit (client.go:130-133).
* Tokens: a call to Twitch that fails in `RefreshHelixToken` is a nil dereference that
  ends the process (requests.go:210). `refreshOrDelete` deletes nothing, the log
  counts as "expunged" what is still there (loops.go:545) and, as `InReach` shows with
  the mutant `RefusedDeletes`, must stay there, as a refusal may be due to an old
  snapshot. main.go:5 promises graceful shutdowns, but the closed pool refuses the
  upserts of a run under way, which goes on to refresh tokens it cannot store
  (loops.go:398-404).
* Other loops: `Scan` begins with a cursor of 0, which ends its loop before the first
  turn (redis.go:50), so `decrementDuels` finds no key and returns for good
  (loops.go:111-120). `updateColorView` fills its table again without emptying it
  (loops.go:222-243). `sortFiles` compares the times of files that do not exist.
* Shutdown: a signal while NATS is away ends in a panic, as the deferred `Drain` fails;
  `Drain` is asynchronous, so the process ends before it has flushed. With the loops
  and without the API, ClickHouse stays open (main.go:132). The socket or the backups
  without NATS end the process (hub.go:86, loops.go:677).
* Broker: a NATS connection that was closed is never replaced: `subNatsStream` is tried
  on it every five seconds for good. `BridgeRequest` makes a connection for each request
  and never closes it.
* Users: there is no comma after `user_id` in the query of the blocks
  (postgres.go:184), so it has four columns for five variables and a channel's blocks
  are always empty. A list that breaks off looks like a whole one, and a cooldown that
  could not be read counts as ready. Whether a request for several names is answered 200
  or 404 depends on which of them was put together first (user.go:390).
* Help: a hit of the cache shows the commands the miss had filtered out.
* Login: the code that would store a user or a token is commented out
  (login.go:153-160).

## 5. The proofs

All are for every value of the constants, under the modules' named assumptions only
(for instance: `Cap` is a positive number, `Requests` is finite, limits are positive);
one theorem, `ChoosersHaveKeys`, states its condition itself.

Liveness under fairness cannot be proved with this prover. Where a liveness property
rests on a fact about states or single steps, that fact is a theorem: nothing is ever
lost that the property waits for, or what moves only moves towards its end. The
theorems say below of which property they are the safety half. What is left of it is
that steps which can be made are made, which the fair runs check.

**SocketHubProofs.** `TypeCorrect` comes first. The control part has an inductive
invariant that ties each client's membership in the hub to its goroutines: a client
in `clients` has registered and its channel is open; one that has registered and is
not in `clients` has a closed channel; `todo` is part of `clients`; a closed
connection has been unregistered. `NoPanic` alone is not inductive: that the
channel of an offered client is open follows from `todo \subseteq clients`, that the
channel an unregister closes is open from membership. From it follow
`HubNeverPanics` and `ClosedIsForgotten`. The stream part adds, per client, that
what is on the wire, in the pump's hand, in the channel and still to be offered are
consecutive numbers from `joined + 1` on, up to `seq` while the client is in the
hub. That gives `LagIsBounded` (count them; it has no run of its own) and
`SubscribersReadInOrder`: a write puts the next number on the wire, which is
`Broadcast`'s `Deliver`; every other step is `Publish`, `Join` or a stutter.
`NoConnectionIsAbandoned` is the safety half of CloseCompletes, TtlHonoured and
PongedPeerCloses: until somebody calls `closeHandler`, the read pump is there, which the
end of the connection wakes; a write pump that has quit left a connection that failed or
a client the hub had dropped; and who has begun to close is at work on it. It is
inductive on top of the control part, as a broken connection never becomes whole and a
closed channel is never opened again (`EndsStay`).

**RateLimiterProofs.** `WindowBound` needs that every pass was counted:
`passed[ip][l] <= count[ip]`. A pass at limit `l` finds a count of at most `l`.
`NestedCountTwice` needs that requests do not share counts: twice the nested ones,
plus the requests between their two limiters (a finite set, whose cardinality the
proof tracks), is at most the count. `WindowNotProlonged`, the safety half of
WindowEnds, is about steps: a key's time only runs down, and its count is reset only
when the time is over, so a caller that keeps asking does not lock himself out.

**HandlerProofs, Haste.** `RowsGrow`: no step changes or removes a row. So what Redis holds,
*and what a pending fill is about to put there*, equals the table (`CacheTruthful`;
without the second half it is not inductive), and every answer is a read of
`WriteOnce`. `ChoosersHaveKeys` is the safety half of PostEnds, if there are no more
POSTs than keys: no more keys have documents than POSTs have ended (`KeysLeft`), so while
one is choosing, a key is free, and the loop of `chooseKey` can find it.

**HandlerProofs, Users.** The invariant `UsersInv` has three parts. `ReadsOK`: a read is
only in the states its code has, the lists of a channel have begun only if its row was
read, and a channel is complete only when they are over. `Collected`: an answer
is on the channel or collected, never both and never twice, because the names of both
together are those sent and are as many; who has sent has all its reads over, and a read
that is over does not change any more. The pool's limit is in the types: a step gives
at most one more connection out, and that of the channel gives its own back before it
begins the two lists. `AnswersAreTrue` follows, as what was put together when the reads
were over is still what they say (`HeldStep`, `CollectedStays`, `CollectedGrows`).
`NoRequestIsStuck` is the safety half of AnswerEnds: in every state before the answer
some read holds a connection and can end, or waits and there is one free, or a
goroutine has all it waits for. It holds for a pool of any size, since no read that
waits for others keeps a connection.

**RedirectsProofs.** The same argument with a conversion in between: no step changes
a row, and what is in Redis or about to be put there is the clean form of the row
(`CacheTruthful`), so a hit and a miss are the same read of `WriteOnce`.
`KeyLeadsToUrl` follows from the rows that stay: a key is answered only after the
URL was found under it or has been inserted.

**UploaderProofs.** Here rows do go, so the cache is not the table. `FromTable`: what
Redis holds, what was served and what a pending fill has in hand was in the table
under that key at some time, which the history of rows says; `ServedWasHeld` follows.
`DeletionsHold` is the invariant behind `DeletedIsGone`: an upload has one key and is
made once, so a file whose deletion was answered 204 cannot come back. `DeletedByHash`
is about single steps and needs from it that the hash a deletion was accepted with is
that of a file its key has held. `ClearedStaysCleared` is the safety half of
DeletedExpires: a fill that was under way can bring a deleted file back to Redis, but
once no fill is and the entry has expired, only an upload ends that.

**TokensProofs.** `TypeCorrect` counts the connections: those out of the pool are one
per open run (a finite set, whose cardinality each step changes by at most one) and
those of the handlers. `InReach` is not inductive alone: that a token about to be
stored is still the newest needs that nobody else could have used the one it
replaces. The invariant `Grants` orders the numbers, for every account: snapshots are
no newer than the row, the row no newer than what Twitch issued last; a run that has
a token of a rotating account has the last one, the row is older, and the run is
alone. So whoever Twitch honours has a snapshot equal to the row, and nobody is
storing. `GrantsInReach` and `RowsNeverGoBack` follow. The safety half of RunsEnd and
ShutdownEnds is in two theorems. `RunsLeaveRoom`: while no handler has a connection, one
is free, as there are fewer runs than connections, so runs do not wait for each other
in a circle. `RunsGoForward`: a run that has its rows never does one of them twice,
so it has finitely many steps to make.

**LoopsProofs.** `KeepsNewest` must survive lists that are out of date.
`Outnumbered`: each file on any backup's list has `MaxSize - 1` newer ones in the
directory. Another rotation removes files too, and the step that keeps the
invariant is the one where it removes one of those newer ones: that file has
`MaxSize - 1` newer ones itself, and they are newer than the first as well. So files
leave in an order that never touches the newest. `OneCopyEach` follows from
`CopiesCounted`: the copies in a table, and the runs that have emptied it and not yet
filled it, are together at most the number of runs.

`DumpsStayBounded` has to count dumps although overlapping backups each remove what
their own old list says, and two lists may name the same file, which then makes room
once and is counted on twice. `Left(b)` are the dumps there will be when `b` is through
with its list. That each ready backup leaves room for itself is not inductive; that
each leaves room for all is false. `RoomLeft` lies between: of any set of ready backups,
*one* leaves room for the dumps of the whole set. It is the one that listed last, but
no order has to be remembered: a backup that has just listed leaves `MaxSize` dumps at
most (`DoomedEnough`), which is room for all; and where the one that dumps is the witness,
its list is done, so it leaves all the dumps there are, and any other of the set leaves no
more and is a witness as well (`DumpTakesRoom`).

**StartupProofs.** `OthersAnswered`: of the clients that are open, only the one `main`
is starting may not have answered. `OpenAt`, `NotBegun` and `NatsLeft` say for each place of
`main` which clients are open and what has become of NATS. `Ordered` says that what
was given to the hub, followed by the inbox, is an increasing sequence of numbers up
to `sent`; it holds because there is at most one subscription, which is tied to the
place of the broker's goroutine. `MainGoesForward` is the safety half of MainGoesOn:
each step of `main` takes it to a later place or to the next attempt at the same client,
or lets an attempt expire, so there are only so many.

Every invariant and every action property that a passing run checks is a theorem. Only
model-checked: the liveness properties, as the prover does not do fairness (WindowEnds,
PostEnds, SenderNeverStuck, CloseCompletes, TtlHonoured, PongedPeerCloses,
DeletedExpires, RunsEnd, ShutdownEnds, MainGoesOn, AnswerEnds). SenderNeverStuck has no
safety half of its own: that the hub gets round to the callback is all fairness.

## 6. Not modelled

* Formatting, JSON, logging, metrics, static files, multipart parsing and the
  uploader's static key: no property here depends on them.
* Time, except as order: time to live is "may expire", the 30 days of the sweep are
  "may be taken".
* Crash of the process in the services and the hub: the tables are all that is left; a
  request that ends between two calls is one that fails there, which the models have.
  `Tokens`, `Loops` and `Startup` have the end of the process.
* Of the token jobs: an account whose refresh token Twitch replaces at some refreshes
  and not at others. A late run could then put a spent token back; the code relies on
  Twitch here. Rows that other programs write to `connection_oauth`.
* The Redis database as one that is shared. Haste, the uploader and the redirects put
  their keys there without a prefix (redirects.go:110), and nothing in the code keeps
  them apart, so no property could hold; each service is modelled with entries of its
  own, which is what it is meant to have.
* The remaining loops: the usage resets and `updateAggregateTable` are one statement each
  on a timer, and `decrementDuels` ends in its first turn (section 4).
* `GET /twitch/me`, one read for the user the authenticator has found; the queries
  `GetUserByInternalID` and `BatchUserConections`; `BridgeRequest`.
* The authenticator: a comparison, or a library's check of a JWT and one query, with no
  state. The login, which ends before it has an effect. The help route: one cached value.
* Emote normalisation and the small helpers: conversions of data, of which the modelled
  parts use `RandomString` only (any key). `BatchLoadStvData` has no caller.
* The configuration, the logger, the types, and the browser's part of haste.

## 7. What is left

1. The login with the authenticator, once a login has an effect again: states used
   once, the token stored before the answer.
2. The shared Redis, once its keys have prefixes: a service serves what is in its own
   table.
3. Operators for emote normalisation and `Humanize`, against reference definitions.
