------------------------------- MODULE Startup -------------------------------
(* main.go: main starts the clients one after the other, pings Postgres and *)
(* ClickHouse with a timeout and retries (runWithTimeout), serves until a   *)
(* signal or the error of a server, and closes what it has opened; with the *)
(* NATS client of common/utils/broker.go, whose goroutine keeps the process *)
(* subscribed to the messages of the bot.                                   *)
(*                                                                          *)
(* A panic of main runs its deferred calls and then ends the process, one   *)
(* of another goroutine ends it at once. What the servers do is in their    *)
(* own modules; a start and an end is what main sees of them.               *)
EXTENDS Naturals, Sequences

CONSTANTS
  MaxAttempts,  \* pings of runWithTimeout (3 in the code)
  MaxMsgs,      \* bound on the messages the bot sends to the clients of the socket
  None          \* no result

ASSUME AttemptsAssumption == MaxAttempts \in Nat \ {0}
ASSUME MaxMsgsAssumption == MaxMsgs \in Nat

Parts == {"api", "loops", "nats", "socket"}

\* nats.Connect is the last place of the start.
Starting == {"postgres", "redis", "clickhouse", "nats"}

VARIABLES
  config,    \* what the configuration enables
  at,        \* where main is
  exit,      \* how the process has ended, or is ending
  open,      \* clients that are open
  answered,  \* history: clients that have answered a ping
  attempt,   \* number of the ping main waits for, 0 before the first
  ping,      \* what each ping of the client at hand does
  done,      \* channel of the pings' results, of one place
  expired,   \* the context of the last ping is over
  verdict,   \* result runWithTimeout has returned
  nats,      \* connection to NATS
  broker,    \* where the goroutine of the broker is
  subs,      \* subscriptions it has made
  hook,      \* the socket has given its hub.Send to the broker
  sent,      \* messages published
  inbox,     \* messages received and not yet handled
  proxied    \* history: messages given to the hub

pingVars == <<attempt, ping, done, expired>>
brokerVars == <<nats, broker, subs, hook, sent, inbox, proxied>>
vars == <<config, at, exit, open, answered, pingVars, verdict, brokerVars>>

Attempts == 1..MaxAttempts

\* Clients whose first answer main waits for with runWithTimeout.
Pinged == {"postgres", "clickhouse"}

Running == at # "over"

Init ==
  /\ config \in SUBSET Parts
  /\ at = "postgres" /\ exit = "" /\ open = {} /\ answered = {}
  /\ attempt = 0 /\ ping = [a \in Attempts |-> "off"]
  /\ done = None /\ expired = FALSE /\ verdict = None
  /\ nats = "none" /\ broker = "off" /\ subs = 0 /\ hook = FALSE
  /\ sent = 0 /\ inbox = <<>> /\ proxied = <<>>
-----------------------------------------------------------------------------
(* main: the start                                                          *)

\* What follows a client; initClickhouse returns at once without api and loops.
After(place) ==
  CASE place = "postgres" -> "redis"
    [] place = "redis" /\ config \cap {"api", "loops"} # {} -> "clickhouse"
    [] OTHER -> IF "nats" \in config /\ place # "nats" THEN "nats" ELSE "serving"

\* logger.Error.Panicln: the deferred calls are next.
Panics == at' = "defers" /\ exit' = "panic"

\* InitPostgres and InitClickhouse connect to nothing yet.
Create ==
  /\ at \in Pinged /\ attempt = 0
  /\ \/ open' = open \cup {at} /\ attempt' = 1
        /\ ping' = [ping EXCEPT ![1] = "asking"]
        /\ UNCHANGED <<at, exit>>
     \/ Panics /\ UNCHANGED <<open, attempt, ping>>
  /\ UNCHANGED <<config, answered, done, expired, verdict, brokerVars>>

\* InitRedis and one ping.
CreateRedis ==
  /\ at = "redis"
  /\ \/ open' = open \cup {at} /\ answered' = answered \cup {at}
        /\ at' = After(at) /\ UNCHANGED exit
     \/ Panics /\ (open' = open \cup {at} \/ UNCHANGED open) /\ UNCHANGED answered
  /\ UNCHANGED <<config, pingVars, verdict, brokerVars>>

\* CreateNatsBroker: one nats.Connect, and the goroutine of the subscription.
CreateNats ==
  /\ at = "nats"
  /\ \/ nats' = "up" /\ broker' = "subscribe" /\ at' = After(at) /\ UNCHANGED exit
     \/ Panics /\ UNCHANGED <<nats, broker>>
  /\ UNCHANGED <<config, open, answered, pingVars, verdict, subs, hook, sent, inbox, proxied>>

\* A ping ends, in time or not: pgx and ClickHouse return the context's error.
Answer(a) ==
  /\ Running /\ ping[a] = "asking"
  /\ \/ ping' = [ping EXCEPT ![a] = "error"]
     \/ ~expired /\ a = attempt /\ ping' = [ping EXCEPT ![a] = "ok"]
  /\ UNCHANGED <<config, at, exit, open, answered, attempt, done, expired, verdict, brokerVars>>

\* done <- f(attemptCtx)
Put(a) ==
  /\ Running /\ ping[a] \in {"ok", "error"} /\ done = None
  /\ done' = [from |-> a, answer |-> ping[a]]
  /\ ping' = [ping EXCEPT ![a] = "over"]
  /\ UNCHANGED <<config, at, exit, open, answered, attempt, expired, verdict, brokerVars>>

\* A second has passed since the last ping began.
Expire ==
  /\ at \in Pinged /\ attempt > 0 /\ ~expired
  /\ expired' = TRUE
  /\ UNCHANGED <<config, at, exit, open, answered, attempt, ping, done, verdict, brokerVars>>

\* The next client has a channel of its own.
Forget ==
  /\ attempt' = 0 /\ ping' = [a \in Attempts |-> "off"]
  /\ done' = None /\ expired' = FALSE

\* case err := <-done: whichever ping it is from.
TakeResult ==
  /\ at \in Pinged /\ done # None
  /\ verdict' = [from |-> done.from, attempt |-> attempt, answer |-> done.answer]
  /\ IF done.answer = "ok"
       THEN answered' = answered \cup {at} /\ at' = After(at) /\ UNCHANGED exit
       ELSE Panics /\ UNCHANGED answered
  /\ Forget
  /\ UNCHANGED <<config, open, brokerVars>>

Retry ==
  /\ attempt' = attempt + 1
  /\ ping' = [ping EXCEPT ![attempt + 1] = "asking"]
  /\ expired' = FALSE
  /\ UNCHANGED <<at, exit, done>>

\* Mutant: the last timeout starts the attempts from the beginning.
TimeoutUncounted ==
  /\ at \in Pinged /\ expired
  /\ IF attempt < MaxAttempts
       THEN Retry
       ELSE Forget /\ UNCHANGED <<at, exit>>
  /\ UNCHANGED <<config, open, answered, verdict, brokerVars>>

\* Mutant: lastError is not set, so that no answer at all is taken for a good one.
TimeoutForgiven ==
  /\ at \in Pinged /\ expired
  /\ IF attempt < MaxAttempts
       THEN Retry
       ELSE at' = After(at) /\ Forget /\ UNCHANGED exit
  /\ UNCHANGED <<config, open, answered, verdict, brokerVars>>

\* case <-attemptCtx.Done()
TakeTimeout ==
  /\ at \in Pinged /\ expired
  /\ IF attempt < MaxAttempts THEN Retry ELSE Panics /\ Forget
  /\ UNCHANGED <<config, open, answered, verdict, brokerVars>>
-----------------------------------------------------------------------------
(* main: serving and closing                                                *)

\* StartServing of the socket, which gives the broker its hub.
ServeSocket ==
  /\ at = "serving" /\ "socket" \in config /\ "nats" \in config
  /\ hook' = TRUE
  /\ UNCHANGED <<config, at, exit, open, answered, pingVars, verdict,
                 nats, broker, subs, sent, inbox, proxied>>

\* Without NATS the socket and the backups call it on nil, off main's goroutine.
NilNats ==
  /\ at = "serving" /\ "nats" \notin config /\ config \cap {"socket", "loops"} # {}
  /\ at' = "over" /\ exit' = "crash"
  /\ UNCHANGED <<config, open, answered, pingVars, verdict, brokerVars>>

\* ListenAndServe of a server returns; which one makes no difference.
ServerFails ==
  /\ at = "serving"
  /\ Panics
  /\ UNCHANGED <<config, open, answered, pingVars, verdict, brokerVars>>

Signal ==
  /\ at = "serving"
  /\ at' = IF "api" \in config THEN "closeClickhouse" ELSE "closeRedis"
  /\ UNCHANGED <<config, exit, open, answered, pingVars, verdict, brokerVars>>

\* Close of a client; an error of it panics, and what is left stays open.
Close(client, place, next) ==
  /\ at = place
  /\ \/ open' = open \ {client} /\ at' = next /\ UNCHANGED exit
     \/ Panics /\ UNCHANGED open
  /\ UNCHANGED <<config, answered, pingVars, verdict, brokerVars>>

CloseClickhouse == Close("clickhouse", "closeClickhouse", "closeRedis")

CloseRedis == Close("redis", "closeRedis", "closePostgres")

\* Pool.Close returns no error.
ClosePostgres ==
  /\ at = "closePostgres"
  /\ open' = open \ {"postgres"}
  /\ at' = "defers" /\ exit' = "clean"
  /\ UNCHANGED <<config, answered, pingVars, verdict, brokerVars>>

\* Mutant: the deferred Drain is left out.
DefersNoDrain ==
  /\ at = "defers"
  /\ at' = "over"
  /\ UNCHANGED <<config, exit, open, answered, pingVars, verdict, brokerVars>>

\* The deferred calls: Drain, which refuses a connection that is not up (and closes
\* one that is being made again), then cancel.
Defers ==
  /\ at = "defers"
  /\ at' = "over"
  /\ nats' = CASE nats = "up" -> "draining" [] nats = "away" -> "closed" [] OTHER -> nats
  /\ exit' = IF nats \in {"away", "closed"} THEN "panic" ELSE exit
  /\ UNCHANGED <<config, open, answered, pingVars, verdict, broker, subs, hook, sent, inbox, proxied>>
-----------------------------------------------------------------------------
(* The broker                                                               *)

\* Mutant: subNatsStream does not wait for its context.
SubscribeAgain ==
  /\ Running /\ broker = "subscribe"
  /\ IF nats = "closed"
       THEN UNCHANGED subs
       ELSE subs' = IF subs < 2 THEN subs + 1 ELSE subs
  /\ broker' = "sleep"
  /\ UNCHANGED <<config, at, exit, open, answered, pingVars, verdict, nats, hook, sent, inbox, proxied>>

\* subNatsStream: fails on a closed connection, else waits for the end of main.
Subscribe ==
  /\ Running /\ broker = "subscribe"
  /\ IF nats = "closed"
       THEN broker' = "sleep" /\ UNCHANGED subs
       ELSE broker' = "wait" /\ subs' = subs + 1
  /\ UNCHANGED <<config, at, exit, open, answered, pingVars, verdict, nats, hook, sent, inbox, proxied>>

\* Five seconds, and the same connection again.
Wake ==
  /\ Running /\ broker = "sleep"
  /\ broker' = "subscribe"
  /\ UNCHANGED <<config, at, exit, open, answered, pingVars, verdict, nats, subs, hook, sent, inbox, proxied>>

\* The client makes a lost connection again, with its subscriptions, and closes it
\* when it has tried often enough.
Link ==
  /\ Running
  /\ \/ nats = "up" /\ nats' = "away"
     \/ nats = "away" /\ nats' \in {"up", "closed"}
  /\ UNCHANGED <<config, at, exit, open, answered, pingVars, verdict, broker, subs, hook, sent, inbox, proxied>>

\* The bot publishes for the clients of the socket; a message that finds no
\* subscription is lost.
BotPublishes ==
  /\ Running /\ "nats" \in config /\ sent < MaxMsgs
  /\ sent' = sent + 1
  /\ inbox' = IF nats = "up" THEN inbox \o [i \in 1..subs |-> sent + 1] ELSE inbox
  /\ UNCHANGED <<config, at, exit, open, answered, pingVars, verdict, nats, broker, subs, hook, proxied>>

\* handleMessage and onProxySocket: dropped until the socket has set the hook. The
\* other messages are answered (a ping with a pong, a pong with a ping) or ignored.
HandleMessage ==
  /\ Running /\ inbox # <<>>
  /\ inbox' = Tail(inbox)
  /\ proxied' = IF hook THEN Append(proxied, Head(inbox)) ELSE proxied
  /\ UNCHANGED <<config, at, exit, open, answered, pingVars, verdict, nats, broker, subs, hook, sent>>
-----------------------------------------------------------------------------
Start ==
  \/ Create \/ CreateRedis \/ CreateNats
  \/ Expire \/ TakeResult \/ TakeTimeout
  \/ \E a \in Attempts : Answer(a) \/ Put(a)

Serve == ServeSocket \/ NilNats \/ ServerFails \/ Signal

Stop == CloseClickhouse \/ CloseRedis \/ ClosePostgres \/ Defers

Broker == Subscribe \/ Wake \/ Link \/ BotPublishes \/ HandleMessage

Next == Start \/ Serve \/ Stop \/ Broker

Spec == Init /\ [][Next]_vars

(* Fairness. main goes on, a call that connects has a timeout of its own,   *)
(* and a context of one second is over after one. A ping need never end.    *)
FairSpec ==
  /\ Spec
  /\ WF_vars(Create) /\ WF_vars(CreateRedis) /\ WF_vars(CreateNats)
  /\ WF_vars(Expire) /\ WF_vars(TakeResult \/ TakeTimeout)
  /\ WF_vars(Stop)
-----------------------------------------------------------------------------
\* Types; main waits for a ping only between the first and the last attempt.
TypeOK ==
  /\ config \subseteq Parts /\ open \subseteq Starting /\ answered \subseteq Starting
  /\ at \in Starting \cup {"serving", "closeClickhouse", "closeRedis", "closePostgres",
                          "defers", "over"}
  /\ exit \in {"", "clean", "panic", "crash"}
  /\ attempt \in 0..MaxAttempts /\ expired \in BOOLEAN
  /\ ping \in [Attempts -> {"off", "asking", "ok", "error", "over"}]
  /\ done \in {None} \cup [from : Attempts, answer : {"ok", "error"}]
  /\ nats \in {"none", "up", "away", "closed", "draining"}
  /\ broker \in {"off", "subscribe", "wait", "sleep"}
  /\ subs \in 0..1 /\ hook \in BOOLEAN
  /\ sent \in 0..MaxMsgs /\ inbox \in Seq(1..sent) /\ proxied \in Seq(1..sent)

\* The servers start only when each client that is open has answered a ping, late
\* or not: running out of attempts is no answer (main.go:151-169).
ServesAnswered == at = "serving" => open \subseteq answered

\* A shutdown that is not refused by a client leaves no client open, but for the
\* ClickHouse of the loops (main.go:132); and however main ends, it does not leave
\* the server of NATS with a connection that is up (main.go:46-51).
LeavesNothingOpen ==
  /\ at = "over" /\ exit = "clean" =>
       open = IF "loops" \in config /\ "api" \notin config THEN {"clickhouse"} ELSE {}
  /\ at = "over" /\ exit # "crash" => nats \notin {"up", "away"}

\* Whatever becomes of the connection, the hub of the socket is given a message of
\* the bot at most once, and in the order of sending: the broker's loop never holds
\* two subscriptions (broker.go:36-57).
ProxiedOnce == \A i, j \in DOMAIN proxied : i < j => proxied[i] < proxied[j]

\* main reaches its servers or ends, and after a signal it ends, even if no ping is
\* ever answered: three attempts of one second each (main.go:147-170).
MainGoesOn == at # "serving" ~> at \in {"serving", "over"}

\* "Ping timed out, retrying..." (main.go:164): what decides is the retry, not the
\* late result of the ping that timed out.
OwnVerdict == verdict # None => verdict.from = verdict.attempt
=============================================================================
