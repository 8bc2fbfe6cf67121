---------------------------- MODULE StartupProofs ----------------------------
(* Proofs about Startup, for any number of pings and of messages: types;    *)
(* that the servers start only on clients that have answered; what is left  *)
(* open at the end; that no message of the bot is given to the hub twice;   *)
(* that main only goes forward.                                             *)
EXTENDS Startup, SequenceTheorems, TLAPS

USE DEF pingVars, brokerVars

\* What main, its pings and the broker keep; each group changes on its own.
MainTypes ==
  /\ config \subseteq Parts /\ open \subseteq Starting /\ answered \subseteq Starting
  /\ at \in Starting \cup {"serving", "closeClickhouse", "closeRedis", "closePostgres",
                          "defers", "over"}
  /\ exit \in {"", "clean", "panic", "crash"}

PingTypes ==
  /\ attempt \in 0..MaxAttempts /\ expired \in BOOLEAN
  /\ ping \in [Attempts -> {"off", "asking", "ok", "error", "over"}]
  /\ done \in {None} \cup [from : Attempts, answer : {"ok", "error"}]

BrokerTypes ==
  /\ nats \in {"none", "up", "away", "closed", "draining"}
  /\ broker \in {"off", "subscribe", "wait", "sleep"}
  /\ subs = (IF broker = "wait" THEN 1 ELSE 0) /\ hook \in BOOLEAN
  /\ sent \in 0..MaxMsgs /\ inbox \in Seq(1..sent) /\ proxied \in Seq(1..sent)

\* The broker begins when main has connected to NATS, which is its last start.
BrokerWaits == at \in Starting => broker = "off"

Types == MainTypes /\ PingTypes /\ BrokerTypes /\ BrokerWaits

LEMMA Fresh ==
  /\ 0 \in 0..MaxAttempts
  /\ [a \in Attempts |-> "off"] \in [Attempts -> {"off", "asking", "ok", "error", "over"}]
<1>1. 0 \in 0..MaxAttempts
  BY AttemptsAssumption
<1>2. [a \in Attempts |-> "off"] \in [Attempts -> {"off", "asking", "ok", "error", "over"}]
  OBVIOUS
<1> QED BY <1>1, <1>2

LEMMA TypesInit == Init => Types
<1> SUFFICES ASSUME Init PROVE Types
  OBVIOUS
<1>1. MainTypes
  BY DEF Init, MainTypes, Starting
<1>2. PingTypes
  <2>1. expired \in BOOLEAN
    BY DEF Init
  <2>2. attempt = 0 /\ ping = [a \in Attempts |-> "off"] /\ done = None
    BY DEF Init
  <2> QED BY <2>1, <2>2, Fresh DEF PingTypes
<1>3. BrokerTypes
  <2>1. hook \in BOOLEAN
    BY DEF Init
  <2>2. 0 \in 0..MaxMsgs /\ << >> \in Seq(1..0)
    BY MaxMsgsAssumption
  <2>3. nats = "none" /\ broker = "off" /\ subs = 0 /\ sent = 0 /\ inbox = << >> /\ proxied = << >>
    BY DEF Init
  <2> QED BY <2>1, <2>2, <2>3 DEF BrokerTypes
<1>4. BrokerWaits
  BY DEF Init, BrokerWaits
<1> QED BY <1>1, <1>2, <1>3, <1>4 DEF Types

LEMMA MainTypesStep == MainTypes /\ [Next]_vars => MainTypes'
<1> SUFFICES ASSUME MainTypes, [Next]_vars PROVE MainTypes'
  OBVIOUS
<1> USE DEF MainTypes, Starting
<1>1. After(at) \in Starting \cup {"serving"}
  BY DEF After
<1>2. CASE Create \/ CreateRedis \/ CreateNats \/ TakeResult \/ TakeTimeout
  BY <1>1, <1>2 DEF Create, CreateRedis, CreateNats, TakeResult, TakeTimeout, Retry, Panics, Pinged
<1>3. CASE Expire \/ \E a \in Attempts : Answer(a) \/ Put(a)
  BY <1>3 DEF Expire, Answer, Put
<1>4. CASE Serve
  BY <1>4 DEF Serve, ServeSocket, NilNats, ServerFails, Signal, Panics
<1>5. CASE Stop
  BY <1>5 DEF Stop, CloseClickhouse, CloseRedis, Close, ClosePostgres, Defers, Panics
<1>6. CASE Broker \/ UNCHANGED vars
  BY <1>6 DEF Broker, Subscribe, Wake, Link, BotPublishes, HandleMessage, vars
<1> QED BY <1>2, <1>3, <1>4, <1>5, <1>6 DEF Next, Start

LEMMA PingTypesStep == PingTypes /\ [Next]_vars => PingTypes'
<1> SUFFICES ASSUME PingTypes, [Next]_vars PROVE PingTypes'
  OBVIOUS
<1> USE AttemptsAssumption DEF PingTypes, Attempts
<1>1. CASE Create
  BY <1>1 DEF Create
<1>2. ASSUME Forget PROVE PingTypes'
  <2> HIDE AttemptsAssumption DEF Attempts
  <2>1. expired' \in BOOLEAN
    BY <1>2 DEF Forget
  <2>2. attempt' = 0 /\ ping' = [a \in Attempts |-> "off"] /\ done' = None
    BY <1>2 DEF Forget
  <2> QED BY <2>1, <2>2, Fresh
<1>3. CASE TakeResult
  BY <1>2, <1>3 DEF TakeResult
<1>4. ASSUME Retry, attempt < MaxAttempts PROVE PingTypes'
  <2>1. attempt + 1 \in 1..MaxAttempts /\ attempt + 1 \in 0..MaxAttempts
    BY <1>4
  <2> HIDE AttemptsAssumption DEF Attempts
  <2>2. ping' \in [Attempts -> {"off", "asking", "ok", "error", "over"}]
    BY <1>4 DEF Retry
  <2>3. attempt' \in 0..MaxAttempts /\ expired' \in BOOLEAN /\ done' = done
    BY <1>4, <2>1 DEF Retry
  <2> QED BY <2>2, <2>3
<1>5. CASE TakeTimeout
  BY <1>2, <1>4, <1>5 DEF TakeTimeout
<1>6. ASSUME NEW a \in Attempts, Answer(a) \/ Put(a) PROVE PingTypes'
  <2>1. CASE Answer(a)
    BY <2>1 DEF Answer
  <2>2. CASE Put(a)
    BY <2>2 DEF Put
  <2> QED BY <1>6, <2>1, <2>2
<1>7. CASE Expire
  BY <1>7 DEF Expire
<1>8. CASE CreateRedis \/ CreateNats \/ Serve \/ Stop \/ Broker \/ UNCHANGED vars
  <2>1. UNCHANGED pingVars
    BY <1>8 DEF CreateRedis, CreateNats, Serve, ServeSocket, NilNats, ServerFails, Signal,
         Stop, CloseClickhouse, CloseRedis, Close, ClosePostgres, Defers,
         Broker, Subscribe, Wake, Link, BotPublishes, HandleMessage, vars
  <2> QED BY <2>1
<1> QED BY <1>1, <1>3, <1>5, <1>6, <1>7, <1>8 DEF Next, Start

LEMMA BrokerWaitsStep == MainTypes /\ BrokerWaits /\ [Next]_vars => BrokerWaits'
<1> SUFFICES ASSUME MainTypes, BrokerWaits, [Next]_vars PROVE BrokerWaits'
  OBVIOUS
<1> USE DEF BrokerWaits, Starting
<1>1. CASE CreateNats
  BY <1>1 DEF CreateNats, After, Panics
<1>2. CASE Subscribe \/ Wake
  BY <1>2 DEF Subscribe, Wake
<1>3. ASSUME broker' = broker, at \in Starting \/ at' \notin Starting PROVE BrokerWaits'
  BY <1>3
<1>4. CASE Create \/ CreateRedis \/ Expire \/ TakeResult \/ TakeTimeout \/ \E a \in Attempts : Answer(a) \/ Put(a)
  BY <1>3, <1>4 DEF Create, CreateRedis, Expire, TakeResult, TakeTimeout, Answer, Put, Pinged
<1>5. CASE Serve \/ Stop
  BY <1>3, <1>5 DEF Serve, ServeSocket, NilNats, ServerFails, Signal, Panics,
     Stop, CloseClickhouse, CloseRedis, Close, ClosePostgres, Defers
<1>6. CASE Link \/ BotPublishes \/ HandleMessage \/ UNCHANGED vars
  BY <1>3, <1>6 DEF Link, BotPublishes, HandleMessage, vars
<1> QED BY <1>1, <1>2, <1>4, <1>5, <1>6 DEF Next, Start, Broker

\* What the bot publishes reaches the one subscription, if there is one.
LEMMA Publishes ==
  ASSUME BrokerTypes, BotPublishes
  PROVE  inbox' = inbox \/ inbox' = Append(inbox, sent + 1)
<1>1. CASE broker = "wait"
  <2>1. [i \in 1..subs |-> sent + 1] = <<sent + 1>>
    BY <1>1 DEF BrokerTypes
  <2>2. inbox \o <<sent + 1>> = Append(inbox, sent + 1)
    BY DEF BrokerTypes
  <2> QED BY <2>1, <2>2 DEF BotPublishes
<1>2. CASE broker # "wait"
  <2>1. [i \in 1..subs |-> sent + 1] = << >>
    BY <1>2 DEF BrokerTypes
  <2>2. inbox \o << >> = inbox
    BY DEF BrokerTypes
  <2> QED BY <2>1, <2>2 DEF BotPublishes
<1> QED BY <1>1, <1>2

LEMMA BrokerTypesStep == BrokerTypes /\ BrokerWaits /\ [Next]_vars => BrokerTypes'
<1> SUFFICES ASSUME BrokerTypes, BrokerWaits, [Next]_vars PROVE BrokerTypes'
  OBVIOUS
<1> USE MaxMsgsAssumption
<1>1. CASE CreateNats
  BY <1>1 DEF CreateNats, BrokerTypes, BrokerWaits, Starting
<1>2. CASE ServeSocket
  BY <1>2 DEF ServeSocket, BrokerTypes
<1>3. CASE Defers
  BY <1>3 DEF Defers, BrokerTypes
<1>4. CASE Subscribe \/ Wake
  BY <1>4 DEF Subscribe, Wake, BrokerTypes
<1>5. CASE Link
  BY <1>5 DEF Link, BrokerTypes
<1>6. CASE BotPublishes
  <2>1. sent' = sent + 1 /\ sent + 1 \in 0..MaxMsgs
    BY <1>6 DEF BotPublishes, BrokerTypes
  <2>2. inbox \in Seq(1..sent + 1) /\ proxied \in Seq(1..sent + 1) /\ sent + 1 \in 1..sent + 1
    BY <2>1 DEF BrokerTypes
  <2>3. inbox' \in Seq(1..sent')
    <3>1. CASE inbox' = inbox
      BY <2>1, <2>2, <3>1
    <3>2. CASE inbox' = Append(inbox, sent + 1)
      BY <2>1, <2>2, <3>2
    <3> QED BY <1>6, <3>1, <3>2, Publishes
  <2> QED BY <1>6, <2>1, <2>2, <2>3 DEF BotPublishes, BrokerTypes
<1>7. CASE HandleMessage
  <2>1. Head(inbox) \in 1..sent /\ Tail(inbox) \in Seq(1..sent)
    BY <1>7 DEF HandleMessage, BrokerTypes
  <2>2. proxied' \in Seq(1..sent)
    <3>1. CASE proxied' = Append(proxied, Head(inbox))
      BY <2>1, <3>1 DEF BrokerTypes
    <3>2. CASE proxied' = proxied
      BY <3>2 DEF BrokerTypes
    <3> QED BY <1>7, <3>1, <3>2 DEF HandleMessage
  <2> QED BY <1>7, <2>1, <2>2 DEF HandleMessage, BrokerTypes
<1>8. ASSUME UNCHANGED brokerVars PROVE BrokerTypes'
  BY <1>8 DEF BrokerTypes
<1>9. CASE Create \/ CreateRedis \/ Expire \/ TakeResult \/ TakeTimeout \/ \E a \in Attempts : Answer(a) \/ Put(a)
  BY <1>8, <1>9 DEF Create, CreateRedis, Expire, TakeResult, TakeTimeout, Answer, Put
<1>10. CASE NilNats \/ ServerFails \/ Signal \/ CloseClickhouse \/ CloseRedis \/ ClosePostgres \/ UNCHANGED vars
  BY <1>8, <1>10 DEF NilNats, ServerFails, Signal, CloseClickhouse, CloseRedis, Close, ClosePostgres, vars
<1> QED BY <1>1, <1>2, <1>3, <1>4, <1>5, <1>6, <1>7, <1>9, <1>10 DEF Next, Start, Serve, Stop, Broker

LEMMA TypesStep == Types /\ [Next]_vars => Types'
BY MainTypesStep, PingTypesStep, BrokerTypesStep, BrokerWaitsStep DEF Types

\* Every variable has its type: main counts no more pings than there are, and every
\* message handled was sent.
THEOREM TypeCorrect == Spec => []TypeOK
<1>1. Types => TypeOK
  <2> SUFFICES ASSUME Types PROVE TypeOK
    OBVIOUS
  <2>1. subs \in 0..1
    BY DEF Types, BrokerTypes
  <2> QED BY <2>1 DEF Types, MainTypes, PingTypes, BrokerTypes, TypeOK
<1>2. Spec => []Types
  BY TypesInit, TypesStep, PTL DEF Spec
<1> QED BY <1>1, <1>2, PTL
-----------------------------------------------------------------------------
(* The clients                                                              *)

\* While main waits for a client the others that are open have answered.
OthersAnswered ==
  /\ at \in {"redis", "nats", "serving"} => open \subseteq answered
  /\ at \in Pinged => open \ {at} \subseteq answered

LEMMA OthersAnsweredStep == OthersAnswered /\ [Next]_vars => OthersAnswered'
<1> SUFFICES ASSUME OthersAnswered, [Next]_vars PROVE OthersAnswered'
  OBVIOUS
<1> USE DEF OthersAnswered, Pinged
<1>1. ASSUME at' = "defers" PROVE OthersAnswered'
  BY <1>1
<1>2. ASSUME at' = After(at), open' \subseteq answered', at \in Starting PROVE OthersAnswered'
  BY <1>2 DEF After, Starting
<1>3. CASE Create
  BY <1>1, <1>3 DEF Create, Panics
<1>4. CASE CreateRedis
  <2>1. CASE Panics
    BY <1>1, <2>1 DEF Panics
  <2>2. CASE open' = open \cup {at} /\ answered' = answered \cup {at} /\ at' = After(at)
    BY <1>2, <1>4, <2>2 DEF CreateRedis, Starting
  <2> QED BY <1>4, <2>1, <2>2 DEF CreateRedis
<1>5. CASE CreateNats
  BY <1>1, <1>2, <1>5 DEF CreateNats, Panics, Starting
<1>6. CASE TakeResult
  <2>1. CASE Panics
    BY <1>1, <2>1 DEF Panics
  <2>2. CASE answered' = answered \cup {at} /\ at' = After(at)
    BY <1>2, <1>6, <2>2 DEF TakeResult, Starting
  <2> QED BY <1>6, <2>1, <2>2 DEF TakeResult
<1>7. CASE TakeTimeout
  BY <1>1, <1>7 DEF TakeTimeout, Retry, Panics
<1>8. CASE Expire \/ \E a \in Attempts : Answer(a) \/ Put(a)
  BY <1>8 DEF Expire, Answer, Put
<1>9. CASE Serve \/ Stop
  BY <1>1, <1>9 DEF Serve, ServeSocket, NilNats, ServerFails, Signal, Panics,
     Stop, CloseClickhouse, CloseRedis, Close, ClosePostgres, Defers
<1>10. CASE Broker \/ UNCHANGED vars
  BY <1>10 DEF Broker, Subscribe, Wake, Link, BotPublishes, HandleMessage, vars
<1> QED BY <1>3, <1>4, <1>5, <1>6, <1>7, <1>8, <1>9, <1>10 DEF Next, Start

\* Whatever pings hang, fail or come late, the servers start only when each client
\* that is open has answered (main.go:147-170).
THEOREM ServesOnlyAnswered == Spec => []ServesAnswered
<1>1. Init => OthersAnswered
  BY DEF Init, OthersAnswered
<1>2. OthersAnswered => ServesAnswered
  BY DEF OthersAnswered, ServesAnswered
<1> QED BY <1>1, <1>2, OthersAnsweredStep, PTL DEF Spec

\* What is open while main serves, and what it does not close.
Clients == {"postgres", "redis"} \cup (IF config \cap {"api", "loops"} # {} THEN {"clickhouse"} ELSE {})

Left == IF "loops" \in config /\ "api" \notin config THEN {"clickhouse"} ELSE {}

\* What is open wherever main is: the order of starting and closing.
OpenAt ==
  /\ at \notin Pinged => attempt = 0
  /\ at = "postgres" => open = IF attempt = 0 THEN {} ELSE {"postgres"}
  /\ at = "redis" => open = {"postgres"}
  /\ at = "clickhouse" => /\ config \cap {"api", "loops"} # {}
                          /\ open = {"postgres", "redis"} \cup (IF attempt = 0 THEN {} ELSE {"clickhouse"})
  /\ at \in {"nats", "serving"} => open = Clients
  /\ at = "closeClickhouse" => "api" \in config /\ open = Clients
  /\ at = "closeRedis" => open = {"postgres", "redis"} \cup Left
  /\ at = "closePostgres" => open = {"postgres"} \cup Left
  /\ at \in {"defers", "over"} /\ exit = "clean" => open = Left

\* The connection to NATS is gone when the process has ended without a crash.
NatsLeft == at = "over" /\ exit # "crash" => nats \notin {"up", "away"}

\* Before the first attempt nothing is asked, answered or late.
NotBegun == attempt = 0 => done = None /\ ~expired /\ \A a \in Attempts : ping[a] = "off"

LEMMA NotBegunStep == PingTypes /\ NotBegun /\ [Next]_vars => NotBegun'
<1> SUFFICES ASSUME PingTypes, NotBegun, [Next]_vars PROVE NotBegun'
  OBVIOUS
<1>1. attempt \in Nat
  BY AttemptsAssumption DEF PingTypes
<1>2. ASSUME Forget PROVE NotBegun'
  BY <1>2 DEF Forget, NotBegun
<1>3. ASSUME Retry PROVE NotBegun'
  BY <1>1, <1>3 DEF Retry, NotBegun
<1>4. ASSUME UNCHANGED pingVars PROVE NotBegun'
  BY <1>4 DEF NotBegun
<1>5. CASE Create
  BY <1>4, <1>5 DEF Create, NotBegun
<1>6. CASE TakeResult \/ TakeTimeout
  BY <1>2, <1>3, <1>6 DEF TakeResult, TakeTimeout
<1>7. CASE Expire
  BY <1>1, <1>7 DEF Expire, NotBegun
<1>8. ASSUME NEW a \in Attempts, Answer(a) \/ Put(a) PROVE NotBegun'
  BY <1>8 DEF Answer, Put, NotBegun
<1>9. CASE CreateRedis \/ CreateNats \/ Serve \/ Stop \/ Broker \/ UNCHANGED vars
  <2>1. UNCHANGED pingVars
    BY <1>9 DEF CreateRedis, CreateNats, Serve, ServeSocket, NilNats, ServerFails, Signal,
         Stop, CloseClickhouse, CloseRedis, Close, ClosePostgres, Defers,
         Broker, Subscribe, Wake, Link, BotPublishes, HandleMessage, vars
  <2> QED BY <1>4, <2>1
<1> QED BY <1>5, <1>6, <1>7, <1>8, <1>9 DEF Next, Start

LEMMA OpenAtStep == PingTypes /\ NotBegun /\ OpenAt /\ [Next]_vars => OpenAt'
<1> SUFFICES ASSUME PingTypes, NotBegun, OpenAt, [Next]_vars PROVE OpenAt'
  OBVIOUS
<1>1. attempt \in Nat
  BY AttemptsAssumption DEF PingTypes
<1>2. ASSUME Panics, attempt' = 0 PROVE OpenAt'
  BY <1>2 DEF Panics, OpenAt
<1>3. ASSUME at' = at, exit' = exit, open' = open, config' = config, attempt' = attempt PROVE OpenAt'
  BY <1>3 DEF OpenAt, Clients, Left
<1>4. CASE Create
  <2>1. ASSUME open' = open \cup {at}, attempt' = 1, at' = at, config' = config, at \in Pinged, attempt = 0
        PROVE  OpenAt'
    BY <2>1 DEF OpenAt, Pinged, Clients, Left
  <2> QED BY <1>2, <1>4, <2>1 DEF Create
<1>5. CASE CreateRedis
  <2>1. ASSUME at = "redis", open' = open \cup {at}, at' = After(at), config' = config, attempt' = attempt
        PROVE  OpenAt'
    <3>1. open' = {"postgres", "redis"} /\ attempt' = 0
      BY <2>1 DEF OpenAt, Pinged
    <3>2. CASE config \cap {"api", "loops"} # {}
      <4>1. at' = "clickhouse"
        BY <2>1, <3>2 DEF After
      <4> QED BY <2>1, <3>1, <3>2, <4>1 DEF OpenAt, Pinged
    <3>3. CASE config \cap {"api", "loops"} = {}
      <4>1. at' \in {"nats", "serving"} /\ open' = Clients'
        BY <2>1, <3>1, <3>3 DEF After, Clients
      <4> QED BY <3>1, <4>1 DEF OpenAt
    <3> QED BY <3>2, <3>3
  <2>2. at = "redis" /\ attempt' = attempt /\ attempt = 0
    BY <1>5 DEF CreateRedis, OpenAt, Pinged
  <2> QED BY <1>2, <1>5, <2>1, <2>2 DEF CreateRedis
<1>6. CASE CreateNats
  <2>1. ASSUME at = "nats", open' = open, at' = After(at), config' = config, attempt' = attempt
        PROVE  OpenAt'
    BY <2>1 DEF OpenAt, After, Clients, Pinged
  <2>2. at = "nats" /\ attempt' = 0
    BY <1>6 DEF CreateNats, OpenAt, Pinged
  <2> QED BY <1>2, <1>6, <2>1, <2>2 DEF CreateNats
<1>7. CASE TakeResult
  <2>1. attempt > 0
    BY <1>1, <1>7 DEF TakeResult, NotBegun
  <2>2. ASSUME at' = After(at), open' = open, config' = config, attempt' = 0, at \in Pinged PROVE OpenAt'
    <3>1. CASE at = "postgres"
      <4>1. open' = {"postgres"} /\ at' = "redis"
        BY <2>1, <2>2, <3>1 DEF OpenAt, After
      <4> QED BY <2>2, <4>1 DEF OpenAt
    <3>2. CASE at = "clickhouse"
      <4>1. open' = Clients' /\ at' \in {"nats", "serving"}
        BY <2>1, <2>2, <3>2 DEF OpenAt, After, Clients
      <4> QED BY <2>2, <4>1 DEF OpenAt
    <3> QED BY <2>2, <3>1, <3>2 DEF Pinged
  <2> QED BY <1>2, <1>7, <2>2 DEF TakeResult, Forget
<1>8. CASE TakeTimeout
  <2>1. attempt > 0
    BY <1>1, <1>8 DEF TakeTimeout, NotBegun
  <2>2. ASSUME Retry, open' = open, config' = config, at \in Pinged PROVE OpenAt'
    BY <1>1, <2>1, <2>2 DEF Retry, OpenAt, Pinged, Clients, Left
  <2> QED BY <1>2, <1>8, <2>2 DEF TakeTimeout, Forget
<1>9. CASE Expire \/ ServeSocket \/ Broker \/ UNCHANGED vars \/ \E a \in Attempts : Answer(a) \/ Put(a)
  BY <1>3, <1>9 DEF Expire, ServeSocket, Answer, Put,
     Broker, Subscribe, Wake, Link, BotPublishes, HandleMessage, vars
<1>10. CASE NilNats \/ ServerFails
  BY <1>2, <1>10 DEF NilNats, ServerFails, OpenAt, Pinged
<1>11. CASE Signal
  BY <1>11 DEF Signal, OpenAt, Clients, Left, Pinged
<1>12. CASE CloseClickhouse
  <2>1. ASSUME at = "closeClickhouse", open' = open \ {"clickhouse"}, at' = "closeRedis", config' = config,
               attempt' = attempt
        PROVE  OpenAt'
    BY <2>1 DEF OpenAt, Clients, Left, Pinged
  <2>2. at = "closeClickhouse" /\ attempt' = attempt /\ attempt = 0
    BY <1>12 DEF CloseClickhouse, Close, OpenAt, Pinged
  <2> QED BY <1>2, <1>12, <2>1, <2>2 DEF CloseClickhouse, Close
<1>13. CASE CloseRedis
  <2>1. ASSUME at = "closeRedis", open' = open \ {"redis"}, at' = "closePostgres", config' = config,
               attempt' = attempt
        PROVE  OpenAt'
    BY <2>1 DEF OpenAt, Left, Pinged
  <2>2. at = "closeRedis" /\ attempt' = attempt /\ attempt = 0
    BY <1>13 DEF CloseRedis, Close, OpenAt, Pinged
  <2> QED BY <1>2, <1>13, <2>1, <2>2 DEF CloseRedis, Close
<1>14. CASE ClosePostgres
  BY <1>14 DEF ClosePostgres, OpenAt, Left, Pinged
<1>15. CASE Defers
  BY <1>15 DEF Defers, OpenAt, Left, Pinged
<1> QED BY <1>4, <1>5, <1>6, <1>7, <1>8, <1>9, <1>10, <1>11, <1>12, <1>13, <1>14, <1>15
        DEF Next, Start, Serve, Stop

LEMMA NatsLeftStep == NatsLeft /\ [Next]_vars => NatsLeft'
<1> SUFFICES ASSUME NatsLeft, [Next]_vars PROVE NatsLeft'
  OBVIOUS
<1> USE DEF NatsLeft, Running
<1>1. ASSUME at' # "over" PROVE NatsLeft'
  BY <1>1
<1>2. ASSUME at' = at, exit' = exit, nats' = nats \/ at # "over" PROVE NatsLeft'
  BY <1>2
<1>3. CASE Create \/ CreateRedis \/ CreateNats \/ TakeResult
  BY <1>1, <1>2, <1>3 DEF Create, CreateRedis, CreateNats, TakeResult, Panics, After, Pinged
<1>4. CASE TakeTimeout
  BY <1>1, <1>2, <1>4 DEF TakeTimeout, Retry, Panics
<1>5. CASE Expire \/ \E a \in Attempts : Answer(a) \/ Put(a)
  BY <1>2, <1>5 DEF Expire, Answer, Put
<1>6. CASE Serve
  BY <1>1, <1>2, <1>6 DEF Serve, ServeSocket, NilNats, ServerFails, Signal, Panics
<1>7. CASE CloseClickhouse \/ CloseRedis \/ ClosePostgres
  BY <1>1, <1>7 DEF CloseClickhouse, CloseRedis, Close, ClosePostgres, Panics
<1>8. CASE Defers
  BY <1>8 DEF Defers
<1>9. CASE Broker \/ UNCHANGED vars
  BY <1>2, <1>9 DEF Broker, Subscribe, Wake, Link, BotPublishes, HandleMessage, vars
<1> QED BY <1>3, <1>4, <1>5, <1>6, <1>7, <1>8, <1>9 DEF Next, Start, Stop

\* After a shutdown that no client refuses only the ClickHouse of the loops is open,
\* and without a crash no connection to NATS is up (main.go:45-51, 131-145).
THEOREM ClosesWhatItOpened == Spec => []LeavesNothingOpen
<1>1. Init => OpenAt /\ NotBegun /\ NatsLeft
  BY DEF Init, OpenAt, NotBegun, NatsLeft
<1>2. OpenAt /\ NatsLeft => LeavesNothingOpen
  BY DEF OpenAt, NatsLeft, Left, LeavesNothingOpen
<1>3. Types => PingTypes
  BY DEF Types
<1> QED BY <1>1, <1>2, <1>3, TypesInit, TypesStep, NotBegunStep, OpenAtStep, NatsLeftStep, PTL DEF Spec
-----------------------------------------------------------------------------
(* The messages of the bot                                                  *)

Increasing(s) == \A i, j \in DOMAIN s : i < j => s[i] < s[j]

\* What waits was sent after what was handled, and each in its order.
Ordered ==
  /\ Increasing(proxied) /\ Increasing(inbox)
  /\ \A i \in DOMAIN proxied, j \in DOMAIN inbox : proxied[i] < inbox[j]

\* A later number at the end keeps a sequence increasing.
LEMMA AppendIncreases ==
  ASSUME NEW s \in Seq(Nat), NEW n \in Nat, Increasing(s), \A i \in DOMAIN s : s[i] < n
  PROVE  Increasing(Append(s, n))
BY DEF Increasing

LEMMA OrderedStep == BrokerTypes /\ Ordered /\ [Next]_vars => Ordered'
<1> SUFFICES ASSUME BrokerTypes, Ordered, [Next]_vars PROVE Ordered'
  OBVIOUS
<1> USE MaxMsgsAssumption
<1>1. sent \in Nat /\ inbox \in Seq(Nat) /\ proxied \in Seq(Nat)
  BY DEF BrokerTypes
<1>2. CASE BotPublishes
  <2>1. CASE inbox' = inbox
    BY <1>2, <2>1 DEF BotPublishes, Ordered
  <2>2. CASE inbox' = Append(inbox, sent + 1)
    <3>1. \A i \in DOMAIN inbox : inbox[i] < sent + 1
      BY <1>1 DEF BrokerTypes
    <3>2. \A i \in DOMAIN proxied : proxied[i] < sent + 1
      BY <1>1 DEF BrokerTypes
    <3>3. Increasing(inbox')
      BY <1>1, <2>2, <3>1, AppendIncreases DEF Ordered
    <3>4. proxied' = proxied
      BY <1>2 DEF BotPublishes
    <3>5. \A i \in DOMAIN proxied, j \in DOMAIN inbox' : proxied[i] < inbox'[j]
      BY <1>1, <2>2, <3>2 DEF Ordered
    <3> QED BY <3>3, <3>4, <3>5 DEF Ordered
  <2> QED BY <1>2, <2>1, <2>2, Publishes
<1>3. CASE HandleMessage
  <2>1. inbox # << >> /\ inbox' = Tail(inbox)
    BY <1>3 DEF HandleMessage
  <2>2. /\ inbox' \in Seq(Nat) /\ Len(inbox') = Len(inbox) - 1 /\ Len(inbox) \in Nat
        /\ \A j \in 1..Len(inbox') : inbox'[j] = inbox[j + 1]
    BY <1>1, <2>1
  <2>3. Head(inbox) = inbox[1] /\ inbox[1] \in Nat /\ 1 \in DOMAIN inbox
    BY <1>1, <2>1
  <2>4. DOMAIN inbox = 1..Len(inbox) /\ DOMAIN inbox' = 1..Len(inbox')
    BY <1>1, <2>2
  <2>5. \A j \in DOMAIN inbox' : j + 1 \in DOMAIN inbox /\ inbox'[j] = inbox[j + 1] /\ 1 < j + 1
    BY <2>2, <2>4
  <2>6. Increasing(inbox')
    <3> SUFFICES ASSUME NEW i \in DOMAIN inbox', NEW j \in DOMAIN inbox', i < j
                 PROVE  inbox'[i] < inbox'[j]
      BY DEF Increasing
    <3>1. i + 1 \in DOMAIN inbox /\ j + 1 \in DOMAIN inbox /\ i + 1 < j + 1
      BY <2>2, <2>4, <2>5
    <3>2. inbox[i + 1] < inbox[j + 1]
      BY <3>1 DEF Ordered, Increasing
    <3> QED BY <2>5, <3>2
  <2>7. CASE proxied' = proxied
    BY <2>5, <2>6, <2>7 DEF Ordered
  <2>8. CASE proxied' = Append(proxied, inbox[1])
    <3>1. Increasing(proxied')
      BY <1>1, <2>3, <2>8, AppendIncreases DEF Ordered
    <3>2. \A j \in DOMAIN inbox' : inbox[1] < inbox'[j]
      BY <2>3, <2>5 DEF Ordered, Increasing
    <3>3. \A i \in DOMAIN proxied, j \in DOMAIN inbox' : proxied[i] < inbox'[j]
      BY <2>5 DEF Ordered
    <3>4. \A i \in DOMAIN proxied' : proxied'[i] = inbox[1] \/ (i \in DOMAIN proxied /\ proxied'[i] = proxied[i])
      BY <1>1, <2>3, <2>8
    <3> QED BY <2>6, <3>1, <3>2, <3>3, <3>4 DEF Ordered
  <2> QED BY <1>3, <2>3, <2>7, <2>8 DEF HandleMessage
<1>4. ASSUME UNCHANGED <<inbox, proxied>> PROVE Ordered'
  BY <1>4 DEF Ordered, Increasing
<1>5. CASE Start
  BY <1>4, <1>5 DEF Start, Create, CreateRedis, CreateNats, Expire, TakeResult, TakeTimeout, Answer, Put
<1>6. CASE Serve \/ Stop
  BY <1>4, <1>6 DEF Serve, ServeSocket, NilNats, ServerFails, Signal,
     Stop, CloseClickhouse, CloseRedis, Close, ClosePostgres, Defers
<1>7. CASE Subscribe \/ Wake \/ Link \/ UNCHANGED vars
  BY <1>4, <1>7 DEF Subscribe, Wake, Link, vars
<1> QED BY <1>2, <1>3, <1>5, <1>6, <1>7 DEF Next, Broker

\* However often NATS is lost and made again, the hub gets each message of the bot
\* at most once and in order (broker.go:36-77).
THEOREM ProxiesOnce == Spec => []ProxiedOnce
<1>1. Init => Ordered
  <2>1. DOMAIN << >> = {}
    OBVIOUS
  <2> QED BY <2>1 DEF Init, Ordered, Increasing
<1>2. Ordered => ProxiedOnce
  BY DEF Ordered, Increasing, ProxiedOnce
<1>3. Types => BrokerTypes
  BY DEF Types
<1> QED BY <1>1, <1>2, <1>3, TypesInit, TypesStep, OrderedStep, PTL DEF Spec

-----------------------------------------------------------------------------
(* main's way.                                                              *)

Place == [postgres |-> 1, redis |-> 2, clickhouse |-> 3, nats |-> 4, serving |-> 5,
          closeClickhouse |-> 6, closeRedis |-> 7, closePostgres |-> 8, defers |-> 9, over |-> 10]

\* On to a later place, to the next attempt, or to the end of the second of this one.
GoesForward ==
  \/ Place[at] < Place[at']
  \/ at' = at /\ attempt < attempt'
  \/ at' = at /\ attempt' = attempt /\ ~expired /\ expired'

\* Whatever fails or comes late, main never goes back to a place, nor the pings of one
\* client to an attempt it has made: there are ten places and MaxAttempts attempts, so
\* main takes only so many steps, and none of its loops can go on for good
\* (main.go:32-170).
THEOREM MainGoesForward == Spec => [][GoesForward]_<<at, attempt, expired>>
<1>1. MainTypes /\ PingTypes /\ [Next]_vars => [GoesForward]_<<at, attempt, expired>>
  <2> SUFFICES ASSUME MainTypes, PingTypes, [Next]_vars, ~UNCHANGED <<at, attempt, expired>>
               PROVE  GoesForward
    OBVIOUS
  <2>1. attempt \in Nat /\ expired \in BOOLEAN
    BY AttemptsAssumption DEF PingTypes
  <2>2. ASSUME at \in Starting PROVE Place[at] < Place[After(at)] /\ Place[at] < Place["defers"]
    BY <2>2 DEF Starting, After, Place
  <2>3. CASE Create
    BY <2>1, <2>2, <2>3 DEF Create, Panics, Pinged, Starting, GoesForward
  <2>4. CASE CreateRedis \/ CreateNats
    BY <2>2, <2>4 DEF CreateRedis, CreateNats, Panics, Starting, GoesForward
  <2>5. CASE TakeResult
    BY <2>2, <2>5 DEF TakeResult, Panics, Pinged, Starting, GoesForward
  <2>6. CASE TakeTimeout
    <3>1. CASE Retry
      BY <2>1, <3>1 DEF Retry, GoesForward
    <3>2. CASE Panics
      BY <2>2, <2>6, <3>2 DEF TakeTimeout, Panics, Pinged, Starting, GoesForward
    <3> QED BY <2>6, <3>1, <3>2 DEF TakeTimeout
  <2>7. CASE Expire
    BY <2>7 DEF Expire, GoesForward
  <2>8. CASE Serve
    BY <2>8 DEF Serve, ServeSocket, NilNats, ServerFails, Signal, Panics, Place, GoesForward
  <2>9. CASE Stop
    BY <2>9 DEF Stop, CloseClickhouse, CloseRedis, Close, ClosePostgres, Defers, Panics,
         Place, GoesForward
  <2>10. UNCHANGED <<at, attempt, expired>>
           \/ Create \/ CreateRedis \/ CreateNats \/ TakeResult \/ TakeTimeout \/ Expire
           \/ Serve \/ Stop
    BY DEF Next, Start, Answer, Put, Broker, Subscribe, Wake, Link, BotPublishes,
         HandleMessage, vars
  <2> QED BY <2>3, <2>4, <2>5, <2>6, <2>7, <2>8, <2>9, <2>10
<1>2. Spec => []Types
  BY TypesInit, TypesStep, PTL DEF Spec
<1> QED BY <1>1, <1>2, PTL DEF Spec, Types
=============================================================================
