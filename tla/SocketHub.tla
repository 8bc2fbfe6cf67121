----------------------------- MODULE SocketHub -----------------------------
(* socket/hub.go and socket/client.go: the hub goroutine, the NATS callback *)
(* that feeds it, and for every connection the HTTP handler that serves it, *)
(* its read pump and its write pump.                                        *)
(*                                                                          *)
(* A message is the number of the broadcast that carries it. Every channel  *)
(* of the hub is unbuffered, so a send and its receive are one step; a      *)
(* client's own channel holds Cap messages. Frames other than broadcasts    *)
(* (hello, ping, the reply to data, reconnect) have no content here.        *)
EXTENDS Naturals, Sequences, FiniteSets

CONSTANTS
  Clients,   \* the connections there may ever be, each one used once
  Talkers,   \* the connections whose peers send data or pongs
  Cap,       \* capacity of a client's send channel (1024 in the code)
  MaxMsgs    \* bound on the broadcasts accepted

ASSUME TalkersAssumption == Talkers \subseteq Clients
ASSUME CapAssumption == Cap \in Nat \ {0}
ASSUME MaxMsgsAssumption == MaxMsgs \in Nat

VARIABLES
  clients,     \* hub.clients
  todo,        \* clients the fan-out of the current broadcast has still to visit
  seq,         \* broadcasts the hub has accepted
  nats,        \* the NATS callback: idle, or blocked on hub.broadcast
  sawClients,  \* a non-empty hub.clients is visible to the unlocked read in Send
  pc,          \* where each goroutine of a connection is
  mutex,       \* holder of client.writeMutex
  conn,        \* the websocket: open, broken (writes fail from now on), closed
  closer,      \* progress of closeOnce.Do; closeSignal is closed unless idle
  deadline,    \* a pong has put a deadline on the reads
  send,        \* contents of client.send
  sendClosed,  \* client.send is closed
  hand,        \* message the write pump has taken off send (0 when none)
  joined,      \* history: seq when the hub registered the client
  wire,        \* history: broadcasts written to the connection
  panicked     \* a send on a closed channel, or a second close of one

hubVars == <<clients, todo, seq, nats, sawClients>>
connVars == <<mutex, conn, closer, deadline>>
streamVars == <<send, sendClosed, hand, joined, wire, panicked>>
vars == <<hubVars, pc, connVars, streamVars>>

Goroutines == {"handler", "reader", "writer"}

\* A goroutine in one of these states is in sendMessage: it waits for the
\* write mutex, or holds it and is in conn.WriteMessage.
Writing == {"hello", "reply", "ping", "message", "reconnect"}

\* Inside closeHandler; after "failed" the read pump loops once more.
Closing == {"closing", "failed"}

PCs == {"off", "new", "register", "check", "read", "select", "done"}
         \cup Writing \cup Closing

Goto(c, g, to) == pc' = [pc EXCEPT ![c][g] = to]

At(c, g, where) == pc[c][g] = where

\* The hub has taken c in; its pumps run from this moment on.
Registered(c) == pc[c]["handler"] \in {"hello", "done"}

\* The hub is at its outer select.
HubIdle == todo = {}

Init ==
  /\ clients = {} /\ todo = {} /\ seq = 0 /\ nats = "idle" /\ sawClients = FALSE
  /\ pc = [c \in Clients |->
             [g \in Goroutines |-> IF g = "handler" THEN "new" ELSE "off"]]
  /\ mutex = [c \in Clients |-> "free"]
  /\ conn = [c \in Clients |-> "open"]
  /\ closer = [c \in Clients |-> "idle"]
  /\ deadline = [c \in Clients |-> FALSE]
  /\ send = [c \in Clients |-> <<>>]
  /\ sendClosed = [c \in Clients |-> FALSE]
  /\ hand = [c \in Clients |-> 0]
  /\ joined = [c \in Clients |-> 0]
  /\ wire = [c \in Clients |-> <<>>]
  /\ panicked = FALSE
-----------------------------------------------------------------------------
(* The handler: upgrade, then block on hub.register.                        *)

Connect(c) ==
  /\ At(c, "handler", "new")
  /\ Goto(c, "handler", "register")
  /\ UNCHANGED <<hubVars, connVars, streamVars>>
-----------------------------------------------------------------------------
(* The hub goroutine.                                                       *)

CloseSend(c) ==
  /\ sendClosed' = [sendClosed EXCEPT ![c] = TRUE]
  /\ panicked' = (panicked \/ sendClosed[c])

\* Mutant: the channel is closed but the client stays in the map.
ForgetKeepsClient(c) ==
  /\ clients' = clients
  /\ CloseSend(c)

Forget(c) ==
  /\ clients' = clients \ {c}
  /\ CloseSend(c)

HubRegister(c) ==
  /\ HubIdle
  /\ At(c, "handler", "register")
  /\ clients' = clients \cup {c}
  /\ sawClients' = TRUE
  /\ joined' = [joined EXCEPT ![c] = seq]
  /\ pc' = [pc EXCEPT ![c] = [handler |-> "hello", reader |-> "check", writer |-> "select"]]
  /\ UNCHANGED <<todo, seq, nats, connVars, send, sendClosed, hand, wire, panicked>>

HubUnregister(c) ==
  /\ HubIdle
  /\ closer[c] = "unregister"
  /\ closer' = [closer EXCEPT ![c] = "conn"]
  /\ IF c \in clients THEN Forget(c) ELSE UNCHANGED <<clients, sendClosed, panicked>>
  /\ UNCHANGED <<todo, seq, nats, sawClients, pc, mutex, conn, deadline,
                 send, hand, joined, wire>>

\* hub.broadcast: the rendezvous also publishes hub.clients to the sender.
HubReceive ==
  /\ HubIdle
  /\ nats = "sending"
  /\ nats' = "idle"
  /\ seq' = seq + 1
  /\ todo' = clients
  /\ sawClients' = (clients # {})
  /\ UNCHANGED <<clients, pc, connVars, streamVars>>

\* Mutant: the fan-out waits until the client's write pump takes the message.
HubOfferWaits(c) ==
  /\ c \in todo
  /\ todo' = todo \ {c}
  /\ At(c, "writer", "select")
  /\ Goto(c, "writer", "message")
  /\ hand' = [hand EXCEPT ![c] = seq]
  /\ UNCHANGED <<clients, seq, nats, sawClients, connVars, send, sendClosed,
                 joined, wire, panicked>>

\* Mutant: a client whose channel is full misses the message and stays.
HubOfferSkips(c) ==
  /\ c \in todo
  /\ todo' = todo \ {c}
  /\ send' = IF Len(send[c]) < Cap THEN [send EXCEPT ![c] = Append(@, seq)] ELSE send
  /\ UNCHANGED <<clients, seq, nats, sawClients, pc, connVars, sendClosed,
                 hand, joined, wire, panicked>>

\* Mutant: the channel has no capacity limit.
HubOfferUnbounded(c) ==
  /\ c \in todo
  /\ todo' = todo \ {c}
  /\ send' = [send EXCEPT ![c] = Append(@, seq)]
  /\ UNCHANGED <<clients, seq, nats, sawClients, pc, connVars, sendClosed,
                 hand, joined, wire, panicked>>

\* One iteration of the fan-out: a client whose channel is full is dropped.
HubOffer(c) ==
  /\ c \in todo
  /\ todo' = todo \ {c}
  /\ IF Len(send[c]) < Cap
       THEN /\ send' = [send EXCEPT ![c] = Append(@, seq)]
            /\ panicked' = (panicked \/ sendClosed[c])
            /\ UNCHANGED <<clients, sendClosed>>
       ELSE /\ Forget(c)
            /\ UNCHANGED send
  /\ UNCHANGED <<seq, nats, sawClients, pc, connVars, hand, joined, wire>>

(* hub.Send on the NATS callback. It reads len(hub.clients) without         *)
(* synchronisation, so it may see any value the map has had since the last  *)
(* rendezvous. The message of a callback that sees 0 is gone: no step.      *)
SendCheck ==
  /\ nats = "idle"
  /\ seq < MaxMsgs
  /\ sawClients
  /\ nats' = "sending"
  /\ UNCHANGED <<clients, todo, seq, sawClients, pc, connVars, streamVars>>
-----------------------------------------------------------------------------
(* sendMessage: the write mutex, then conn.WriteMessage, which has no       *)
(* deadline and fails for good once it has failed.                          *)

Lock(c, g) ==
  /\ pc[c][g] \in Writing
  /\ mutex[c] = "free"
  /\ mutex' = [mutex EXCEPT ![c] = g]
  /\ UNCHANGED <<hubVars, pc, conn, closer, deadline, streamVars>>

\* Mutant: the pump returns from its TTL case without calling closeHandler.
AfterWriteNoClose(frame, ok) ==
  IF frame = "ping" \/ (frame = "message" /\ ok) THEN "select"
  ELSE IF frame = "reply" THEN "closing"
  ELSE "done"

\* Where each caller of sendMessage goes on.
AfterWrite(frame, ok) ==
  IF frame = "ping" \/ (frame = "message" /\ ok) THEN "select"
  ELSE IF frame \in {"reply", "reconnect"} THEN "closing"
  ELSE "done"

WriteFrame(c, g, ok) ==
  /\ mutex[c] = g
  /\ ok => conn[c] = "open"
  /\ conn' = [conn EXCEPT ![c] = IF @ = "open" /\ ~ok THEN "broken" ELSE @]
  /\ mutex' = [mutex EXCEPT ![c] = "free"]
  /\ Goto(c, g, AfterWrite(pc[c][g], ok))
  /\ IF At(c, g, "message")
       THEN /\ wire' = IF ok THEN [wire EXCEPT ![c] = Append(@, hand[c])] ELSE wire
            /\ hand' = [hand EXCEPT ![c] = 0]
       ELSE UNCHANGED <<wire, hand>>
  /\ UNCHANGED <<hubVars, closer, deadline, send, sendClosed, joined, panicked>>
-----------------------------------------------------------------------------
(* The read pump.                                                           *)

ReaderCheck(c) ==
  /\ At(c, "reader", "check")
  /\ Goto(c, "reader", IF closer[c] = "idle" THEN "read" ELSE "done")
  /\ UNCHANGED <<hubVars, connVars, streamVars>>

ReadData(c) ==
  /\ c \in Talkers
  /\ At(c, "reader", "read")
  /\ conn[c] # "closed"
  /\ Goto(c, "reader", "reply")
  /\ UNCHANGED <<hubVars, connVars, streamVars>>

\* Mutant: a read error ends the pump without calling closeHandler.
ReadErrorReturns(c) ==
  /\ At(c, "reader", "read")
  /\ Goto(c, "reader", "done")
  /\ UNCHANGED <<hubVars, connVars, streamVars>>

\* The peer closes or is lost, the deadline passes, or conn was closed here.
ReadError(c) ==
  /\ At(c, "reader", "read")
  /\ Goto(c, "reader", "failed")
  /\ UNCHANGED <<hubVars, connVars, streamVars>>

Pong(c) ==
  /\ c \in Talkers
  /\ At(c, "reader", "read")
  /\ conn[c] # "closed"
  /\ deadline' = [deadline EXCEPT ![c] = TRUE]
  /\ UNCHANGED <<hubVars, pc, mutex, conn, closer, streamVars>>
-----------------------------------------------------------------------------
(* The write pump: the five ways out of its select.                         *)

PingTick(c) ==
  /\ At(c, "writer", "select")
  /\ Goto(c, "writer", "ping")
  /\ UNCHANGED <<hubVars, connVars, streamVars>>

TtlTick(c) ==
  /\ At(c, "writer", "select")
  /\ Goto(c, "writer", "reconnect")
  /\ UNCHANGED <<hubVars, connVars, streamVars>>

TakeMessage(c) ==
  /\ At(c, "writer", "select")
  /\ send[c] # <<>>
  /\ hand' = [hand EXCEPT ![c] = Head(send[c])]
  /\ send' = [send EXCEPT ![c] = Tail(@)]
  /\ Goto(c, "writer", "message")
  /\ UNCHANGED <<hubVars, connVars, sendClosed, joined, wire, panicked>>

SendDrained(c) ==
  /\ At(c, "writer", "select")
  /\ sendClosed[c] /\ send[c] = <<>>
  /\ Goto(c, "writer", "done")
  /\ UNCHANGED <<hubVars, connVars, streamVars>>

SeeClosed(c) ==
  /\ At(c, "writer", "select")
  /\ closer[c] # "idle"
  /\ Goto(c, "writer", "done")
  /\ UNCHANGED <<hubVars, connVars, streamVars>>
-----------------------------------------------------------------------------
(* closeHandler: the first caller runs the body of closeOnce, a later one   *)
(* waits in Do until that body has returned.                                *)

CloseBegin(c, g) ==
  /\ pc[c][g] \in Closing
  /\ closer[c] = "idle"
  /\ closer' = [closer EXCEPT ![c] = "unregister"]
  /\ UNCHANGED <<hubVars, pc, mutex, conn, deadline, streamVars>>

\* Mutant: the connection is closed without waiting for the hub.
CloseConnEarly(c) ==
  /\ closer[c] \in {"unregister", "conn"}
  /\ closer' = [closer EXCEPT ![c] = "done"]
  /\ conn' = [conn EXCEPT ![c] = "closed"]
  /\ UNCHANGED <<hubVars, pc, mutex, deadline, streamVars>>

\* Mutant: the connection is closed under the write mutex.
CloseConnLocked(c) ==
  /\ closer[c] = "conn"
  /\ mutex[c] = "free"
  /\ closer' = [closer EXCEPT ![c] = "done"]
  /\ conn' = [conn EXCEPT ![c] = "closed"]
  /\ UNCHANGED <<hubVars, pc, mutex, deadline, streamVars>>

CloseConn(c) ==
  /\ closer[c] = "conn"
  /\ closer' = [closer EXCEPT ![c] = "done"]
  /\ conn' = [conn EXCEPT ![c] = "closed"]
  /\ UNCHANGED <<hubVars, pc, mutex, deadline, streamVars>>

CloseReturn(c, g) ==
  /\ pc[c][g] \in Closing
  /\ closer[c] = "done"
  /\ Goto(c, g, IF At(c, g, "failed") THEN "check" ELSE "done")
  /\ UNCHANGED <<hubVars, connVars, streamVars>>
-----------------------------------------------------------------------------
\* Every connection is over and no broadcast is in flight.
AllOver == nats = "idle" /\ \A c \in Clients, g \in Goroutines : At(c, g, "done")

Idle == AllOver /\ UNCHANGED vars

Goroutine(c, g) ==
  \/ Lock(c, g)
  \/ \E ok \in BOOLEAN : WriteFrame(c, g, ok)
  \/ CloseBegin(c, g)
  \/ CloseReturn(c, g)

Reader(c) == ReaderCheck(c) \/ ReadData(c) \/ ReadError(c) \/ Pong(c)

Writer(c) == PingTick(c) \/ TtlTick(c) \/ TakeMessage(c) \/ SendDrained(c) \/ SeeClosed(c)

Hub == HubReceive \/ \E c \in Clients : HubRegister(c) \/ HubUnregister(c) \/ HubOffer(c)

Next ==
  \/ SendCheck
  \/ Hub
  \/ \E c \in Clients :
       \/ Connect(c)
       \/ Reader(c)
       \/ Writer(c)
       \/ CloseConn(c)
       \/ \E g \in Goroutines : Goroutine(c, g)
  \/ Idle

Spec == Init /\ [][Next]_vars
-----------------------------------------------------------------------------
(* Fairness. Select picks at random among the ready cases, and a sync.Mutex *)
(* hands over to a waiter it has starved: strong fairness. Everything else  *)
(* that needs no peer is weakly fair. A write to a connection that is no    *)
(* longer open returns; a read of a closed one does too, and so does a read *)
(* under a deadline while the write pump stays away from its select: no     *)
(* ping goes out, and a peer sends no pong that it was not asked for.       *)

HubFairness ==
  /\ SF_vars(HubReceive)
  /\ \A c \in Clients :
       SF_vars(HubRegister(c)) /\ SF_vars(HubUnregister(c)) /\ WF_vars(HubOffer(c))

ReadsReturn(c) ==
  /\ WF_vars(ReaderCheck(c))
  /\ WF_vars(ReadError(c) /\ conn[c] = "closed")
  /\ WF_vars(ReadError(c) /\ deadline[c] /\ ~At(c, "writer", "select"))

PumpFairness(c) == SF_vars(TtlTick(c)) /\ SF_vars(SeeClosed(c))

WritesFail(c) ==
  \A g \in Goroutines :
    SF_vars(Lock(c, g)) /\ WF_vars(WriteFrame(c, g, FALSE) /\ conn[c] # "open")

CloseFairness(c) ==
  /\ WF_vars(CloseConn(c))
  /\ \A g \in Goroutines \ {"handler"} : WF_vars(CloseBegin(c, g)) /\ WF_vars(CloseReturn(c, g))

Fairness ==
  /\ HubFairness
  /\ \A c \in Clients :
       ReadsReturn(c) /\ PumpFairness(c) /\ WritesFail(c) /\ CloseFairness(c)

\* Nothing is assumed of the peers: a write to an open connection may hang.
FairSpec == Spec /\ Fairness

\* Peers read what they are sent, or are lost: every write returns.
PeersRead ==
  \A c \in Clients, g \in Goroutines : WF_vars(\E ok \in BOOLEAN : WriteFrame(c, g, ok))
-----------------------------------------------------------------------------
(* Properties.                                                              *)

\* Every variable keeps its type, and a channel its capacity (client.go:218).
TypeOK ==
  /\ clients \subseteq Clients /\ todo \subseteq Clients
  /\ seq \in Nat /\ nats \in {"idle", "sending"} /\ sawClients \in BOOLEAN
  /\ pc \in [Clients -> [Goroutines -> PCs]]
  /\ mutex \in [Clients -> {"free"} \cup Goroutines]
  /\ conn \in [Clients -> {"open", "broken", "closed"}]
  /\ closer \in [Clients -> {"idle", "unregister", "conn", "done"}]
  /\ deadline \in [Clients -> BOOLEAN]
  /\ send \in [Clients -> Seq(Nat)] /\ \A c \in Clients : Len(send[c]) <= Cap
  /\ sendClosed \in [Clients -> BOOLEAN]
  /\ hand \in [Clients -> Nat] /\ joined \in [Clients -> Nat]
  /\ wire \in [Clients -> Seq(Nat)]
  /\ panicked \in BOOLEAN

\* The hub closes each client's channel once and never sends on it afterwards,
\* whichever of a drop in the fan-out and an unregister comes first
\* (hub.go:28-30, 37-39): neither panics.
NoPanic == ~panicked

\* A closed connection is out of the hub and its channel is closed, so no
\* broadcast is queued for a peer that is gone (client.go:145-148: unregister
\* returns before conn.Close).
ClosedMeansForgotten ==
  \A c \in Clients : conn[c] = "closed" => c \notin clients /\ sendClosed[c]

\* A client the hub still serves is at most a full channel, the message in the
\* pump's hand and the broadcast being fanned out behind the stream: falling
\* further behind costs it its place (hub.go:35-40).
LagBounded ==
  \A c \in clients : seq - (joined[c] + Len(wire[c])) <= Cap + 2

\* Every client reads a gapless, ordered run of the broadcasts from the moment
\* it registered; dropping a slow client never makes one skip a message.
Promise == INSTANCE Broadcast WITH
  published <- seq,
  members <- {c \in Clients : Registered(c)},
  start <- joined,
  delivered <- wire

InOrder == Promise!Spec

\* A peer that does not read never holds the NATS callback up: the fan-out
\* does not block on a client (hub.go:35-37), so an accepted Send returns.
SenderNeverStuck == nats = "sending" ~> nats = "idle"

\* Once anyone calls closeHandler the connection gets closed and all three of
\* its goroutines end, even one that hangs in a write to a stalled peer.
CloseCompletes ==
  \A c \in Clients :
    closer[c] # "idle" ~> (conn[c] = "closed" /\ \A g \in Goroutines : At(c, g, "done"))

\* If peers read, a connection ends at its TTL at the latest, unless the write
\* pump has quit before: on a write error, or because the hub dropped the
\* client (client.go:109-124 against 126-133).
TtlHonoured ==
  PeersRead => \A c \in Clients : Registered(c) ~> (conn[c] # "open" \/ sendClosed[c])

\* If peers read, a connection whose peer has ever answered a ping is closed in
\* the end, also when its write pump quit without closing it: the read deadline
\* of the last pong passes (client.go:82-90, 165-172).
PongedPeerCloses ==
  PeersRead => \A c \in Clients : deadline[c] ~> conn[c] = "closed"
=============================================================================
