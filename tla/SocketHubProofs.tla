-------------------------- MODULE SocketHubProofs --------------------------
(* Proofs about SocketHub, for every set of clients, channel capacity and   *)
(* number of broadcasts. Each invariant is proved on top of the earlier     *)
(* ones: types, then control (who is registered, who holds what), then the  *)
(* position of every client in the stream of broadcasts; last, that every   *)
(* connection has someone who closes it.                                    *)
EXTENDS SocketHub, TLAPS

-----------------------------------------------------------------------------
(* Types.                                                                   *)

\* AfterWrite names a state of a goroutine whatever the frame.
LEMMA AfterWriteType ==
  ASSUME NEW frame, NEW ok
  PROVE  AfterWrite(frame, ok) \in PCs
BY DEF AfterWrite, PCs, Writing, Closing

\* A jump of one goroutine keeps the type of pc.
LEMMA GotoType ==
  ASSUME TypeOK, NEW c \in Clients, NEW g \in Goroutines, NEW to \in PCs, Goto(c, g, to)
  PROVE  pc' \in [Clients -> [Goroutines -> PCs]]
BY DEF TypeOK, Goto

\* Every variable keeps its type and no channel exceeds its capacity.
THEOREM TypeCorrect == Spec => []TypeOK
<1>1. Init => TypeOK
  <2> SUFFICES ASSUME Init PROVE TypeOK
    OBVIOUS
  <2>1. pc \in [Clients -> [Goroutines -> PCs]]
    <3>1. \A g \in Goroutines : (IF g = "handler" THEN "new" ELSE "off") \in PCs
      BY DEF PCs
    <3> QED BY <3>1 DEF Init
  <2>2. send \in [Clients -> Seq(Nat)] /\ wire \in [Clients -> Seq(Nat)]
    BY DEF Init
  <2>3. \A c \in Clients : Len(send[c]) <= Cap
    BY CapAssumption DEF Init
  <2>4. mutex \in [Clients -> {"free"} \cup Goroutines]
    BY DEF Init
  <2> QED BY <2>1, <2>2, <2>3, <2>4 DEF Init, TypeOK
<1>2. TypeOK /\ [Next]_vars => TypeOK'
  <2> SUFFICES ASSUME TypeOK, [Next]_vars PROVE TypeOK'
    OBVIOUS
  <2>a. {"off", "new", "register", "check", "read", "select", "done", "hello", "reply",
         "ping", "message", "reconnect", "closing", "failed"} = PCs
    BY DEF PCs, Writing, Closing
  <2>b. Goroutines = {"handler", "reader", "writer"}
    BY DEF Goroutines
  <2> USE DEF hubVars, connVars, streamVars
  <2>1. CASE SendCheck
    BY <2>1 DEF SendCheck, TypeOK
  <2>2. CASE HubReceive
    BY <2>2 DEF HubReceive, TypeOK
  <2>3. ASSUME NEW c \in Clients, HubRegister(c) PROVE TypeOK'
    <3>1. [handler |-> "hello", reader |-> "check", writer |-> "select"]
            \in [Goroutines -> PCs]
      BY <2>a, <2>b
    <3> QED BY <2>3, <3>1 DEF HubRegister, TypeOK
  <2>4. ASSUME NEW c \in Clients, HubUnregister(c) PROVE TypeOK'
    BY <2>4 DEF HubUnregister, Forget, CloseSend, TypeOK
  <2>5. ASSUME NEW c \in Clients, HubOffer(c) PROVE TypeOK'
    <3>1. CASE Len(send[c]) < Cap
      <4>1. Append(send[c], seq) \in Seq(Nat) /\ Len(Append(send[c], seq)) <= Cap
        BY <3>1, CapAssumption DEF TypeOK
      <4>2. send' \in [Clients -> Seq(Nat)] /\ \A d \in Clients : Len(send'[d]) <= Cap
        BY <2>5, <3>1, <4>1 DEF HubOffer, TypeOK
      <4> QED BY <2>5, <3>1, <4>2 DEF HubOffer, TypeOK
    <3>2. CASE ~(Len(send[c]) < Cap)
      BY <2>5, <3>2 DEF HubOffer, Forget, CloseSend, TypeOK
    <3> QED BY <3>1, <3>2
  <2>6. ASSUME NEW c \in Clients, Connect(c) \/ Reader(c) PROVE TypeOK'
    <3>1. pc' \in [Clients -> [Goroutines -> PCs]]
      BY <2>6, <2>a, <2>b, GotoType
         DEF Connect, Reader, ReaderCheck, ReadData, ReadError, Pong, TypeOK
    <3> QED BY <2>6, <3>1
            DEF Connect, Reader, ReaderCheck, ReadData, ReadError, Pong, TypeOK
  <2>7. ASSUME NEW c \in Clients, TakeMessage(c) PROVE TypeOK'
    <3>1. Head(send[c]) \in Nat /\ Tail(send[c]) \in Seq(Nat)
      BY <2>7 DEF TakeMessage, TypeOK
    <3>2. Len(Tail(send[c])) <= Cap
      BY <2>7, CapAssumption DEF TakeMessage, TypeOK
    <3>3. pc' \in [Clients -> [Goroutines -> PCs]]
      BY <2>7, <2>a, <2>b, GotoType DEF TakeMessage
    <3>4. send' \in [Clients -> Seq(Nat)] /\ \A d \in Clients : Len(send'[d]) <= Cap
      BY <2>7, <3>1, <3>2 DEF TakeMessage, TypeOK
    <3> QED BY <2>7, <3>1, <3>3, <3>4 DEF TakeMessage, TypeOK
  <2>8. ASSUME NEW c \in Clients,
               PingTick(c) \/ TtlTick(c) \/ SendDrained(c) \/ SeeClosed(c)
        PROVE  TypeOK'
    <3>1. pc' \in [Clients -> [Goroutines -> PCs]]
      BY <2>8, <2>a, <2>b, GotoType DEF PingTick, TtlTick, SendDrained, SeeClosed
    <3> QED BY <2>8, <3>1 DEF PingTick, TtlTick, SendDrained, SeeClosed, TypeOK
  <2>9. ASSUME NEW c \in Clients, NEW g \in Goroutines, Lock(c, g) PROVE TypeOK'
    BY <2>9 DEF Lock, TypeOK
  <2>10. ASSUME NEW c \in Clients, NEW g \in Goroutines, NEW ok \in BOOLEAN,
                WriteFrame(c, g, ok)
         PROVE  TypeOK'
    <3>1. pc' \in [Clients -> [Goroutines -> PCs]]
      BY <2>10, AfterWriteType, GotoType DEF WriteFrame
    <3>2. wire' \in [Clients -> Seq(Nat)]
      <4>1. Append(wire[c], hand[c]) \in Seq(Nat)
        BY DEF TypeOK
      <4> QED BY <2>10, <4>1 DEF WriteFrame, TypeOK
    <3>3. hand' \in [Clients -> Nat] /\ mutex' \in [Clients -> {"free"} \cup Goroutines]
      <4>1. hand' = hand \/ hand' = [hand EXCEPT ![c] = 0]
        BY <2>10 DEF WriteFrame
      <4> QED BY <2>10, <4>1 DEF WriteFrame, TypeOK
    <3>4. conn' \in [Clients -> {"open", "broken", "closed"}]
      BY <2>10 DEF WriteFrame, TypeOK
    <3> QED BY <2>10, <3>1, <3>2, <3>3, <3>4 DEF WriteFrame, TypeOK
  <2>11. ASSUME NEW c \in Clients, NEW g \in Goroutines, CloseBegin(c, g) \/ CloseReturn(c, g)
         PROVE  TypeOK'
    <3>1. pc' \in [Clients -> [Goroutines -> PCs]]
      BY <2>11, <2>a, GotoType DEF CloseBegin, CloseReturn, TypeOK
    <3> QED BY <2>11, <3>1 DEF CloseBegin, CloseReturn, TypeOK
  <2>12. ASSUME NEW c \in Clients, CloseConn(c) PROVE TypeOK'
    BY <2>12 DEF CloseConn, TypeOK
  <2>13. CASE UNCHANGED vars
    BY <2>13 DEF vars, TypeOK
  <2> QED BY <2>1, <2>2, <2>3, <2>4, <2>5, <2>6, <2>7, <2>8, <2>9, <2>10, <2>11,
             <2>12, <2>13 DEF Next, Hub, Writer, Goroutine, Idle
<1> QED BY <1>1, <1>2, PTL DEF Spec

-----------------------------------------------------------------------------
(* Control: what the hub, the goroutines of a connection and closeHandler   *)
(* know of each other.                                                      *)

\* Which states each goroutine of a connection can be in.
ProgramCounters(c) ==
  /\ pc[c]["handler"] \in {"new", "register", "hello", "done"}
  /\ pc[c]["reader"] \in {"off", "check", "read", "reply", "failed", "closing", "done"}
  /\ pc[c]["writer"] \in {"off", "select", "ping", "message", "reconnect", "closing", "done"}

\* Nothing of a connection runs before the hub has registered it.
Beginnings(c) ==
  ~Registered(c) =>
    /\ pc[c]["reader"] = "off" /\ pc[c]["writer"] = "off"
    /\ closer[c] = "idle"
    /\ c \notin clients

\* The channel is closed exactly when the hub has forgotten the client, and
\* closeHandler passes its rendezvous only with a forgotten client.
Endings(c) ==
  /\ sendClosed[c] <=> (Registered(c) /\ c \notin clients)
  /\ closer[c] \in {"conn", "done"} => c \notin clients
  /\ conn[c] = "closed" => closer[c] = "done"

\* Only a goroutine inside sendMessage holds the write mutex.
Holders(c) == \A g \in Goroutines : mutex[c] = g => pc[c][g] \in Writing

ControlOf(c) == ProgramCounters(c) /\ Beginnings(c) /\ Endings(c) /\ Holders(c)

Control ==
  /\ todo \subseteq clients
  /\ NoPanic
  /\ \A c \in Clients : ControlOf(c)

\* The control of the other connections does not depend on what c does, as long
\* as nothing but c enters or leaves the hub.
LEMMA OtherControl ==
  ASSUME NEW c \in Clients, NEW d \in Clients, d # c, ControlOf(d),
         pc'[d] = pc[d], closer'[d] = closer[d], sendClosed'[d] = sendClosed[d],
         conn'[d] = conn[d], mutex'[d] = mutex[d],
         d \in clients' <=> d \in clients
  PROVE  ControlOf(d)'
BY DEF ControlOf, ProgramCounters, Beginnings, Endings, Holders, Registered

\* Control is inductive.
LEMMA ControlStep == TypeOK /\ Control /\ [Next]_vars => Control'
<1> SUFFICES ASSUME TypeOK, Control, [Next]_vars PROVE Control'
  OBVIOUS
<1>b. Goroutines = {"handler", "reader", "writer"}
  BY DEF Goroutines
<1> USE DEF hubVars, connVars, streamVars, Control, NoPanic
<1>1. CASE SendCheck \/ HubReceive \/ UNCHANGED vars
  BY <1>1 DEF SendCheck, HubReceive, vars, ControlOf, ProgramCounters, Beginnings, Endings,
              Holders, Registered, HubIdle
<1>2. ASSUME NEW c \in Clients, HubRegister(c) PROVE Control'
  <2>1. ControlOf(c)'
    <3>1. /\ pc'[c] = [handler |-> "hello", reader |-> "check", writer |-> "select"]
          /\ c \in clients' /\ ~Registered(c)
          /\ mutex' = mutex /\ closer' = closer /\ conn' = conn /\ sendClosed' = sendClosed
      BY <1>2 DEF HubRegister, At, Registered, TypeOK
    <3>2. closer[c] = "idle" /\ mutex[c] \notin Goroutines /\ ~sendClosed[c]
      BY <3>1, <1>b, <1>2 DEF HubRegister, At, ControlOf, Beginnings, Endings, Holders, Writing
    <3>3. ProgramCounters(c)' /\ Beginnings(c)' /\ Holders(c)'
      BY <3>1, <3>2 DEF ProgramCounters, Beginnings, Holders, Registered
    <3>4. Endings(c)'
      BY <3>1, <3>2 DEF ControlOf, Endings
    <3> QED BY <3>3, <3>4 DEF ControlOf
  <2> QED BY <1>2, <2>1, OtherControl DEF HubRegister, TypeOK
<1>3. ASSUME NEW c \in Clients, HubUnregister(c) PROVE Control'
  <2>1. ControlOf(c)'
    <3>1. ProgramCounters(c)' /\ Beginnings(c)' /\ Holders(c)'
      BY <1>3 DEF HubUnregister, Forget, TypeOK, ControlOf, ProgramCounters, Beginnings,
                  Holders, Registered
    <3>2. Registered(c) /\ Registered(c)' /\ closer'[c] = "conn" /\ conn' = conn
      BY <1>3 DEF HubUnregister, TypeOK, ControlOf, Beginnings, Registered
    <3>3. c \notin clients' /\ sendClosed'[c]
      BY <1>3, <3>2 DEF HubUnregister, Forget, CloseSend, TypeOK, ControlOf, Endings
    <3>4. conn[c] # "closed"
      BY <1>3 DEF HubUnregister, ControlOf, Endings
    <3> QED BY <3>1, <3>2, <3>3, <3>4 DEF ControlOf, Endings
  <2>2. ~panicked'
    BY <1>3 DEF HubUnregister, Forget, CloseSend, ControlOf, Endings
  <2> QED BY <1>3, <2>1, <2>2, OtherControl DEF HubUnregister, HubIdle, Forget, CloseSend, TypeOK
<1>4. ASSUME NEW c \in Clients, HubOffer(c) PROVE Control'
  <2>1. ControlOf(c)'
    BY <1>4 DEF HubOffer, Forget, CloseSend, TypeOK, ControlOf, ProgramCounters,
                Beginnings, Endings, Holders, Registered
  <2>2. ~panicked' /\ todo' \subseteq clients'
    BY <1>4 DEF HubOffer, Forget, CloseSend, ControlOf, Endings
  <2> QED BY <1>4, <2>1, <2>2, OtherControl DEF HubOffer, Forget, CloseSend, TypeOK
<1>5. ASSUME NEW c \in Clients, Connect(c) \/ Reader(c) \/ Writer(c) PROVE Control'
  <2>1. ControlOf(c)'
    <3>1. CASE Connect(c)
      <4>1. /\ pc[c]["handler"] = "new" /\ pc'[c]["handler"] = "register"
            /\ pc'[c]["reader"] = pc[c]["reader"] /\ pc'[c]["writer"] = pc[c]["writer"]
            /\ UNCHANGED <<clients, closer, conn, sendClosed, mutex>>
        BY <3>1, <1>b DEF Connect, Goto, At, TypeOK
      <4>2. ~Registered(c) /\ ~Registered(c)'
        BY <4>1 DEF Registered
      <4>3. ProgramCounters(c)'
        BY <4>1 DEF ControlOf, ProgramCounters
      <4>4. Beginnings(c)'
        BY <4>1, <4>2 DEF ControlOf, Beginnings
      <4>5. Holders(c)'
        <5>1. mutex[c] # "handler"
          BY <4>1, <1>b DEF ControlOf, Holders, Writing
        <5> QED BY <4>1, <5>1, <1>b DEF ControlOf, Holders
      <4>6. Endings(c)'
        BY <4>1, <4>2 DEF ControlOf, Endings
      <4> QED BY <4>3, <4>4, <4>5, <4>6 DEF ControlOf
    <3>2. CASE Pong(c)
      BY <3>2 DEF Pong, ControlOf, ProgramCounters, Beginnings, Endings, Holders, Registered
    <3>3. CASE ReaderCheck(c) \/ ReadData(c) \/ ReadError(c)
      <4>1. /\ pc[c]["reader"] \in {"check", "read"}
            /\ \E to \in {"read", "done", "reply", "failed"} : Goto(c, "reader", to)
            /\ UNCHANGED <<hubVars, connVars, streamVars>>
        BY <3>3 DEF ReaderCheck, ReadData, ReadError, At
      <4>2. Holders(c)'
        <5>1. mutex[c] # "reader" /\ mutex' = mutex
          BY <4>1, <1>b DEF ControlOf, Holders, Writing
        <5>2. \A g \in Goroutines \ {"reader"} : pc'[c][g] = pc[c][g]
          BY <4>1, <1>b DEF Goto, TypeOK
        <5> QED BY <5>1, <5>2 DEF ControlOf, Holders
      <4>3. ProgramCounters(c)' /\ Beginnings(c)' /\ Endings(c)'
        BY <4>1, <1>b DEF Goto, TypeOK, ControlOf, ProgramCounters, Beginnings, Endings,
                          Registered
      <4> QED BY <4>2, <4>3 DEF ControlOf
    <3>4. CASE Writer(c)
      <4>1. /\ pc[c]["writer"] = "select"
            /\ \E to \in {"ping", "reconnect", "message", "done"} : Goto(c, "writer", to)
            /\ UNCHANGED <<hubVars, connVars, sendClosed>>
        BY <3>4 DEF Writer, PingTick, TtlTick, TakeMessage, SendDrained, SeeClosed, At
      <4> QED BY <4>1, <1>b DEF Goto, TypeOK, ControlOf, ProgramCounters, Beginnings,
                  Endings, Holders, Registered, Writing
    <3> QED BY <1>5, <3>1, <3>2, <3>3, <3>4 DEF Reader
  <2>2. UNCHANGED <<clients, todo, closer, sendClosed, conn, mutex, panicked>>
    BY <1>5 DEF Connect, Reader, ReaderCheck, ReadData, ReadError, Pong,
                Writer, PingTick, TtlTick, TakeMessage, SendDrained, SeeClosed
  <2>3. \A d \in Clients : d # c => pc'[d] = pc[d]
    BY <1>5 DEF Connect, Reader, ReaderCheck, ReadData, ReadError, Pong,
                Writer, PingTick, TtlTick, TakeMessage, SendDrained, SeeClosed, Goto, TypeOK
  <2> QED BY <2>1, <2>2, <2>3, OtherControl
<1>6. ASSUME NEW c \in Clients, NEW g \in Goroutines, Goroutine(c, g) PROVE Control'
  <2>1. CASE Lock(c, g)
    <3>1. Holders(c)'
      BY <2>1 DEF Lock, TypeOK, Holders
    <3>2. ProgramCounters(c)' /\ Beginnings(c)' /\ Endings(c)'
      BY <2>1 DEF Lock, ControlOf, ProgramCounters, Beginnings, Endings, Registered
    <3>3. ControlOf(c)'
      BY <3>1, <3>2 DEF ControlOf
    <3> QED BY <2>1, <3>3, OtherControl DEF Lock, TypeOK
  <2>2. ASSUME NEW ok \in BOOLEAN, WriteFrame(c, g, ok) PROVE Control'
    <3>1. ControlOf(c)'
      <4>1. pc[c][g] \in Writing /\ mutex'[c] = "free" /\ "free" \notin Goroutines
        BY <2>2, <1>b DEF WriteFrame, TypeOK, ControlOf, Holders
      <4>2. /\ g = "handler" => pc[c][g] = "hello"
            /\ g = "reader" => pc[c][g] = "reply"
            /\ g = "writer" => pc[c][g] \in {"ping", "message", "reconnect"}
        BY <4>1 DEF ControlOf, ProgramCounters, Writing
      <4>3. pc'[c] = [pc[c] EXCEPT ![g] = AfterWrite(pc[c][g], ok)]
        BY <2>2 DEF WriteFrame, Goto, TypeOK
      <4>4. ProgramCounters(c)' /\ (Registered(c)' <=> Registered(c))
        BY <4>2, <4>3, <1>b
           DEF TypeOK, AfterWrite, ControlOf, ProgramCounters, Registered
      <4>5. Beginnings(c)' /\ Holders(c)'
        BY <2>2, <4>1, <4>2, <4>4, <1>b
           DEF WriteFrame, ControlOf, Beginnings, ProgramCounters, Registered, Holders
      <4>6. Endings(c)'
        BY <2>2, <4>4 DEF WriteFrame, TypeOK, ControlOf, Endings
      <4> QED BY <4>4, <4>5, <4>6 DEF ControlOf
    <3> QED BY <2>2, <3>1, OtherControl DEF WriteFrame, Goto, TypeOK
  <2>3. CASE CloseBegin(c, g)
    <3>1. ControlOf(c)'
      BY <2>3, <1>b DEF CloseBegin, Closing, TypeOK, ControlOf, ProgramCounters, Beginnings, Endings,
                  Holders, Registered
    <3> QED BY <2>3, <3>1, OtherControl DEF CloseBegin, TypeOK
  <2>4. CASE CloseReturn(c, g)
    <3>1. ControlOf(c)'
      BY <2>4, <1>b DEF CloseReturn, Closing, Goto, At, TypeOK, ControlOf, ProgramCounters,
                  Beginnings, Endings, Holders, Registered, Writing
    <3> QED BY <2>4, <3>1, OtherControl DEF CloseReturn, Goto, TypeOK
  <2> QED BY <1>6, <2>1, <2>2, <2>3, <2>4 DEF Goroutine
<1>7. ASSUME NEW c \in Clients, CloseConn(c) PROVE Control'
  <2>1. ControlOf(c)'
    BY <1>7 DEF CloseConn, TypeOK, ControlOf, ProgramCounters, Beginnings, Endings, Holders,
                Registered
  <2> QED BY <1>7, <2>1, OtherControl DEF CloseConn, TypeOK
<1> QED BY <1>1, <1>2, <1>3, <1>4, <1>5, <1>6, <1>7 DEF Next, Hub, Idle

\* A jump that does not move the handler, or moves it within the states before
\* or after its registration, registers nobody.
LEMMA GotoRegisters ==
  ASSUME TypeOK, NEW c \in Clients, NEW d \in Clients, NEW g \in Goroutines, NEW to,
         Goto(c, g, to),
         g = "handler" => (Registered(c) <=> to \in {"hello", "done"})
  PROVE  Registered(d)' <=> Registered(d)
<1>1. CASE d = c /\ g = "handler"
  <2>1. pc'[d]["handler"] = to
    BY <1>1 DEF Goto, TypeOK
  <2> QED BY <1>1, <2>1 DEF Registered
<1>2. CASE ~(d = c /\ g = "handler")
  <2>1. pc'[d]["handler"] = pc[d]["handler"]
    BY <1>2 DEF Goto, TypeOK, Goroutines
  <2> QED BY <2>1 DEF Registered
<1> QED BY <1>1, <1>2

\* Only the hub registers.
LEMMA RegisteredKept ==
  ASSUME TypeOK, Control, NEW c \in Clients, NEW d \in Clients,
         Connect(c) \/ Reader(c) \/ Writer(c) \/ \E g \in Goroutines : Goroutine(c, g)
  PROVE  Registered(d)' <=> Registered(d)
<1>b. Goroutines = {"handler", "reader", "writer"}
  BY DEF Goroutines
<1>1. CASE Connect(c)
  BY <1>1, <1>b, GotoRegisters DEF Connect, At, Registered
<1>2. CASE Pong(c)
  BY <1>2 DEF Pong, Registered
<1>3. CASE ReaderCheck(c) \/ ReadData(c) \/ ReadError(c) \/ Writer(c)
  <2>1. \E g \in {"reader", "writer"}, to \in PCs : Goto(c, g, to)
    BY <1>3 DEF ReaderCheck, ReadData, ReadError, Writer, PingTick, TtlTick, TakeMessage,
                SendDrained, SeeClosed, PCs, Writing, Closing
  <2> QED BY <2>1, <1>b, GotoRegisters
<1>4. ASSUME NEW g \in Goroutines, Lock(c, g) \/ CloseBegin(c, g)
      PROVE  Registered(d)' <=> Registered(d)
  BY <1>4 DEF Lock, CloseBegin, Registered
<1>5. ASSUME NEW g \in Goroutines, CloseReturn(c, g)
      PROVE  Registered(d)' <=> Registered(d)
  <2>1. g # "handler"
    BY <1>5 DEF CloseReturn, Closing, Control, ControlOf, ProgramCounters
  <2> QED BY <1>5, <2>1, GotoRegisters DEF CloseReturn
<1>6. ASSUME NEW g \in Goroutines, NEW ok \in BOOLEAN, WriteFrame(c, g, ok)
      PROVE  Registered(d)' <=> Registered(d)
  <2>1. pc[c][g] \in Writing /\ Goto(c, g, AfterWrite(pc[c][g], ok))
    BY <1>6 DEF WriteFrame, Control, ControlOf, Holders
  <2>2. g = "handler" => Registered(c) /\ AfterWrite(pc[c][g], ok) = "done"
    BY <2>1 DEF Writing, AfterWrite, Registered, Control, ControlOf, ProgramCounters
  <2> QED BY <2>1, <2>2, GotoRegisters
<1> QED BY <1>1, <1>2, <1>3, <1>4, <1>5, <1>6 DEF Reader, Goroutine

\* Control holds in every reachable state.
THEOREM ControlCorrect == Spec => []Control
<1>1. Init => Control
  BY DEF Init, Control, NoPanic, ControlOf, ProgramCounters, Beginnings, Endings, Holders,
         Registered, Goroutines
<1> QED BY <1>1, ControlStep, TypeCorrect, PTL DEF Spec

\* No channel is closed twice and nothing is sent on a closed channel.
THEOREM HubNeverPanics == Spec => []NoPanic
<1>1. Control => NoPanic
  BY DEF Control
<1> QED BY <1>1, ControlCorrect, PTL

\* A closed connection is unknown to the hub and its channel is closed.
THEOREM ClosedIsForgotten == Spec => []ClosedMeansForgotten
<1>1. TypeOK /\ Control => ClosedMeansForgotten
  BY DEF TypeOK, Control, ControlOf, Beginnings, Endings, ClosedMeansForgotten
<1> QED BY <1>1, TypeCorrect, ControlCorrect, PTL

-----------------------------------------------------------------------------
(* The streams: a broadcast numbered n is where it must be, for every n.    *)

InHand(c) == IF pc[c]["writer"] = "message" THEN 1 ELSE 0

\* The broadcasts the write pump of c has taken, by the last one's number.
Taken(c) == joined[c] + Len(wire[c]) + InHand(c)

Owed(c) == IF c \in todo THEN 1 ELSE 0

\* What is in the pump's hand and in the channel continues what was written.
Contiguous(c) ==
  /\ pc[c]["writer"] = "message" => hand[c] = joined[c] + Len(wire[c]) + 1
  /\ pc[c]["writer"] # "done" => \A i \in 1..Len(send[c]) : send[c][i] = Taken(c) + i
  /\ Taken(c) + Len(send[c]) <= seq
  /\ ~Registered(c) => send[c] = <<>> /\ wire[c] = <<>>

\* A client of the hub has been handed everything, but for the one message a
\* write pump loses when its write fails.
Complete(c) ==
  c \in clients =>
    \/ seq = Taken(c) + Len(send[c]) + Owed(c)
    \/ pc[c]["writer"] = "done" /\ seq = Taken(c) + Len(send[c]) + Owed(c) + 1

StreamOf(c) == Contiguous(c) /\ Complete(c)

Streams == \A c \in Clients : StreamOf(c)

\* A connection whose channel, hand and history a step leaves alone keeps its
\* place in the stream, whatever else its write pump turns to.
LEMMA StreamKept ==
  ASSUME TypeOK, NEW c \in Clients, StreamOf(c),
         seq' = seq, joined'[c] = joined[c], wire'[c] = wire[c], send'[c] = send[c],
         hand'[c] = hand[c], c \in clients' => c \in clients,
         c \in clients' => (c \in todo' <=> c \in todo),
         Registered(c)' <=> Registered(c),
         \/ pc'[c]["writer"] = pc[c]["writer"]
         \/ pc'[c]["writer"] # "message" /\ pc[c]["writer"] \notin {"message", "done"}
  PROVE  StreamOf(c)'
<1>1. Taken(c)' = Taken(c)
  BY DEF Taken, InHand
<1>2. Taken(c) \in Nat
  BY DEF Taken, InHand, TypeOK
<1>3. Contiguous(c)'
  BY <1>1 DEF StreamOf, Contiguous
<1>4. c \in clients' => Owed(c)' = Owed(c)
  BY DEF Owed
<1>5. Complete(c)'
  BY <1>1, <1>4 DEF StreamOf, Complete
<1> QED BY <1>3, <1>5 DEF StreamOf

\* Streams is inductive, given types and control.
LEMMA StreamsStep == TypeOK /\ Control /\ Streams /\ [Next]_vars => Streams'
<1> SUFFICES ASSUME TypeOK, Control, Streams, [Next]_vars, NEW d \in Clients
             PROVE  StreamOf(d)'
  BY DEF Streams
<1>b. Goroutines = {"handler", "reader", "writer"}
  BY DEF Goroutines
<1>t. /\ seq \in Nat /\ joined[d] \in Nat /\ hand[d] \in Nat
      /\ send[d] \in Seq(Nat) /\ wire[d] \in Seq(Nat) /\ Taken(d) \in Nat
      /\ Len(send[d]) \in Nat /\ Len(wire[d]) \in Nat /\ StreamOf(d)
  BY DEF TypeOK, Taken, InHand, Streams
<1> USE DEF hubVars, connVars, streamVars
<1>1. CASE SendCheck \/ UNCHANGED vars
  BY <1>1, <1>t, StreamKept DEF SendCheck, vars, Registered
<1>2. CASE HubReceive
  <2>1. Taken(d)' = Taken(d) /\ send' = send /\ clients' = clients /\ seq' = seq + 1
    BY <1>2 DEF HubReceive, Taken, InHand
  <2>2. Contiguous(d)'
    BY <1>2, <1>t, <2>1 DEF HubReceive, StreamOf, Contiguous, Registered
  <2>3. d \in clients => Owed(d) = 0 /\ Owed(d)' = 1
    BY <1>2 DEF HubReceive, HubIdle, Owed
  <2>4. Complete(d)'
    BY <1>2, <1>t, <2>1, <2>3 DEF HubReceive, StreamOf, Complete
  <2> QED BY <2>2, <2>4 DEF StreamOf
<1>3. ASSUME NEW c \in Clients, HubRegister(c) PROVE StreamOf(d)'
  <2>1. CASE d = c
    <3>1. /\ ~Registered(d) /\ seq' = seq /\ joined'[d] = seq /\ send' = send /\ wire' = wire
          /\ pc'[d]["writer"] = "select" /\ d \notin todo'
      BY <1>3, <2>1 DEF HubRegister, HubIdle, At, Registered, TypeOK
    <3>2. send[d] = <<>> /\ wire[d] = <<>>
      BY <3>1, <1>t DEF StreamOf, Contiguous
    <3>3. Taken(d)' = seq /\ Owed(d)' = 0
      BY <3>1, <3>2, <1>t DEF Taken, InHand, Owed
    <3>4. Registered(d)'
      BY <1>3, <2>1 DEF HubRegister, Registered, TypeOK
    <3>5. Contiguous(d)'
      BY <3>1, <3>2, <3>3, <3>4, <1>t DEF Contiguous
    <3>6. Complete(d)'
      BY <3>1, <3>2, <3>3, <1>t DEF Complete
    <3> QED BY <3>5, <3>6 DEF StreamOf
  <2>2. CASE d # c
    <3>1. pc'[d] = pc[d] /\ joined'[d] = joined[d] /\ (d \in clients' <=> d \in clients)
      BY <1>3, <2>2 DEF HubRegister, TypeOK
    <3> QED BY <1>3, <1>t, <3>1, StreamKept DEF HubRegister, Registered
  <2> QED BY <2>1, <2>2
<1>4. ASSUME NEW c \in Clients, HubUnregister(c) PROVE StreamOf(d)'
  BY <1>4, <1>t, StreamKept DEF HubUnregister, Forget, Registered
<1>5. ASSUME NEW c \in Clients, HubOffer(c) PROVE StreamOf(d)'
  <2>1. CASE d = c /\ Len(send[c]) < Cap
    <3>1. /\ d \in clients /\ Owed(d) = 1 /\ Owed(d)' = 0 /\ seq' = seq /\ clients' = clients
          /\ Taken(d)' = Taken(d) /\ pc' = pc /\ hand' = hand /\ joined' = joined /\ wire' = wire
          /\ send'[d] = Append(send[d], seq)
      BY <1>5, <2>1 DEF HubOffer, Owed, Taken, InHand, Control, TypeOK
    <3>2. /\ Len(send'[d]) = Len(send[d]) + 1
          /\ \A i \in 1..Len(send[d]) : send'[d][i] = send[d][i]
          /\ send'[d][Len(send[d]) + 1] = seq
      BY <3>1, <1>t
    <3>3. /\ pc[d]["writer"] # "done" => seq = Taken(d) + Len(send[d]) + 1
          /\ Taken(d) + Len(send[d]) + 1 <= seq
      BY <3>1, <1>t DEF StreamOf, Complete
    <3>4. Registered(d)
      BY <3>1 DEF Control, ControlOf, Beginnings
    <3>5. ASSUME pc[d]["writer"] # "done", NEW i \in 1..Len(send'[d])
          PROVE  send'[d][i] = Taken(d) + i
      <4>1. i \in Nat /\ (i \in 1..Len(send[d]) \/ i = Len(send[d]) + 1)
        BY <3>2, <1>t
      <4>2. CASE i \in 1..Len(send[d])
        <5>1. send[d][i] = Taken(d) + i
          BY <3>5, <4>2, <1>t DEF StreamOf, Contiguous
        <5> QED BY <5>1, <4>2, <3>2
      <4>3. CASE i = Len(send[d]) + 1
        <5>1. Taken(d) + i = Taken(d) + Len(send[d]) + 1
          BY <4>3, <1>t
        <5> QED BY <5>1, <4>3, <3>2, <3>3, <3>5
      <4> QED BY <4>1, <4>2, <4>3
    <3>7. Contiguous(d)'
      <4>1. Taken(d)' + Len(send'[d]) <= seq'
        BY <3>1, <3>2, <3>3, <1>t
      <4>2. pc'[d]["writer"] = "message" => hand'[d] = joined'[d] + Len(wire'[d]) + 1
        BY <3>1, <1>t DEF StreamOf, Contiguous
      <4>3. Registered(d)'
        BY <3>1, <3>4 DEF Registered
      <4>4. pc'[d]["writer"] # "done" => \A i \in 1..Len(send'[d]) : send'[d][i] = Taken(d)' + i
        BY <3>1, <3>5
      <4> QED BY <4>1, <4>2, <4>3, <4>4 DEF Contiguous
    <3>6. Complete(d)'
      BY <3>1, <3>2, <1>t DEF StreamOf, Complete
    <3> QED BY <3>7, <3>6 DEF StreamOf
  <2>2. CASE ~(d = c /\ Len(send[c]) < Cap)
    <3>1. /\ seq' = seq /\ pc' = pc /\ hand' = hand /\ joined' = joined /\ wire' = wire
          /\ clients' \subseteq clients
      BY <1>5 DEF HubOffer, Forget
    <3>2. send'[d] = send[d]
      BY <1>5, <2>2 DEF HubOffer, TypeOK
    <3>3. d \in clients' => (d \in todo' <=> d \in todo)
      BY <1>5, <2>2 DEF HubOffer, Forget
    <3> QED BY <3>1, <3>2, <3>3, <1>t, StreamKept DEF Registered
  <2> QED BY <2>1, <2>2
<1>6. ASSUME NEW c \in Clients, Connect(c) \/ Reader(c) PROVE StreamOf(d)'
  <2>1. UNCHANGED <<hubVars, send, hand, joined, wire>>
    BY <1>6 DEF Connect, Reader, ReaderCheck, ReadData, ReadError, Pong
  <2>2. Registered(d)' <=> Registered(d)
    BY <1>6, RegisteredKept
  <2>3. pc'[d]["writer"] = pc[d]["writer"]
    <3>1. CASE Pong(c)
      BY <3>1 DEF Pong
    <3>2. CASE Connect(c) \/ ReaderCheck(c) \/ ReadData(c) \/ ReadError(c)
      <4>1. \E g \in {"handler", "reader"}, to \in PCs : Goto(c, g, to)
        BY <3>2 DEF Connect, ReaderCheck, ReadData, ReadError, PCs, Writing, Closing
      <4> QED BY <4>1, <1>b DEF Goto, TypeOK
    <3> QED BY <1>6, <3>1, <3>2 DEF Reader
  <2> QED BY <2>1, <2>2, <2>3, <1>t, StreamKept
<1>7. ASSUME NEW c \in Clients, Writer(c) PROVE StreamOf(d)'
  <2>1. CASE d = c /\ TakeMessage(c)
    <3>1. /\ send[d] # <<>> /\ send'[d] = Tail(send[d]) /\ hand'[d] = Head(send[d])
          /\ pc[d]["writer"] = "select" /\ pc'[d]["writer"] = "message"
          /\ UNCHANGED <<hubVars, joined, wire>>
      BY <2>1, <1>b DEF TakeMessage, At, Goto, TypeOK
    <3>2. /\ Len(send'[d]) = Len(send[d]) - 1 /\ Len(send[d]) > 0
          /\ \A i \in 1..Len(send'[d]) : send'[d][i] = send[d][i + 1]
          /\ hand'[d] = send[d][1]
      BY <3>1, <1>t
    <3>3. Taken(d)' = Taken(d) + 1 /\ Taken(d) = joined[d] + Len(wire[d])
      BY <3>1, <1>t DEF Taken, InHand
    <3>4. Registered(d)' <=> Registered(d)
      BY <2>1, <1>b DEF TakeMessage, Goto, Registered, TypeOK
    <3>5. Registered(d)
      BY <3>1 DEF Control, ControlOf, Beginnings
    <3>6. hand'[d] = joined[d] + Len(wire[d]) + 1
      <4>1. 1 \in 1..Len(send[d]) /\ pc[d]["writer"] # "done"
        BY <3>1, <3>2, <1>t
      <4>2. send[d][1] = Taken(d) + 1
        BY <4>1, <1>t DEF StreamOf, Contiguous
      <4> QED BY <3>2, <3>3, <4>2
    <3>7. \A i \in 1..Len(send'[d]) : send'[d][i] = Taken(d)' + i
      <4> SUFFICES ASSUME NEW i \in 1..Len(send'[d]) PROVE send'[d][i] = Taken(d)' + i
        OBVIOUS
      <4>1. i + 1 \in 1..Len(send[d])
        BY <3>2, <1>t
      <4>2. send[d][i + 1] = Taken(d) + (i + 1)
        BY <4>1, <3>1, <1>t DEF StreamOf, Contiguous
      <4>3. send'[d][i] = send[d][i + 1]
        BY <3>2
      <4>4. i \in Nat
        OBVIOUS
      <4>5. Taken(d) + (i + 1) = (Taken(d) + 1) + i
        BY <4>4, <1>t
      <4> QED BY <4>2, <4>3, <4>5, <3>3
    <3>8. Contiguous(d)'
      <4>1. Taken(d)' + Len(send'[d]) <= seq'
        BY <3>1, <3>2, <3>3, <1>t DEF StreamOf, Contiguous
      <4>2. hand'[d] = joined'[d] + Len(wire'[d]) + 1
        BY <3>1, <3>6
      <4> QED BY <3>4, <3>5, <3>7, <4>1, <4>2 DEF Contiguous
    <3>9. Complete(d)'
      BY <3>1, <3>2, <3>3, <1>t DEF StreamOf, Complete, Owed
    <3> QED BY <3>8, <3>9 DEF StreamOf
  <2>2. CASE ~(d = c /\ TakeMessage(c))
    <3>1. UNCHANGED <<hubVars, joined, wire>>
      BY <1>7 DEF Writer, PingTick, TtlTick, TakeMessage, SendDrained, SeeClosed
    <3>2. send'[d] = send[d] /\ hand'[d] = hand[d]
      BY <1>7, <2>2 DEF Writer, PingTick, TtlTick, TakeMessage, SendDrained, SeeClosed, TypeOK
    <3>3. /\ Registered(d)' <=> Registered(d)
          /\ \/ pc'[d]["writer"] = pc[d]["writer"]
             \/ pc[d]["writer"] = "select" /\ pc'[d]["writer"] # "message"
      BY <1>7, <2>2, <1>b DEF Writer, PingTick, TtlTick, TakeMessage, SendDrained, SeeClosed,
                              Goto, At, Registered, TypeOK
    <3> QED BY <3>1, <3>2, <3>3, <1>t, StreamKept
  <2> QED BY <2>1, <2>2
<1>8. ASSUME NEW c \in Clients, NEW g \in Goroutines,
             Lock(c, g) \/ CloseBegin(c, g) \/ CloseReturn(c, g)
      PROVE  StreamOf(d)'
  <2>1. UNCHANGED <<hubVars, send, hand, joined, wire>>
    BY <1>8 DEF Lock, CloseBegin, CloseReturn
  <2>2. Registered(d)' <=> Registered(d)
    BY <1>8, RegisteredKept DEF Goroutine
  <2>3. \/ pc'[d]["writer"] = pc[d]["writer"]
        \/ pc[d]["writer"] \in Closing /\ pc'[d]["writer"] \in {"check", "done"}
    BY <1>8, <1>b DEF Lock, CloseBegin, CloseReturn, Goto, At, TypeOK
  <2> QED BY <2>1, <2>2, <2>3, <1>t, StreamKept DEF Closing
<1>9. ASSUME NEW c \in Clients, NEW g \in Goroutines, NEW ok \in BOOLEAN, WriteFrame(c, g, ok)
      PROVE  StreamOf(d)'
  <2>1. pc[c][g] \in Writing
    BY <1>9 DEF WriteFrame, Control, ControlOf, Holders
  <2>2. Registered(d)' <=> Registered(d)
    BY <1>9, RegisteredKept DEF Goroutine
  <2>3. CASE d = c /\ pc[c][g] = "message"
    <3>1. g = "writer"
      BY <2>3, <1>b DEF Control, ControlOf, ProgramCounters
    <3>2. /\ pc[d]["writer"] = "message"
          /\ pc'[d]["writer"] = IF ok THEN "select" ELSE "done"
          /\ wire'[d] = IF ok THEN Append(wire[d], hand[d]) ELSE wire[d]
          /\ UNCHANGED <<hubVars, joined, send>>
      BY <1>9, <2>3, <3>1, <1>b DEF WriteFrame, At, Goto, AfterWrite, TypeOK
    <3>3. Len(wire'[d]) = IF ok THEN Len(wire[d]) + 1 ELSE Len(wire[d])
      BY <3>2, <1>t
    <3>4. Taken(d)' = IF ok THEN Taken(d) ELSE Taken(d) - 1
      BY <3>2, <3>3, <1>t DEF Taken, InHand
    <3>5. Contiguous(d)'
      <4>1. Registered(d)
        BY <3>2 DEF Control, ControlOf, Beginnings
      <4>2. pc'[d]["writer"] # "message" /\ send'[d] = send[d] /\ seq' = seq
        BY <3>2
      <4>3. Taken(d)' + Len(send'[d]) <= seq'
        BY <3>4, <4>2, <1>t DEF StreamOf, Contiguous
      <4>4. pc'[d]["writer"] # "done" => \A i \in 1..Len(send'[d]) : send'[d][i] = Taken(d)' + i
        BY <3>2, <3>4, <4>2, <1>t DEF StreamOf, Contiguous
      <4> QED BY <2>2, <4>1, <4>2, <4>3, <4>4 DEF Contiguous
    <3>6. Complete(d)'
      BY <3>2, <3>4, <1>t DEF StreamOf, Complete, Owed
    <3> QED BY <3>5, <3>6 DEF StreamOf
  <2>4. CASE ~(d = c /\ pc[c][g] = "message")
    <3>1. UNCHANGED <<hubVars, joined, send>> /\ wire'[d] = wire[d] /\ hand'[d] = hand[d]
      BY <1>9, <2>4 DEF WriteFrame, At, TypeOK
    <3>2. \/ pc'[d]["writer"] = pc[d]["writer"]
          \/ pc[d]["writer"] \in Writing \ {"message"} /\ pc'[d]["writer"] # "message"
      BY <1>9, <2>1, <2>4, <1>b DEF WriteFrame, Goto, AfterWrite, TypeOK
    <3> QED BY <2>2, <3>1, <3>2, <1>t, StreamKept DEF Writing
  <2> QED BY <2>3, <2>4
<1>10. ASSUME NEW c \in Clients, CloseConn(c) PROVE StreamOf(d)'
  BY <1>10, <1>t, StreamKept DEF CloseConn, Registered
<1> QED BY <1>1, <1>2, <1>3, <1>4, <1>5, <1>6, <1>7, <1>8, <1>9, <1>10
        DEF Next, Hub, Goroutine, Idle

\* Every client's place in the stream is right in every reachable state.
THEOREM StreamsCorrect == Spec => []Streams
<1>1. Init => Streams
  BY DEF Init, Streams, StreamOf, Contiguous, Complete, Taken, InHand, Registered, Goroutines
<1> QED BY <1>1, StreamsStep, TypeCorrect, ControlCorrect, PTL DEF Spec

\* What a client has not been sent is in hand, in the channel, owed or lost.
LEMMA LagArithmetic ==
  ASSUME NEW s \in Nat, NEW j \in Nat, NEW w \in Nat, NEW m \in Nat, NEW n \in Nat,
         NEW h \in {0, 1}, NEW o \in {0, 1}, m <= n,
         \/ s = j + w + h + m + o
         \/ h = 0 /\ s = j + w + h + m + o + 1
  PROVE  s - (j + w) <= n + 2
OBVIOUS

\* A client the hub serves never falls more than Cap + 2 broadcasts behind.
THEOREM LagIsBounded == Spec => []LagBounded
<1>1. TypeOK /\ Streams => LagBounded
  <2> SUFFICES ASSUME TypeOK, Streams, NEW c \in clients
               PROVE  seq - (joined[c] + Len(wire[c])) <= Cap + 2
    BY DEF LagBounded
  <2>1. /\ seq \in Nat /\ joined[c] \in Nat /\ Len(wire[c]) \in Nat
        /\ Len(send[c]) \in Nat /\ Len(send[c]) <= Cap
    BY DEF TypeOK
  <2>2. InHand(c) \in {0, 1} /\ Owed(c) \in {0, 1} /\ (pc[c]["writer"] = "done" => InHand(c) = 0)
    BY DEF InHand, Owed
  <2>3. \/ seq = Taken(c) + Len(send[c]) + Owed(c)
        \/ pc[c]["writer"] = "done" /\ seq = Taken(c) + Len(send[c]) + Owed(c) + 1
    BY DEF TypeOK, Streams, StreamOf, Complete
  <2>4. \/ seq = joined[c] + Len(wire[c]) + InHand(c) + Len(send[c]) + Owed(c)
        \/ InHand(c) = 0 /\ seq = joined[c] + Len(wire[c]) + InHand(c) + Len(send[c]) + Owed(c) + 1
    BY <2>2, <2>3 DEF Taken
  <2>5. Cap \in Nat
    BY CapAssumption
  <2> QED BY <2>1, <2>2, <2>4, <2>5, LagArithmetic
<1> QED BY <1>1, TypeCorrect, StreamsCorrect, PTL

-----------------------------------------------------------------------------
(* The hub implements Broadcast: registering is joining, the rendezvous on  *)
(* hub.broadcast publishes, a successful write of a message delivers it,    *)
(* and no other step shows.                                                 *)

Members == {c \in Clients : Registered(c)}

\* A step that registers nobody keeps the members.
LEMMA MembersKept ==
  ASSUME \A c \in Clients : Registered(c)' <=> Registered(c)
  PROVE  Members' = Members
BY DEF Members

\* Every step of the hub and its connections is a step of Broadcast or shows nothing.
LEMMA BroadcastStep ==
  TypeOK /\ Control /\ Streams /\ [Next]_vars => [Promise!Next]_(Promise!vars)
<1> SUFFICES ASSUME TypeOK, Control, Streams, [Next]_vars
             PROVE  [Promise!Next]_(Promise!vars)
  OBVIOUS
<1> DEFINE Hidden == seq' = seq /\ Members' = Members /\ joined' = joined /\ wire' = wire
<1>h. Hidden => [Promise!Next]_(Promise!vars)
  BY DEF Promise!vars, Members
<1>b. Goroutines = {"handler", "reader", "writer"}
  BY DEF Goroutines
<1> USE DEF hubVars, connVars, streamVars
<1> HIDE DEF Hidden
<1>1. CASE SendCheck \/ UNCHANGED vars
  BY <1>1, <1>h, MembersKept DEF SendCheck, vars, Registered, Hidden
<1>2. CASE HubReceive
  <2>1. Members' = Members
    BY <1>2, MembersKept DEF HubReceive, Registered
  <2> QED BY <1>2, <2>1 DEF HubReceive, Promise!Next, Promise!Publish, Members
<1>3. ASSUME NEW c \in Clients, HubRegister(c) PROVE [Promise!Next]_(Promise!vars)
  <2>1. c \notin Members
    BY <1>3 DEF HubRegister, At, Members, Registered
  <2>2. Members' = Members \cup {c}
    <3>1. pc'[c]["handler"] = "hello" /\ \A d \in Clients \ {c} : pc'[d] = pc[d]
      BY <1>3 DEF HubRegister, TypeOK
    <3> QED BY <3>1 DEF Members, Registered
  <2>3. seq' = seq /\ joined' = [joined EXCEPT ![c] = seq] /\ wire' = wire
    BY <1>3 DEF HubRegister
  <2>4. Promise!Join(c)
    BY <2>1, <2>2, <2>3 DEF Promise!Join, Members
  <2> QED BY <2>4 DEF Promise!Next
<1>4. ASSUME NEW c \in Clients, HubUnregister(c) \/ HubOffer(c) \/ CloseConn(c)
      PROVE  [Promise!Next]_(Promise!vars)
  BY <1>4, <1>h, MembersKept DEF HubUnregister, HubOffer, CloseConn, Registered, Hidden
<1>5. ASSUME NEW c \in Clients, Connect(c) \/ Reader(c) \/ Writer(c)
      PROVE  [Promise!Next]_(Promise!vars)
  <2>1. seq' = seq /\ joined' = joined /\ wire' = wire
    BY <1>5 DEF Connect, Reader, ReaderCheck, ReadData, ReadError, Pong,
                Writer, PingTick, TtlTick, TakeMessage, SendDrained, SeeClosed
  <2>2. \A d \in Clients : Registered(d)' <=> Registered(d)
    BY <1>5, RegisteredKept
  <2> QED BY <1>h, <2>1, <2>2, MembersKept DEF Hidden
<1>6. ASSUME NEW c \in Clients, NEW g \in Goroutines,
             Lock(c, g) \/ CloseBegin(c, g) \/ CloseReturn(c, g)
      PROVE  [Promise!Next]_(Promise!vars)
  <2>1. seq' = seq /\ joined' = joined /\ wire' = wire
    BY <1>6 DEF Lock, CloseBegin, CloseReturn
  <2>2. ASSUME NEW d \in Clients PROVE Registered(d)' <=> Registered(d)
    BY <1>6, RegisteredKept DEF Goroutine
  <2> QED BY <1>h, <2>1, <2>2, MembersKept DEF Hidden
<1>7. ASSUME NEW c \in Clients, NEW g \in Goroutines, NEW ok \in BOOLEAN, WriteFrame(c, g, ok)
      PROVE  [Promise!Next]_(Promise!vars)
  <2>1. pc[c][g] \in Writing
    BY <1>7 DEF WriteFrame, Control, ControlOf, Holders
  <2>2. Members' = Members
    <3>1. ASSUME NEW d \in Clients PROVE Registered(d)' <=> Registered(d)
      BY <1>7, RegisteredKept DEF Goroutine
    <3> QED BY <3>1, MembersKept
  <2>3. seq' = seq /\ joined' = joined
    BY <1>7 DEF WriteFrame
  <2>4. CASE pc[c][g] = "message" /\ ok
    <3>1. pc[c]["writer"] = "message"
      BY <2>4, <1>b DEF Control, ControlOf, ProgramCounters
    <3>2. wire' = [wire EXCEPT ![c] = Append(@, hand[c])]
      BY <1>7, <2>4 DEF WriteFrame, At
    <3>3. /\ hand[c] = joined[c] + Len(wire[c]) + 1
          /\ hand[c] <= seq
      <4>1. Contiguous(c)
        BY DEF Streams, StreamOf
      <4>2. Len(send[c]) \in Nat /\ joined[c] \in Nat /\ Len(wire[c]) \in Nat /\ seq \in Nat
        BY DEF TypeOK
      <4> QED BY <3>1, <4>1, <4>2 DEF Contiguous, Taken, InHand
    <3>4. c \in Members
      BY <3>1 DEF Control, ControlOf, Beginnings, Members
    <3>5. Promise!Deliver(c)
      BY <2>2, <2>3, <3>2, <3>3, <3>4 DEF Promise!Deliver, Members
    <3> QED BY <3>5 DEF Promise!Next
  <2>5. CASE ~(pc[c][g] = "message" /\ ok)
    <3>1. wire' = wire
      BY <1>7, <2>5 DEF WriteFrame, At
    <3> QED BY <1>h, <2>2, <2>3, <3>1 DEF Hidden
  <2> QED BY <2>4, <2>5
<1> QED BY <1>1, <1>2, <1>3, <1>4, <1>5, <1>6, <1>7 DEF Next, Hub, Goroutine, Idle

\* Every behaviour of the socket proxy is a behaviour of Broadcast: no client ever reads a gap,
\* a repetition or a reordering, whoever is slow, dropped or closed.
THEOREM SubscribersReadInOrder == Spec => InOrder
<1>1. Init => Promise!Init
  BY DEF Init, Promise!Init, Registered, Goroutines
<1> QED BY <1>1, BroadcastStep, TypeCorrect, ControlCorrect, StreamsCorrect, PTL
        DEF Spec, InOrder, Promise!Spec

-----------------------------------------------------------------------------
(* The ends of a connection.                                                *)

\* The read pump ends only when closeHandler has been called; the write pump then, or
\* when a write has failed, or when the hub has dropped the client. While closeOnce runs
\* somebody runs it, and when it has run the connection is closed.
AttendedOf(c) ==
  /\ At(c, "reader", "done") => closer[c] # "idle"
  /\ At(c, "writer", "done") => closer[c] # "idle" \/ conn[c] # "open" \/ sendClosed[c]
  /\ closer[c] \in {"unregister", "conn"} => \E g \in Goroutines : pc[c][g] \in Closing
  /\ closer[c] = "done" => conn[c] = "closed"

Attended == \A c \in Clients : AttendedOf(c)

\* Nothing that has ended begins again.
LEMMA EndsStay ==
  ASSUME TypeOK, [Next]_vars, NEW d \in Clients
  PROVE  /\ closer[d] # "idle" => closer'[d] # "idle"
         /\ conn[d] # "open" => conn'[d] # "open"
         /\ conn[d] = "closed" => conn'[d] = "closed"
         /\ sendClosed[d] => sendClosed'[d]
<1>1. (closer[d] # "idle" => closer'[d] # "idle")
  <2>1. CASE UNCHANGED closer
    BY <2>1
  <2>2. ASSUME NEW c \in Clients, HubUnregister(c) PROVE closer[d] # "idle" => closer'[d] # "idle"
    BY <2>2 DEF HubUnregister, TypeOK
  <2>3. ASSUME NEW c \in Clients, CloseConn(c) PROVE closer[d] # "idle" => closer'[d] # "idle"
    BY <2>3 DEF CloseConn, TypeOK
  <2>4. ASSUME NEW c \in Clients, NEW g \in Goroutines, CloseBegin(c, g)
        PROVE  closer[d] # "idle" => closer'[d] # "idle"
    BY <2>4 DEF CloseBegin, TypeOK
  <2> QED BY <2>1, <2>2, <2>3, <2>4
          DEF Next, SendCheck, Hub, HubReceive, HubRegister, HubOffer, Connect, Reader, ReaderCheck,
              ReadData, ReadError, Pong, Writer, PingTick, TtlTick, TakeMessage, SendDrained, SeeClosed,
              Goroutine, Lock, WriteFrame, CloseReturn, Idle, connVars, vars
<1>2. (conn[d] # "open" => conn'[d] # "open") /\ (conn[d] = "closed" => conn'[d] = "closed")
  <2>1. CASE UNCHANGED conn
    BY <2>1
  <2>2. ASSUME NEW c \in Clients, CloseConn(c)
        PROVE  (conn[d] # "open" => conn'[d] # "open") /\ (conn[d] = "closed" => conn'[d] = "closed")
    BY <2>2 DEF CloseConn, TypeOK
  <2>3. ASSUME NEW c \in Clients, NEW g \in Goroutines, NEW ok \in BOOLEAN, WriteFrame(c, g, ok)
        PROVE  (conn[d] # "open" => conn'[d] # "open") /\ (conn[d] = "closed" => conn'[d] = "closed")
    BY <2>3 DEF WriteFrame, TypeOK
  <2> QED BY <2>1, <2>2, <2>3
          DEF Next, SendCheck, Hub, HubReceive, HubRegister, HubUnregister, HubOffer, Connect, Reader,
              ReaderCheck, ReadData, ReadError, Pong, Writer, PingTick, TtlTick, TakeMessage,
              SendDrained, SeeClosed, Goroutine, Lock, CloseBegin, CloseReturn, Idle, connVars, vars
<1>3. sendClosed[d] => sendClosed'[d]
  <2>1. CASE UNCHANGED sendClosed
    BY <2>1
  <2>2. ASSUME NEW c \in Clients, Forget(c) PROVE sendClosed[d] => sendClosed'[d]
    BY <2>2 DEF Forget, CloseSend, TypeOK
  <2> QED BY <2>1, <2>2
          DEF Next, SendCheck, Hub, HubReceive, HubRegister, HubUnregister, HubOffer, Connect, Reader,
              ReaderCheck, ReadData, ReadError, Pong, Writer, PingTick, TtlTick, TakeMessage,
              SendDrained, SeeClosed, Goroutine, Lock, WriteFrame, CloseBegin, CloseConn, CloseReturn,
              Idle, streamVars, vars
<1> QED BY <1>1, <1>2, <1>3

LEMMA AttendedStep == TypeOK /\ Control /\ Attended /\ [Next]_vars => Attended'
<1> SUFFICES ASSUME TypeOK, Control, Attended, [Next]_vars, NEW d \in Clients
             PROVE  AttendedOf(d)'
  BY DEF Attended
<1>0. /\ AttendedOf(d) /\ ControlOf(d) /\ Goroutines = {"handler", "reader", "writer"}
      /\ pc \in [Clients -> [Goroutines -> PCs]] /\ closer[d] \in {"idle", "unregister", "conn", "done"}
  BY DEF Attended, Control, Goroutines, TypeOK
<1>s. /\ closer[d] # "idle" => closer'[d] # "idle"
      /\ conn[d] # "open" => conn'[d] # "open"
      /\ conn[d] = "closed" => conn'[d] = "closed"
      /\ sendClosed[d] => sendClosed'[d]
  BY EndsStay
<1>1. CASE UNCHANGED <<pc, closer>>
  BY <1>0, <1>1, <1>s DEF AttendedOf, At
<1>2. ASSUME NEW c \in Clients, NEW g \in Goroutines, NEW to, Goto(c, g, to), UNCHANGED closer,
             pc[c][g] \notin Closing \/ closer[c] = "done",
             c = d /\ g = "reader" /\ to = "done" => closer[d] # "idle",
             c = d /\ g = "writer" /\ to = "done" =>
               closer[d] # "idle" \/ conn'[d] # "open" \/ sendClosed[d]
      PROVE  AttendedOf(d)'
  <2>1. \A h \in Goroutines : pc'[d][h] = IF d = c /\ h = g THEN to ELSE pc[d][h]
    BY <1>0, <1>2 DEF Goto
  <2>2. At(d, "reader", "done")' => closer'[d] # "idle"
    BY <1>0, <1>2, <2>1 DEF AttendedOf, At
  <2>3. At(d, "writer", "done")' => closer'[d] # "idle" \/ conn'[d] # "open" \/ sendClosed'[d]
    BY <1>0, <1>2, <1>s, <2>1 DEF AttendedOf, At
  <2>4. closer'[d] \in {"unregister", "conn"} => \E h \in Goroutines : pc'[d][h] \in Closing
    BY <1>0, <1>2, <2>1 DEF AttendedOf
  <2> QED BY <1>0, <1>2, <1>s, <2>2, <2>3, <2>4 DEF AttendedOf
<1>3. ASSUME NEW c \in Clients, Connect(c) PROVE AttendedOf(d)'
  BY <1>0, <1>2, <1>3 DEF Connect, connVars, At, Closing
<1>4. ASSUME NEW c \in Clients, HubRegister(c) PROVE AttendedOf(d)'
  <2>1. c # d => pc'[d] = pc[d]
    BY <1>0, <1>4 DEF HubRegister
  <2>2. c = d => closer[d] = "idle" /\ pc'[d] = [handler |-> "hello", reader |-> "check", writer |-> "select"]
    BY <1>0, <1>4 DEF HubRegister, ControlOf, Beginnings, Registered, At
  <2> QED BY <1>0, <1>4, <1>s, <2>1, <2>2 DEF HubRegister, connVars, AttendedOf, At
<1>5. ASSUME NEW c \in Clients, HubUnregister(c) \/ CloseConn(c) PROVE AttendedOf(d)'
  <2>1. pc' = pc
    BY <1>5 DEF HubUnregister, CloseConn
  <2>2. CASE c # d
    <3>1. closer'[d] = closer[d]
      BY <1>5, <2>2 DEF HubUnregister, CloseConn, TypeOK
    <3> QED BY <1>0, <1>s, <2>1, <3>1 DEF AttendedOf, At
  <2>3. CASE c = d /\ HubUnregister(c)
    <3>1. closer[d] = "unregister" /\ closer'[d] = "conn"
      BY <2>3 DEF HubUnregister, TypeOK
    <3> QED BY <1>0, <1>s, <2>1, <3>1 DEF AttendedOf, At
  <2>4. CASE c = d /\ CloseConn(c)
    <3>1. closer'[d] = "done" /\ conn'[d] = "closed"
      BY <2>4 DEF CloseConn, TypeOK
    <3> QED BY <1>0, <1>s, <2>1, <3>1 DEF AttendedOf, At
  <2> QED BY <1>5, <2>2, <2>3, <2>4
<1>6. ASSUME NEW c \in Clients, NEW g \in Goroutines, CloseBegin(c, g) PROVE AttendedOf(d)'
  <2>1. pc' = pc /\ (c # d => closer'[d] = closer[d])
        /\ (c = d => closer'[d] = "unregister" /\ pc[d][g] \in Closing)
    BY <1>6 DEF CloseBegin, TypeOK
  <2> QED BY <1>0, <1>s, <2>1 DEF AttendedOf, At
<1>7. ASSUME NEW c \in Clients, NEW g \in Goroutines, CloseReturn(c, g) PROVE AttendedOf(d)'
  <2>1. closer[c] = "done" /\ UNCHANGED closer
    BY <1>7 DEF CloseReturn, connVars
  <2> QED BY <1>2, <1>7, <2>1 DEF CloseReturn
<1>8. ASSUME NEW c \in Clients, Reader(c) PROVE AttendedOf(d)'
  <2>1. CASE Pong(c)
    BY <1>1, <2>1 DEF Pong
  <2>2. CASE ReaderCheck(c) \/ ReadData(c) \/ ReadError(c)
    BY <1>0, <1>2, <2>2 DEF ReaderCheck, ReadData, ReadError, connVars, At, Closing
  <2> QED BY <1>8, <2>1, <2>2 DEF Reader
<1>9. ASSUME NEW c \in Clients, Writer(c) PROVE AttendedOf(d)'
  BY <1>0, <1>2, <1>9 DEF Writer, PingTick, TtlTick, TakeMessage, SendDrained, SeeClosed,
     connVars, At, Closing
<1>10. ASSUME NEW c \in Clients, NEW g \in Goroutines, NEW ok \in BOOLEAN, WriteFrame(c, g, ok)
       PROVE  AttendedOf(d)'
  <2>1. pc[c][g] \in Writing /\ ProgramCounters(c)
    BY <1>10 DEF WriteFrame, Control, ControlOf, Holders
  <2>2. pc[c][g] \notin Closing
    BY <2>1 DEF Writing, Closing
  <2>3. g = "reader" => AfterWrite(pc[c][g], ok) # "done"
    BY <2>1 DEF ProgramCounters, Writing, AfterWrite
  <2>4. g = "writer" /\ AfterWrite(pc[c][g], ok) = "done" => ~ok
    BY <2>1 DEF ProgramCounters, Writing, AfterWrite
  <2>5. ~ok => conn'[c] # "open"
    BY <1>10 DEF WriteFrame, TypeOK
  <2> QED BY <1>2, <1>10, <2>2, <2>3, <2>4, <2>5 DEF WriteFrame
<1>11. CASE \/ SendCheck \/ HubReceive \/ UNCHANGED vars
            \/ \E c \in Clients : HubOffer(c) \/ \E g \in Goroutines : Lock(c, g)
  BY <1>1, <1>11 DEF SendCheck, HubReceive, HubOffer, Lock, connVars, vars
<1> QED BY <1>3, <1>4, <1>5, <1>6, <1>7, <1>8, <1>9, <1>10, <1>11
        DEF Next, Hub, Goroutine, Idle

\* No connection is left with nobody to close it: until someone calls closeHandler its
\* read pump is there, which the end of the connection wakes, and the write pump has
\* quit only because the connection failed or the hub dropped the client
\* (client.go:92-192).
THEOREM NoConnectionIsAbandoned == Spec => []Attended
<1>1. Init => Attended
  BY DEF Init, Attended, AttendedOf, At, Goroutines
<1> QED BY <1>1, AttendedStep, TypeCorrect, ControlCorrect, PTL DEF Spec
=============================================================================
