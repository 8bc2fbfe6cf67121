----------------------------- MODULE Broadcast -----------------------------
(* What the socket proxy promises its subscribers: broadcasts are numbered  *)
(* in the order the hub accepts them, and a subscriber that joins after     *)
(* broadcast n reads n + 1, n + 2, ... - a run without a gap, a repetition  *)
(* or a reordering. A subscriber may stop reading at any point.             *)
EXTENDS Naturals, Sequences

CONSTANT Clients

VARIABLES
  published,  \* how many broadcasts have been accepted
  members,    \* who has ever joined
  start,      \* the number of broadcasts accepted before each join
  delivered   \* what each subscriber has read

vars == <<published, members, start, delivered>>

Init ==
  /\ published = 0
  /\ members = {}
  /\ start = [c \in Clients |-> 0]
  /\ delivered = [c \in Clients |-> <<>>]

Publish ==
  /\ published' = published + 1
  /\ UNCHANGED <<members, start, delivered>>

Join(c) ==
  /\ c \notin members
  /\ members' = members \cup {c}
  /\ start' = [start EXCEPT ![c] = published]
  /\ UNCHANGED <<published, delivered>>

Deliver(c) ==
  LET next == start[c] + Len(delivered[c]) + 1 IN
  /\ c \in members
  /\ next <= published
  /\ delivered' = [delivered EXCEPT ![c] = Append(@, next)]
  /\ UNCHANGED <<published, members, start>>

Next == Publish \/ \E c \in Clients : Join(c) \/ Deliver(c)

Spec == Init /\ [][Next]_vars
=============================================================================
