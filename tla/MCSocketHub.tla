---------------------------- MODULE MCSocketHub ----------------------------
(* Instances of SocketHub for TLC.                                          *)
EXTENDS SocketHub, TLC

\* Sound when no connection is singled out as a talker.
Symmetry == Permutations(Clients)

\* What the actions and the invariants of the two-client run depend on: which
\* broadcast a message carries, and the history of the streams, they never look
\* at. The one-client run keeps the whole state.
Control ==
  <<hubVars, pc, connVars, [c \in Clients |-> Len(send[c])], sendClosed, panicked>>
=============================================================================
