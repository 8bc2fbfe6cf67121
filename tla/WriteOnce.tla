----------------------------- MODULE WriteOnce -----------------------------
(* What a store of links promises its readers: a key, once it has a value,  *)
(* keeps that value for good, and a reader gets that value or nothing.      *)
(* There are no caches and no requests in flight here.                      *)
CONSTANTS Keys, Values, None

VARIABLES
  stored,   \* the value of each key, None until it has one
  read      \* history: the values readers of each key were given

vars == <<stored, read>>

Init ==
  /\ stored \in [Keys -> Values \cup {None}]
  /\ read = [k \in Keys |-> {}]

Put(k, v) ==
  /\ stored[k] = None
  /\ stored' = [stored EXCEPT ![k] = v]
  /\ UNCHANGED read

Read(k) ==
  /\ stored[k] # None
  /\ read' = [read EXCEPT ![k] = @ \cup {stored[k]}]
  /\ UNCHANGED stored

Next == \E k \in Keys : Read(k) \/ \E v \in Values : Put(k, v)

Spec == Init /\ [][Next]_vars
=============================================================================
