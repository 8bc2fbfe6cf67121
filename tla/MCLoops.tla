------------------------------ MODULE MCLoops -------------------------------
(* Instances of Loops for TLC.                                              *)
EXTENDS Loops, TLC

\* Overlapping runs of a job are alike.
Symmetry == Permutations(Backups) \cup Permutations(ViewRuns)

\* What the actions, and the properties of the passing run, depend on: what is in
\* a dump, and what was reported of it, they never look at (but for the types of
\* good and announced, which are proved in LoopsProofs).
Control == <<dumps, last, at, doomed, file, stuck, viewVars>>
=============================================================================
