------------------------------- MODULE Loops --------------------------------
(* common/db/loops.go: the backups of Postgres with the rotation of their   *)
(* dumps, and the ClickHouse statistics that are emptied and filled again.  *)
(* Cron starts a job whether or not its last run is over, every step of a   *)
(* job may fail, and the process may be killed between any two of them. The *)
(* token jobs are in Tokens, deleteOldUploads is in Uploader.               *)
(*                                                                          *)
(* A dump is the number of its file: data_<time>.sql.zst, in the order of   *)
(* time. That is the order the rotation goes by: sortFiles asks for the     *)
(* times of dump/dump/..., which do not exist, so that nothing compares as  *)
(* smaller and the order of the names, which Glob returns, stays.           *)
EXTENDS Naturals, FiniteSets

CONSTANTS
  Backups,    \* backupPostgres runs at one time
  MaxSize,    \* dumps from which on the rotation starts (10 in the code)
  MaxDumps,   \* bound on the dumps made
  ViewRuns,   \* runs of the half-hourly job at one time
  NViews,     \* tables it fills: 1 is twitch_color_stats, which it never empties
  MaxCopies   \* bound on the copies of the data in a table

ASSUME RunsAssumption == IsFiniteSet(Backups) /\ IsFiniteSet(ViewRuns)
ASSUME SizesAssumption == MaxSize \in Nat \ {0} /\ NViews \in Nat \ {0}
ASSUME BoundsAssumption == MaxDumps \in Nat /\ MaxCopies \in Nat

VARIABLES
  dumps,      \* files in the dump directory
  good,       \* of these, the ones that hold the whole database
  last,       \* number of the newest file ever made
  at,         \* where each backup is
  doomed,     \* files a backup has still to remove
  file,       \* file a backup writes
  announced,  \* history: of the dumps, the ones reported as successful
  stuck,      \* history: of the dumps, the ones that could not be removed
  copies,     \* how often a table holds the data it is made from
  view,       \* table each run of the job is at, 0 for none
  emptied     \* whether it has emptied that table

dumpVars == <<dumps, good, last, at, doomed, file, announced, stuck>>
viewVars == <<copies, view, emptied>>
vars == <<dumpVars, viewVars>>

Move(b, to) == at' = [at EXCEPT ![b] = to]

Newer(f, files) == {g \in files : g > f}

Dumping == {b \in Backups : at[b] = "dump"}

\* backupPostgres returns.
Over(b) == Move(b, "off") /\ file' = [file EXCEPT ![b] = 0]

Init ==
  /\ dumps = {} /\ good = {} /\ last = 0
  /\ at = [b \in Backups |-> "off"]
  /\ doomed = [b \in Backups |-> {}]
  /\ file = [b \in Backups |-> 0]
  /\ announced = {} /\ stuck = {}
  /\ copies = [v \in 2..NViews |-> 0]
  /\ view = [u \in ViewRuns |-> 0]
  /\ emptied = [u \in ViewRuns |-> FALSE]
-----------------------------------------------------------------------------
(* backupPostgres                                                           *)

\* Mutant: the newest files are taken for the oldest.
DoomedNewest(files) ==
  {f \in files : Cardinality(files) > MaxSize
                 /\ Cardinality(files \ Newer(f, files)) >= MaxSize}

\* Mutant: the slice is taken up to len(files) - maxSize - 1.
DoomedFewer(files) ==
  {f \in files : Cardinality(files) > MaxSize /\ Cardinality(Newer(f, files)) >= MaxSize + 1}

\* deleteOldDumps: all but the MaxSize - 1 newest, once there are too many.
Doomed(files) ==
  {f \in files : Cardinality(files) > MaxSize /\ Cardinality(Newer(f, files)) >= MaxSize - 1}

\* MkdirAll and Glob; if they fail the run is over before it has begun.
List(b) ==
  /\ at[b] = "off"
  /\ doomed' = [doomed EXCEPT ![b] = Doomed(dumps)]
  /\ Move(b, "rotate")
  /\ UNCHANGED <<dumps, good, last, file, announced, stuck, viewVars>>

\* os.Remove, oldest first; an error is logged.
Remove(b, f) ==
  /\ at[b] = "rotate"
  /\ f \in doomed[b] /\ \A g \in doomed[b] : f <= g
  /\ doomed' = [doomed EXCEPT ![b] = @ \ {f}]
  /\ \/ /\ dumps' = dumps \ {f} /\ good' = good \ {f}
        /\ announced' = announced \ {f} /\ stuck' = stuck \ {f}
     \/ /\ stuck' = stuck \cup ({f} \cap dumps)
        /\ UNCHANGED <<dumps, good, announced>>
  /\ UNCHANGED <<last, at, file, viewVars>>

\* sh opens the file before pg_dump and zstd run.
Dump(b) ==
  /\ at[b] = "rotate" /\ doomed[b] = {}
  /\ last < MaxDumps
  /\ \/ /\ last' = last + 1
        /\ dumps' = dumps \cup {last + 1}
        /\ file' = [file EXCEPT ![b] = last + 1]
        /\ Move(b, "dump")
     \/ /\ Move(b, "off")                        \* it cannot be opened
        /\ UNCHANGED <<dumps, last, file>>
  /\ UNCHANGED <<good, doomed, announced, stuck, viewVars>>

\* pg_dump | zstd > file: the status is that of zstd, so a pg_dump that fails
\* leaves a bad file and goes on as if it had not.
DumpEnds(b) ==
  /\ at[b] = "dump"
  /\ \/ good' = good \cup ({file[b]} \cap dumps) /\ Move(b, "report") /\ UNCHANGED file
     \/ Move(b, "report") /\ UNCHANGED <<good, file>>   \* pg_dump has failed
     \/ Over(b) /\ UNCHANGED good                       \* zstd has failed
  /\ UNCHANGED <<dumps, last, doomed, announced, stuck, viewVars>>

\* The size of the file and of the database, either of which may fail; then
\* "Database back-up successful".
Report(b) ==
  /\ at[b] = "report"
  /\ Over(b)
  /\ \/ file[b] \in dumps /\ announced' = announced \cup {file[b]}
     \/ UNCHANGED announced
  /\ UNCHANGED <<dumps, good, last, doomed, stuck, viewVars>>
-----------------------------------------------------------------------------
(* updateColorView and the three badge views, one after the other           *)

StartViews(u) ==
  /\ view[u] = 0
  /\ view' = [view EXCEPT ![u] = 1]
  /\ UNCHANGED <<dumpVars, copies, emptied>>

\* Mutant: the job goes on past the last table.
NextViewPast(u) ==
  /\ view' = [view EXCEPT ![u] = IF @ > NViews THEN 0 ELSE @ + 1]
  /\ emptied' = [emptied EXCEPT ![u] = FALSE]

\* Whatever becomes of a table the job goes on to the next.
NextView(u) ==
  /\ view' = [view EXCEPT ![u] = IF @ = NViews THEN 0 ELSE @ + 1]
  /\ emptied' = [emptied EXCEPT ![u] = FALSE]

\* Mutant: a TRUNCATE that fails does not keep the INSERT from running.
TruncateIgnored(u) ==
  /\ view[u] > 1 /\ ~emptied[u]
  /\ emptied' = [emptied EXCEPT ![u] = TRUE]
  /\ copies' = [copies EXCEPT ![view[u]] = 0] \/ UNCHANGED copies
  /\ UNCHANGED <<dumpVars, view>>

\* TRUNCATE; on an error, which may come although it was done, the table is left.
Truncate(u) ==
  /\ view[u] > 1 /\ ~emptied[u]
  /\ \/ /\ copies' = [copies EXCEPT ![view[u]] = 0]
        /\ emptied' = [emptied EXCEPT ![u] = TRUE]
        /\ UNCHANGED view
     \/ /\ copies' = [copies EXCEPT ![view[u]] = 0] \/ UNCHANGED copies
        /\ NextView(u)
  /\ UNCHANGED dumpVars

\* updateColorView: its table is filled again without being emptied. It is left
\* out of copies: nothing is promised of it.
InsertColors(u) ==
  /\ view[u] = 1
  /\ NextView(u)
  /\ UNCHANGED <<dumpVars, copies>>

\* INSERT ... SELECT; an error is logged.
InsertBadges(u) ==
  /\ view[u] > 1 /\ emptied[u]
  /\ \/ /\ copies[view[u]] < MaxCopies
        /\ copies' = [copies EXCEPT ![view[u]] = @ + 1]
     \/ UNCHANGED copies
  /\ NextView(u)
  /\ UNCHANGED dumpVars
-----------------------------------------------------------------------------
\* The process ends, killed or by a panic (without NATS a backup calls Publish on
\* nil, loops.go:677), and is started again. The shell of a dump goes on without it.
Restart ==
  /\ \E done \in SUBSET (dumps \cap {file[b] : b \in Dumping}) : good' = good \cup done
  /\ at' = [b \in Backups |-> "off"]
  /\ doomed' = [b \in Backups |-> {}]
  /\ file' = [b \in Backups |-> 0]
  /\ view' = [u \in ViewRuns |-> 0]
  /\ emptied' = [u \in ViewRuns |-> FALSE]
  /\ UNCHANGED <<dumps, last, announced, stuck, copies>>

Next ==
  \/ \E b \in Backups :
       \/ List(b) \/ Dump(b) \/ DumpEnds(b) \/ Report(b)
       \/ \E f \in doomed[b] : Remove(b, f)
  \/ \E u \in ViewRuns : StartViews(u) \/ InsertColors(u) \/ Truncate(u) \/ InsertBadges(u)
  \/ Restart

Spec == Init /\ [][Next]_vars
-----------------------------------------------------------------------------
\* Types; the files a backup removes or writes have been made.
TypeOK ==
  /\ last \in 0..MaxDumps
  /\ dumps \subseteq 1..last /\ good \subseteq dumps
  /\ announced \subseteq dumps /\ stuck \subseteq dumps
  /\ at \in [Backups -> {"off", "rotate", "dump", "report"}]
  /\ doomed \in [Backups -> SUBSET (1..last)]
  /\ file \in [Backups -> 0..last]
  /\ copies \in [2..NViews -> 0..MaxCopies]
  /\ view \in [ViewRuns -> 0..NViews] /\ emptied \in [ViewRuns -> BOOLEAN]

\* No rotation removes one of the MaxSize - 1 newest dumps, however old its list of
\* files is by then and whatever other rotations have removed since: a good dump
\* goes only after MaxSize - 1 later ones were made (loops.go:575).
KeepsNewest ==
  [][\A f \in dumps \ dumps' : Cardinality(Newer(f, dumps)) >= MaxSize - 1]_vars

\* Apart from files that could not be removed there are at most as many dumps as
\* trigger a rotation, and one more of each backup under way (loops.go:569, 607).
DumpsBounded == Cardinality(dumps \ stuck) <= MaxSize + Cardinality(Backups)

\* A badge table holds each row once if runs of the job do not overlap, and once
\* for each overlapping run at most: it is filled only by a run that has just
\* emptied it (loops.go:248-253, 291-296, 318-323).
OneCopyEach == \A v \in 2..NViews : copies[v] <= Cardinality(ViewRuns)

\* "Database back-up successful" (loops.go:663): a dump that is reported so is one.
SuccessMeansGood == announced \subseteq good
=============================================================================
