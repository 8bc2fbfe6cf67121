------------------------------- MODULE Tokens -------------------------------
(* common/db/loops.go: the hourly validation and the two-hourly refresh of  *)
(* the Twitch tokens in connection_oauth, each run over a snapshot of the   *)
(* table that holds a connection of the Postgres pool while it calls Twitch *)
(* and writes single rows back, with the crash that a failed call to Twitch *)
(* causes and the shutdown that closes the pool under the runs.             *)
(*                                                                          *)
(* A token pair is the number of its refresh token, 0 for none. Access      *)
(* tokens can expire at any time and are left out.                          *)
EXTENDS Naturals, FiniteSets

CONSTANTS
  Accounts,      \* rows of connection_oauth
  Rotating,      \* the accounts for which a refresh replaces the refresh token
  Validations,   \* validateTokens runs at one time
  Refreshes,     \* refreshAllHelixTokens runs at one time
  MaxConns,      \* connections of the pool (32 in the code)
  MaxIssues      \* bound on the refresh tokens Twitch issues for an account

Runs == Validations \cup Refreshes

ASSUME RotatingAssumption == Rotating \subseteq Accounts
ASSUME RunsAssumption == IsFiniteSet(Runs)
ASSUME PoolAssumption == MaxConns \in Nat /\ Cardinality(Runs) < MaxConns
ASSUME MaxIssuesAssumption == MaxIssues \in Nat

VARIABLES
  row,      \* refresh token in the table
  live,     \* refresh token Twitch honours, 0 when the user has revoked it
  last,     \* last refresh token Twitch has issued
  at,       \* where each run is
  todo,     \* rows a run has still to scan
  snap,     \* the table as a run's query saw it
  con,      \* the row a run is at
  hand,     \* token a run has got from Twitch and not stored yet
  used,     \* connections out of the pool
  others,   \* of these, the ones request handlers have
  closing,  \* main is in postgres.Close()
  lost      \* history: accounts whose newest token was dropped

twitchVars == <<live, last>>
runVars == <<at, todo, snap, con, hand>>
poolVars == <<used, others, closing>>
vars == <<row, twitchVars, runVars, poolVars, lost>>

Places == {"off", "query", "next", "validate", "refresh", "store"}

\* The runs whose rows are open.
Open == {j \in Runs : at[j] \in Places \ {"off", "query"}}

NoRows == [a \in Accounts |-> 0]

Move(j, to) == at' = [at EXCEPT ![j] = to]

Init ==
  /\ row \in [Accounts -> {0, 1}]
  /\ live = row
  /\ last = [a \in Accounts |-> 1]
  /\ at = [j \in Runs |-> "off"]
  /\ todo = [j \in Runs |-> {}]
  /\ snap = [j \in Runs |-> NoRows]
  /\ con \in [Runs -> Accounts]
  /\ hand = [j \in Runs |-> 0]
  /\ used = 0 /\ others = 0 /\ closing = FALSE
  /\ lost = {}
-----------------------------------------------------------------------------
(* The run: cron starts it, whether or not another one is still going.      *)

Start(j) ==
  /\ at[j] = "off"
  /\ Move(j, "query")
  /\ UNCHANGED <<row, twitchVars, todo, snap, con, hand, poolVars, lost>>

\* The rows take a connection, which they keep until they are closed.
Query(j) ==
  /\ at[j] = "query"
  /\ used < MaxConns /\ ~closing
  /\ used' = used + 1
  /\ todo' = [todo EXCEPT ![j] = Accounts]
  /\ snap' = [snap EXCEPT ![j] = row]
  /\ Move(j, "next")
  /\ UNCHANGED <<row, twitchVars, con, hand, others, closing, lost>>

QueryFails(j) ==
  /\ at[j] = "query"
  /\ Move(j, "off")
  /\ UNCHANGED <<row, twitchVars, todo, snap, con, hand, poolVars, lost>>

\* Mutant: a row that cannot be scanned is tried again.
ScanAgain(j, a) ==
  /\ at[j] = "next"
  /\ a \in todo[j]
  /\ con' = [con EXCEPT ![j] = a]
  /\ \/ /\ todo' = [todo EXCEPT ![j] = @ \ {a}]
        /\ Move(j, IF j \in Validations THEN "validate" ELSE "refresh")
     \/ UNCHANGED <<todo, at>>
  /\ UNCHANGED <<row, twitchVars, snap, hand, poolVars, lost>>

\* rows.Next and rows.Scan; a row that cannot be scanned is skipped.
Scan(j, a) ==
  /\ at[j] = "next"
  /\ a \in todo[j]
  /\ todo' = [todo EXCEPT ![j] = @ \ {a}]
  /\ con' = [con EXCEPT ![j] = a]
  /\ \/ Move(j, IF j \in Validations THEN "validate" ELSE "refresh")
     \/ UNCHANGED at
  /\ UNCHANGED <<row, twitchVars, snap, hand, poolVars, lost>>

\* Mutant: the rows are never closed.
DoneLeaks(j) ==
  /\ at[j] = "next"
  /\ Move(j, "off")
  /\ todo' = [todo EXCEPT ![j] = {}]
  /\ snap' = [snap EXCEPT ![j] = NoRows]
  /\ UNCHANGED <<row, twitchVars, con, hand, poolVars, lost>>

\* No row is left, or the connection that reads them has failed.
Done(j) ==
  /\ at[j] = "next"
  /\ Move(j, "off")
  /\ todo' = [todo EXCEPT ![j] = {}]
  /\ snap' = [snap EXCEPT ![j] = NoRows]
  /\ used' = used - 1
  /\ UNCHANGED <<row, twitchVars, con, hand, others, closing, lost>>

\* 401 leads to refreshOrDelete; any other answer, and an error, to the next row.
Validate(j) ==
  /\ at[j] = "validate"
  /\ Move(j, "refresh") \/ Move(j, "next")
  /\ UNCHANGED <<row, twitchVars, todo, snap, con, hand, poolVars, lost>>
-----------------------------------------------------------------------------
(* refreshOrDelete, which deletes nothing.                                  *)

Token(j) == snap[j][con[j]]

\* Twitch honours the token of the snapshot and issues one, new or the same.
Issue(a) ==
  IF a \in Rotating
    THEN /\ last[a] < MaxIssues
         /\ last' = [last EXCEPT ![a] = @ + 1]
         /\ live' = [live EXCEPT ![a] = last[a] + 1]
    ELSE UNCHANGED twitchVars

Honours(j) == Token(j) # 0 /\ Token(j) = live[con[j]] /\ Issue(con[j])

Dropped(a) == lost' = IF a \in Rotating THEN lost \cup {a} ELSE lost

Refreshed(j) ==
  /\ at[j] = "refresh"
  /\ Honours(j)
  /\ hand' = [hand EXCEPT ![j] = live'[con[j]]]
  /\ Move(j, "store")
  /\ UNCHANGED <<row, todo, snap, con, poolVars, lost>>

\* Mutant: an account that Twitch refuses is removed from the table.
RefusedDeletes(j) ==
  /\ at[j] = "refresh"
  /\ row' = [row EXCEPT ![con[j]] = 0]
  /\ Move(j, "next")
  /\ UNCHANGED <<twitchVars, todo, snap, con, hand, poolVars, lost>>

\* Mutant: the status of the answer is not looked at.
RefusedStored(j) ==
  /\ at[j] = "refresh"
  /\ hand' = [hand EXCEPT ![j] = 0]
  /\ Move(j, "store")
  /\ UNCHANGED <<row, twitchVars, todo, snap, con, poolVars, lost>>

\* There is no refresh token, or Twitch answers anything but 200.
Refused(j) ==
  /\ at[j] = "refresh"
  /\ Move(j, "next")
  /\ UNCHANGED <<row, twitchVars, todo, snap, con, hand, poolVars, lost>>

\* An answer whose body cannot be read.
Unread(j) ==
  /\ at[j] = "refresh"
  /\ Honours(j)
  /\ Dropped(con[j])
  /\ Move(j, "next")
  /\ UNCHANGED <<row, todo, snap, con, hand, poolVars>>

\* upsertOAuthToken needs a second connection, for one statement. It may also be
\* carried out and fail: the next row is next either way.
Store(j) ==
  /\ at[j] = "store"
  /\ used < MaxConns /\ ~closing
  /\ row' = [row EXCEPT ![con[j]] = hand[j]]
  /\ hand' = [hand EXCEPT ![j] = 0]
  /\ Move(j, "next")
  /\ UNCHANGED <<twitchVars, todo, snap, con, poolVars, lost>>

GiveUp(j) ==
  /\ hand' = [hand EXCEPT ![j] = 0]
  /\ Dropped(con[j])
  /\ Move(j, "next")
  /\ UNCHANGED <<row, twitchVars, todo, snap, con, poolVars>>

StoreFails(j) ==
  /\ at[j] = "store"
  /\ used < MaxConns /\ ~closing
  /\ GiveUp(j)

\* A pool that is being closed gives out no connection.
StoreRejected(j) ==
  /\ at[j] = "store"
  /\ closing
  /\ GiveUp(j)
-----------------------------------------------------------------------------
(* The process, and the others that use the pool.                           *)

\* The process ends and is started again. Tokens in hand are gone, and so is the
\* one that was just issued to a run whose call failed.
Restart(issued) ==
  /\ at' = [j \in Runs |-> "off"]
  /\ todo' = [j \in Runs |-> {}]
  /\ snap' = [j \in Runs |-> NoRows]
  /\ hand' = [j \in Runs |-> 0]
  /\ used' = 0 /\ others' = 0 /\ closing' = FALSE
  /\ lost' = lost \cup (Rotating \cap (issued \cup {con[j] : j \in {i \in Runs : at[i] = "store"}}))
  /\ UNCHANGED <<row, con>>

\* RefreshHelixToken looks at the status of an answer it has not got when the
\* call itself fails: the panic ends the process.
Panic(j) ==
  /\ at[j] = "refresh" /\ Token(j) # 0
  /\ \/ Honours(j) /\ Restart({con[j]})
     \/ UNCHANGED twitchVars /\ Restart({})

Kill == Restart({}) /\ UNCHANGED twitchVars

\* main runs into postgres.Close(), which waits for every connection.
Shutdown ==
  /\ ~closing
  /\ closing' = TRUE
  /\ UNCHANGED <<row, twitchVars, runVars, used, others, lost>>

Exit ==
  /\ closing /\ used = 0
  /\ Restart({})
  /\ UNCHANGED twitchVars

\* A request handler gets a connection for a query, and gives it back.
Take ==
  /\ used < MaxConns /\ ~closing
  /\ used' = used + 1 /\ others' = others + 1
  /\ UNCHANGED <<row, twitchVars, runVars, closing, lost>>

Give ==
  /\ others > 0
  /\ used' = used - 1 /\ others' = others - 1
  /\ UNCHANGED <<row, twitchVars, runVars, closing, lost>>

\* The user disconnects the application.
Revoke(a) ==
  /\ live[a] # 0
  /\ live' = [live EXCEPT ![a] = 0]
  /\ UNCHANGED <<row, last, runVars, poolVars, lost>>
-----------------------------------------------------------------------------
Refresh(j) == Refreshed(j) \/ Refused(j) \/ Unread(j) \/ Panic(j)

Upsert(j) == Store(j) \/ StoreFails(j) \/ StoreRejected(j)

Run(j) ==
  \/ Start(j) \/ Query(j) \/ QueryFails(j) \/ Done(j)
  \/ \E a \in Accounts : Scan(j, a)
  \/ Validate(j)
  \/ Refresh(j)
  \/ Upsert(j)

Next ==
  \/ \E j \in Runs : Run(j)
  \/ Kill \/ Shutdown \/ Exit
  \/ Take \/ Give
  \/ \E a \in Accounts : Revoke(a)

Spec == Init /\ [][Next]_vars

(* Fairness. A call to Twitch is over after ten seconds (the client's       *)
(* Timeout), a statement of a handler when it is. The pool serves who waits *)
(* for a connection in turn, so one that is free time and again is got.     *)
Fairness ==
  /\ WF_vars(Give) /\ WF_vars(Exit)
  /\ \A j \in Runs :
       /\ SF_vars(Query(j)) /\ WF_vars(QueryFails(j) /\ closing)
       /\ WF_vars(Done(j) \/ \E a \in Accounts : Scan(j, a))
       /\ WF_vars(Validate(j)) /\ WF_vars(Refresh(j))
       /\ SF_vars(Store(j)) /\ WF_vars(StoreRejected(j))

FairSpec == Spec /\ Fairness
-----------------------------------------------------------------------------
(* Properties.                                                              *)

\* Every variable keeps its type, and the connections out of the pool are those
\* of the runs whose rows are open and those of the handlers.
TypeOK ==
  /\ row \in [Accounts -> Nat] /\ live \in [Accounts -> Nat] /\ last \in [Accounts -> Nat]
  /\ at \in [Runs -> Places] /\ todo \in [Runs -> SUBSET Accounts]
  /\ snap \in [Runs -> [Accounts -> Nat]] /\ con \in [Runs -> Accounts]
  /\ hand \in [Runs -> Nat]
  /\ closing \in BOOLEAN /\ lost \subseteq Accounts
  /\ others \in Nat /\ used = Cardinality(Open) + others /\ used <= MaxConns

\* Whatever runs overlap, the token Twitch honours for an account is in the
\* table or about to be stored, unless the user has revoked it or it was
\* dropped on its way from Twitch: a run with an old snapshot never removes or
\* replaces the token another one has just stored (loops.go:387-413).
InReach ==
  \A a \in Accounts :
    \/ live[a] = 0
    \/ a \in lost
    \/ row[a] = live[a]
    \/ \E j \in Runs : at[j] = "store" /\ con[j] = a /\ hand[j] = live[a]

\* Two runs that refresh an account never write their tokens in the wrong order.
RowsMoveForward == [][\A a \in Accounts : row'[a] >= row[a]]_vars

\* Every run of the two loops ends, though it waits for a second connection of
\* the pool while it has one: there are more connections than runs.
RunsEnd == \A j \in Runs : at[j] # "off" ~> at[j] = "off"

\* postgres.Close() in main returns: no run keeps its connection for good.
ShutdownEnds == closing ~> ~closing
=============================================================================
