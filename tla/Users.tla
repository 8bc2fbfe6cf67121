-------------------------------- MODULE Users --------------------------------
(* api/routes/get/user.go, GET /users/{username}: a goroutine for each name *)
(* asked for, in each of them one for every table and every cooldown it     *)
(* reads, and below the channel's two more for its lists, all over one pool *)
(* of Postgres connections (the queries are in common/db/postgres.go).      *)
(*                                                                          *)
(* The columns of a row are left out: a field of the answer is there or not.*)
(* The names of the whole begin with Users, so that this module can be used *)
(* together with that of another handler.                                   *)
EXTENDS Naturals, Sequences, FiniteSets

CONSTANTS
  Names,      \* the names of one request
  Users,      \* of these, the ones with a row in users
  Channels,   \* with a row in channels
  Players,    \* with a row in potatoes
  Cooldowns,  \* the Redis keys of a name (potato, cdr, trample, steal, eat, quiz)
  MaxConns    \* connections of the pool (32 in the code)

\* getUsers refuses no names and more than 25.
ASSUME NamesAssumption == IsFiniteSet(Names) /\ Cardinality(Names) \in 1..25
ASSUME RowsAssumption == Users \cup Channels \cup Players \subseteq Names
ASSUME PoolAssumption == MaxConns \in Nat \ {0}

VARIABLES
  at,       \* where each read of each name is, or what it has come to
  channel,  \* dataChan, with a place for each name
  sent,     \* names put together and sent
  closed,   \* whether it is closed
  answer,   \* dataArray
  status    \* status of the response, 0 before there is one

chanVars == <<channel, sent, closed>>
usersVars == <<at, chanVars, answer, status>>

Tables == {"user", "channel", "potatoes"}
Lists == {"commands", "blocks"}

ASSUME CooldownsAssumption == Cooldowns \cap (Tables \cup Lists) = {}

\* Names with a row in each table.
Rows == [user |-> Users, channel |-> Channels, potatoes |-> Players]

\* A read that has returned: with a row, with none, or with an error; "part" is a list
\* whose rows broke off, which looks like a whole one (rows.Err is not asked for).
Over == {"row", "none", "part", "failed"}

UsersInit ==
  /\ at = [p \in Names |-> [f \in Tables \cup Lists \cup Cooldowns |->
                              IF f \in Lists THEN "off" ELSE "waiting"]]
  /\ channel = <<>> /\ sent = {} /\ closed = FALSE
  /\ answer = <<>> /\ status = 0
-----------------------------------------------------------------------------
(* The reads                                                                *)

\* Mutant: the channel's connection is kept while its lists are read.
HeldJoining == {pf \in Names \X (Tables \cup Lists) : at[pf[1]][pf[2]] \in {"query", "joining"}}

\* Reads that have a connection; QueryRow's Scan and rows.Close give it back.
Held == {pf \in Names \X (Tables \cup Lists) : at[pf[1]][pf[2]] = "query"}

Acquire(p, f) ==
  /\ at[p][f] = "waiting" /\ Cardinality(Held) < MaxConns
  /\ at' = [at EXCEPT ![p][f] = "query"]

\* The request is gone, or no connection can be made.
AcquireFails(p, f) ==
  /\ at[p][f] = "waiting"
  /\ at' = [at EXCEPT ![p][f] = "failed"]

\* GetUserByName and GetPotatoData.
ReadRow(p, t) ==
  /\ t # "channel" /\ at[p][t] = "query"
  /\ \E r \in {IF p \in Rows[t] THEN "row" ELSE "none", "failed"} : at' = [at EXCEPT ![p][t] = r]

\* getChannelByType; once there is a row its two lists are read.
ReadChannel(p) ==
  /\ at[p]["channel"] = "query"
  /\ \/ /\ p \in Rows["channel"]
        /\ at' = [at EXCEPT ![p]["channel"] = "joining",
                            ![p]["commands"] = "waiting", ![p]["blocks"] = "waiting"]
     \/ p \notin Rows["channel"] /\ at' = [at EXCEPT ![p]["channel"] = "none"]
     \/ at' = [at EXCEPT ![p]["channel"] = "failed"]

\* GetChannelCommands and GetChannelBlocks. The query of the blocks has four columns
\* (there is no comma after user_id) for five variables, so none is ever read.
ReadList(p, l) ==
  /\ at[p][l] = "query"
  /\ \E r \in IF l = "commands" THEN {"row", "part", "failed"} ELSE {"none"} :
       at' = [at EXCEPT ![p][l] = r]

\* wg.Wait: a list that could not be read is an empty one.
Join(p) ==
  /\ at[p]["channel"] = "joining" /\ \A l \in Lists : at[p][l] \in Over
  /\ at' = [at EXCEPT ![p]["channel"] = "row"]

\* The key of a cooldown may be set or not; a value that is no number is an error.
ReadCooldown(p, k) ==
  /\ at[p][k] = "waiting"
  /\ \E r \in {"row", "none", "failed"} : at' = [at EXCEPT ![p][k] = r]

Read(p) ==
  \/ \E f \in Tables \cup Lists : Acquire(p, f)
  \/ \E t \in Tables : ReadRow(p, t)
  \/ ReadChannel(p)
  \/ \E l \in Lists : ReadList(p, l)
  \/ Join(p)
  \/ \E k \in Cooldowns : ReadCooldown(p, k)
-----------------------------------------------------------------------------
(* loadUser and getUsers                                                    *)

\* tidyPotatoInfo: without a row there are no cooldowns either, and one that could
\* not be read counts as ready.
Ready(p) == {k \in Cooldowns : at[p]["potatoes"] = "row" /\ at[p][k] # "row"}

UserInfo(p) ==
  [name |-> p, fields |-> {t \in Tables : at[p][t] = "row"}, ready |-> Ready(p)]

Send(p) ==
  /\ p \notin sent
  /\ channel' = Append(channel, UserInfo(p))
  /\ sent' = sent \cup {p}
  /\ UNCHANGED <<at, closed, answer, status>>

\* Mutant: wg.Add(8) in loadUser, so that one goroutine is not waited for.
LoadUserEight(p) ==
  /\ \E f \in Tables : \A g \in (Tables \cup Cooldowns) \ {f} : at[p][g] \in Over
  /\ Send(p)

\* loadUser waits for its goroutines (nine, in the code), then the name is sent.
LoadUser(p) ==
  /\ \A f \in Tables \cup Cooldowns : at[p][f] \in Over
  /\ Send(p)

\* Mutant: the channel is closed when the first name is sent.
CloseFirst ==
  /\ ~closed /\ sent # {}
  /\ closed' = TRUE
  /\ UNCHANGED <<at, channel, sent, answer, status>>

Close ==
  /\ ~closed /\ sent = Names
  /\ closed' = TRUE
  /\ UNCHANGED <<at, channel, sent, answer, status>>

Collect ==
  /\ status = 0 /\ channel # <<>>
  /\ answer' = Append(answer, Head(channel))
  /\ channel' = Tail(channel)
  /\ UNCHANGED <<at, sent, closed, status>>

\* The status is that of the name that was ready first.
Respond ==
  /\ status = 0 /\ closed /\ channel = <<>>
  /\ status' = IF "user" \in answer[1].fields THEN 200 ELSE 404
  /\ UNCHANGED <<at, chanVars, answer>>

\* What the goroutines do of themselves.
Proceed ==
  \/ \E p \in Names : Read(p) /\ UNCHANGED <<chanVars, answer, status>>
  \/ \E p \in Names : LoadUser(p)
  \/ Close \/ Collect \/ Respond

UsersNext ==
  \/ Proceed
  \/ /\ \E p \in Names, f \in Tables \cup Lists : AcquireFails(p, f)
     /\ UNCHANGED <<chanVars, answer, status>>

UsersSpec == UsersInit /\ [][UsersNext]_usersVars

\* Some goroutine that can go on does; no read is begun twice, so that is enough. A
\* statement ends when its connection does; that waiting for one fails is not assumed.
UsersFairSpec == UsersSpec /\ WF_usersVars(Proceed)
-----------------------------------------------------------------------------
\* Types; the pool's limit is kept, and nothing is sent on the closed channel.
UsersTypeOK ==
  /\ at \in [Names -> [Tables \cup Lists \cup Cooldowns ->
                         Over \cup {"off", "waiting", "query", "joining"}]]
  /\ channel \in Seq([name : Names, fields : SUBSET Tables, ready : SUBSET Cooldowns])
  /\ answer \in Seq([name : Names, fields : SUBSET Tables, ready : SUBSET Cooldowns])
  /\ sent \subseteq Names /\ closed \in BOOLEAN
  /\ closed => sent = Names
  /\ status \in {0, 200, 404}
  /\ Cardinality(Held) <= MaxConns

\* In whatever order the reads end, the answer has each name once, with the rows that
\* exist unless reading them failed, a channel with both of its lists read, and the
\* cooldowns as they were read; a 404 means that one of the users was not found
\* (user.go:188-333, 368-403, postgres.go:350-372).
AnswerTrue ==
  status # 0 =>
    /\ {answer[i].name : i \in DOMAIN answer} = Names /\ Len(answer) = Cardinality(Names)
    /\ \A i \in DOMAIN answer : LET p == answer[i].name IN
         /\ \A t \in Tables : t \in answer[i].fields => p \in Rows[t]
         /\ \A t \in Tables : p \in Rows[t] => t \in answer[i].fields \/ at[p][t] = "failed"
         /\ "channel" \in answer[i].fields => \A l \in Lists : at[p][l] \in Over
         /\ "potatoes" \in answer[i].fields =>
              \A k \in Cooldowns : k \in answer[i].ready <=> at[p][k] # "row"
    /\ status = 404 => \E i \in DOMAIN answer : "user" \notin answer[i].fields

\* The request is answered even if the whole fan-out shares one connection: a read
\* that waits for others does not keep its own (postgres.go:331-372).
AnswerEnds == <>(status # 0)
=============================================================================
