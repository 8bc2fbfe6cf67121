---------------------------- MODULE RateLimiter ----------------------------
(* api/middleware/ratelimit.go: fixed-window limits kept in Redis under the *)
(* caller's ip. A route stands behind a chain of limiters (two for uploads  *)
(* and deletions), and all limiters of all services count in the same key.  *)
(* One evaluation of the Lua script is one step; between the limiters of a  *)
(* chain other requests run, and the window may end.                        *)
EXTENDS Naturals, Sequences, FiniteSets

CONSTANTS
  Ips,       \* callers
  Requests,  \* requests that can be in flight
  Chains,    \* the limits a request passes through, outermost first
  Window,    \* ticks in a window
  MaxCount   \* counts are not told apart from here on: above every limit

Limits == UNION {{ch[i] : i \in DOMAIN ch} : ch \in Chains}

ASSUME IpsAssumption == Ips # {}
ASSUME RequestsAssumption == IsFiniteSet(Requests)
ASSUME ChainsAssumption == Chains \subseteq Seq(Nat \ {0}) \ {<<>>}
ASSUME WindowAssumption == Window \in Nat \ {0}
ASSUME MaxCountAssumption == MaxCount \in Nat \ {0} /\ \A l \in Limits : l < MaxCount

VARIABLES
  count,   \* the key of each ip (0: no key)
  ttl,     \* ticks until the key expires (0: it does not expire)
  job,     \* each request: its ip, the limiters ahead, evaluations in this window
  passed,  \* history: passes in this window through limiters of at most l
  nested   \* history: requests of those whose limiters were two, both in this window

vars == <<count, ttl, job, passed, nested>>

Idle == [ip |-> CHOOSE ip \in Ips : TRUE, chain |-> <<>>, spent |-> 0]

Init ==
  /\ count = [ip \in Ips |-> 0]
  /\ ttl = [ip \in Ips |-> 0]
  /\ job = [r \in Requests |-> Idle]
  /\ passed = [ip \in Ips |-> [l \in Limits |-> 0]]
  /\ nested = [ip \in Ips |-> [l \in Limits |-> 0]]

Arrive(r) ==
  /\ job[r].chain = <<>>
  /\ \E ip \in Ips, ch \in Chains :
       job' = [job EXCEPT ![r] = [ip |-> ip, chain |-> ch, spent |-> 0]]
  /\ UNCHANGED <<count, ttl, passed, nested>>
-----------------------------------------------------------------------------
(* The Lua script.                                                          *)

\* INCR
Current(ip) == IF count[ip] < MaxCount THEN count[ip] + 1 ELSE MaxCount

\* Mutant: the window starts with the second request.
SetsExpiryLate(current) == current = 2

\* Mutant: every request prolongs the window.
SetsExpiryAlways(current) == current >= 1

\* "if current == 1 then EXPIRE"
SetsExpiry(current) == current = 1

\* Mutant: one request too many.
AllowsOneMore(current, limit) == current <= limit + 1

Allows(current, limit) == current <= limit

Script(ip) ==
  /\ count' = [count EXCEPT ![ip] = Current(ip)]
  /\ ttl' = IF SetsExpiry(Current(ip)) THEN [ttl EXCEPT ![ip] = Window] ELSE ttl
-----------------------------------------------------------------------------
\* One more for every limit from `limit` on.
Add(history, ip, limit) ==
  [history EXCEPT ![ip] = [l \in Limits |-> IF limit <= l THEN @[l] + 1 ELSE @[l]]]

\* The next limiter of r lets it through to the rest of its chain.
Pass(r) ==
  LET ip == job[r].ip
      limit == Head(job[r].chain)
      spent == job[r].spent + 1
      rest == Tail(job[r].chain)
  IN
  /\ job[r].chain # <<>>
  /\ Allows(Current(ip), limit)
  /\ Script(ip)
  /\ passed' = Add(passed, ip, limit)
  /\ nested' = IF rest = <<>> /\ spent = 2 THEN Add(nested, ip, limit) ELSE nested
  /\ job' = [job EXCEPT ![r] = IF rest = <<>> THEN Idle
                               ELSE [ip |-> ip, chain |-> rest, spent |-> spent]]

\* The script ran, and r gets a 429.
Refuse(r) ==
  /\ job[r].chain # <<>>
  /\ ~Allows(Current(job[r].ip), Head(job[r].chain))
  /\ Script(job[r].ip)
  /\ job' = [job EXCEPT ![r] = Idle]
  /\ UNCHANGED <<passed, nested>>

\* Redis fails r, before or after it ran the script: 500.
Fail(r) ==
  /\ job[r].chain # <<>>
  /\ Script(job[r].ip) \/ UNCHANGED <<count, ttl>>
  /\ job' = [job EXCEPT ![r] = Idle]
  /\ UNCHANGED <<passed, nested>>

\* The key of ip expires and its window is over.
Expire(ip) ==
  /\ count' = [count EXCEPT ![ip] = 0]
  /\ passed' = [passed EXCEPT ![ip] = [l \in Limits |-> 0]]
  /\ nested' = [nested EXCEPT ![ip] = [l \in Limits |-> 0]]
  /\ job' = [r \in Requests |-> IF job[r].ip = ip THEN [job[r] EXCEPT !.spent = 0] ELSE job[r]]

\* Time passes for the key of ip, in Redis.
Tick(ip) ==
  /\ ttl[ip] > 0
  /\ ttl' = [ttl EXCEPT ![ip] = @ - 1]
  /\ IF ttl[ip] = 1 THEN Expire(ip) ELSE UNCHANGED <<count, job, passed, nested>>

Next ==
  \/ \E r \in Requests : Arrive(r) \/ Pass(r) \/ Refuse(r) \/ Fail(r)
  \/ \E ip \in Ips : Tick(ip)

Spec == Init /\ [][Next]_vars

\* Only time is fair: a caller may hammer the service or stay away.
FairSpec == Spec /\ \A ip \in Ips : WF_vars(Tick(ip))
-----------------------------------------------------------------------------
\* Types, and a key always has its expiry: otherwise the caller's count would
\* never be reset and he would be locked out for good (ratelimit.go:67-70).
TypeOK ==
  /\ count \in [Ips -> 0..MaxCount]
  /\ ttl \in [Ips -> 0..Window]
  /\ \A ip \in Ips : count[ip] > 0 <=> ttl[ip] > 0
  /\ job \in [Requests -> [ip : Ips, chain : Seq(Limits), spent : Nat]]
  /\ passed \in [Ips -> [Limits -> Nat]]
  /\ nested \in [Ips -> [Limits -> Nat]]

\* In one window all the limiters of at most l, of all services together, let at
\* most l requests of an ip through: they share its key (ratelimit.go:67, 74).
WindowBound == \A ip \in Ips, l \in Limits : passed[ip][l] <= l

\* A request behind two limiters counts twice in the key they share, so with an
\* inner limit of l at most l / 2 are served in a window (uploader.go:83-88: 7
\* deletions a minute, not 15).
NestedCountTwice == \A ip \in Ips, l \in Limits : 2 * nested[ip][l] <= l

\* However often a caller asks, his window ends: refused requests do not
\* prolong it (ratelimit.go:68).
WindowEnds == \A ip \in Ips : count[ip] > 0 ~> count[ip] = 0
=============================================================================
