------------------------- MODULE RateLimiterProofs -------------------------
(* Proofs about RateLimiter, for every set of callers and requests, every   *)
(* set of limiter chains and every window.                                  *)
EXTENDS RateLimiter, FiniteSetTheorems, TLAPS

\* Limits are positive numbers, below the point where counts saturate.
LEMMA LimitsAreNat == \A l \in Limits : l \in Nat \ {0} /\ l < MaxCount
<1> SUFFICES ASSUME NEW l \in Limits PROVE l \in Nat \ {0}
  BY MaxCountAssumption
<1>1. PICK ch \in Chains : l \in {ch[i] : i \in DOMAIN ch}
  BY DEF Limits
<1>2. ch \in Seq(Nat \ {0})
  BY <1>1, ChainsAssumption
<1> QED BY <1>1, <1>2

\* A chain is a sequence of limits.
LEMMA ChainsOfLimits == \A ch \in Chains : ch \in Seq(Limits)
<1> SUFFICES ASSUME NEW ch \in Chains PROVE ch \in Seq(Limits)
  OBVIOUS
<1>1. ch \in Seq(Nat \ {0})
  BY ChainsAssumption
<1>2. \A i \in 1..Len(ch) : ch[i] \in Limits
  BY <1>1 DEF Limits
<1> QED BY <1>1, <1>2

\* INCR leaves a positive count that saturates at MaxCount.
LEMMA CurrentType ==
  ASSUME TypeOK, NEW ip \in Ips
  PROVE  /\ Current(ip) \in 1..MaxCount
         /\ Current(ip) < MaxCount => Current(ip) = count[ip] + 1
         /\ count[ip] <= Current(ip)
         /\ Current(ip) = 1 \/ count[ip] > 0
<1>1. count[ip] \in 0..MaxCount /\ MaxCount \in Nat \ {0}
  BY MaxCountAssumption DEF TypeOK
<1> QED BY <1>1 DEF Current

\* The script keeps the types of the key and gives a new key its expiry.
LEMMA ScriptType ==
  ASSUME TypeOK, NEW ip \in Ips, Script(ip)
  PROVE  /\ count' \in [Ips -> 0..MaxCount] /\ ttl' \in [Ips -> 0..Window]
         /\ \A i \in Ips : count'[i] > 0 <=> ttl'[i] > 0
         /\ \A i \in Ips : count[i] <= count'[i]
         /\ count'[ip] = Current(ip)
<1>1. Current(ip) \in 1..MaxCount /\ count[ip] <= Current(ip) /\ (Current(ip) = 1 \/ count[ip] > 0)
  BY CurrentType
<1>2. count' = [count EXCEPT ![ip] = Current(ip)] /\ count \in [Ips -> 0..MaxCount]
  BY DEF Script, TypeOK
<1>3. ttl' \in [Ips -> 0..Window] /\ \A i \in Ips \ {ip} : ttl'[i] = ttl[i]
  BY WindowAssumption DEF Script, TypeOK
<1>4. ttl'[ip] > 0
  BY <1>1, WindowAssumption DEF Script, SetsExpiry, TypeOK
<1>5. \A i \in Ips : count'[i] > 0 <=> ttl'[i] > 0
  BY <1>1, <1>2, <1>3, <1>4 DEF TypeOK
<1>6. count' \in [Ips -> 0..MaxCount]
  <2>1. Current(ip) \in 0..MaxCount
    BY <1>1, MaxCountAssumption
  <2> QED BY <1>2, <2>1
<1>7. \A i \in Ips : count[i] <= count'[i]
  <2>1. \A i \in Ips : count[i] \in Nat
    BY <1>2, MaxCountAssumption
  <2> QED BY <1>1, <1>2, <2>1
<1> QED BY <1>2, <1>3, <1>5, <1>6, <1>7

\* No request in flight.
LEMMA IdleType == Idle \in [ip : Ips, chain : Seq(Limits), spent : Nat]
BY IpsAssumption DEF Idle

\* Adding to a history keeps its type.
LEMMA AddType ==
  ASSUME NEW h \in [Ips -> [Limits -> Nat]], NEW ip \in Ips, NEW limit \in Limits
  PROVE  /\ Add(h, ip, limit) \in [Ips -> [Limits -> Nat]]
         /\ \A i \in Ips, l \in Limits :
              Add(h, ip, limit)[i][l] = IF i = ip /\ limit <= l THEN h[i][l] + 1 ELSE h[i][l]
<1>1. [l \in Limits |-> IF limit <= l THEN h[ip][l] + 1 ELSE h[ip][l]] \in [Limits -> Nat]
  OBVIOUS
<1> QED BY <1>1 DEF Add

\* What the next limiter of a request in flight is.
LEMMA HeadType ==
  ASSUME TypeOK, NEW r \in Requests, job[r].chain # <<>>
  PROVE  /\ job[r].ip \in Ips /\ job[r].spent \in Nat
         /\ Head(job[r].chain) \in Limits /\ Tail(job[r].chain) \in Seq(Limits)
         /\ Head(job[r].chain) \in Nat \ {0} /\ Head(job[r].chain) < MaxCount
<1>1. job[r] \in [ip : Ips, chain : Seq(Limits), spent : Nat]
  BY DEF TypeOK
<1>2. Head(job[r].chain) \in Limits /\ Tail(job[r].chain) \in Seq(Limits)
  BY <1>1
<1> QED BY <1>1, <1>2, LimitsAreNat

\* Types are right, and a key has an expiry as long as it lives.
THEOREM TypeCorrect == Spec => []TypeOK
<1>1. Init => TypeOK
  <2> SUFFICES ASSUME Init PROVE TypeOK
    OBVIOUS
  <2>1. count \in [Ips -> 0..MaxCount] /\ ttl \in [Ips -> 0..Window]
    BY MaxCountAssumption, WindowAssumption DEF Init
  <2>2. \A ip \in Ips : count[ip] > 0 <=> ttl[ip] > 0
    BY DEF Init
  <2> QED BY <2>1, <2>2, IdleType DEF Init, TypeOK
<1>2. TypeOK /\ [Next]_vars => TypeOK'
  <2> SUFFICES ASSUME TypeOK, [Next]_vars PROVE TypeOK'
    OBVIOUS
  <2> DEFINE Jobs == [ip : Ips, chain : Seq(Limits), spent : Nat]
  <2>j. job \in [Requests -> Jobs] /\ Idle \in Jobs
    BY IdleType DEF TypeOK
  <2>1. ASSUME NEW r \in Requests, Arrive(r) PROVE TypeOK'
    BY <2>1, ChainsOfLimits DEF Arrive, TypeOK
  <2>2. ASSUME NEW r \in Requests, Pass(r) PROVE TypeOK'
    <3> DEFINE ip == job[r].ip
               limit == Head(job[r].chain)
               rest == Tail(job[r].chain)
               spent == job[r].spent + 1
    <3>1. ip \in Ips /\ limit \in Limits /\ rest \in Seq(Limits) /\ spent \in Nat
      BY <2>2, HeadType DEF Pass
    <3>2. job' \in [Requests -> Jobs]
      <4>1. [ip |-> ip, chain |-> rest, spent |-> spent] \in Jobs
        BY <3>1
      <4> QED BY <2>2, <2>j, <4>1 DEF Pass
    <3>3. passed' \in [Ips -> [Limits -> Nat]] /\ nested' \in [Ips -> [Limits -> Nat]]
      BY <2>2, <3>1, AddType DEF Pass, TypeOK
    <3>4. Script(ip)
      BY <2>2 DEF Pass
    <3> QED BY <3>1, <3>2, <3>3, <3>4, ScriptType DEF TypeOK
  <2>3. ASSUME NEW r \in Requests, Refuse(r) \/ Fail(r) PROVE TypeOK'
    <3>1. job[r].ip \in Ips
      BY <2>j
    <3>2. Script(job[r].ip) \/ UNCHANGED <<count, ttl>>
      BY <2>3 DEF Refuse, Fail
    <3>3. job' \in [Requests -> Jobs] /\ UNCHANGED <<passed, nested>>
      BY <2>3, <2>j DEF Refuse, Fail
    <3>4. CASE Script(job[r].ip)
      BY <3>1, <3>3, <3>4, ScriptType DEF TypeOK
    <3>5. CASE UNCHANGED <<count, ttl>>
      BY <3>3, <3>5 DEF TypeOK
    <3> QED BY <3>2, <3>4, <3>5
  <2>4. ASSUME NEW ip \in Ips, Tick(ip) PROVE TypeOK'
    <3>1. ttl' = [ttl EXCEPT ![ip] = ttl[ip] - 1] /\ ttl[ip] \in 1..Window
      BY <2>4, WindowAssumption DEF Tick, TypeOK
    <3>2. ttl' \in [Ips -> 0..Window]
      BY <3>1, WindowAssumption DEF TypeOK
    <3>3. CASE ttl[ip] = 1
      <4>0. Expire(ip)
        BY <2>4, <3>3 DEF Tick
      <4>1. job' \in [Requests -> Jobs]
        <5>1. \A r \in Requests : [job[r] EXCEPT !.spent = 0] \in Jobs
          BY <2>j
        <5> QED BY <4>0, <5>1, <2>j DEF Expire
      <4>2. count' = [count EXCEPT ![ip] = 0] /\ count' \in [Ips -> 0..MaxCount]
        BY <4>0, MaxCountAssumption DEF Expire, TypeOK
      <4>3. \A i \in Ips : count'[i] > 0 <=> ttl'[i] > 0
        BY <3>1, <3>3, <4>2 DEF TypeOK
      <4>4. passed' \in [Ips -> [Limits -> Nat]] /\ nested' \in [Ips -> [Limits -> Nat]]
        <5>1. [l \in Limits |-> 0] \in [Limits -> Nat]
          OBVIOUS
        <5> QED BY <4>0, <5>1 DEF Expire, TypeOK
      <4> QED BY <3>2, <4>1, <4>2, <4>3, <4>4 DEF TypeOK
    <3>4. CASE ttl[ip] # 1
      <4>1. UNCHANGED <<count, job, passed, nested>>
        BY <2>4, <3>4 DEF Tick
      <4>2. \A i \in Ips : count'[i] > 0 <=> ttl'[i] > 0
        BY <3>1, <3>4, <4>1 DEF TypeOK
      <4> QED BY <3>2, <4>1, <4>2 DEF TypeOK
    <3> QED BY <3>3, <3>4
  <2>5. CASE UNCHANGED vars
    BY <2>5 DEF vars, TypeOK
  <2> QED BY <2>1, <2>2, <2>3, <2>4, <2>5 DEF Next
<1> QED BY <1>1, <1>2, PTL DEF Spec

-----------------------------------------------------------------------------
(* The counts in a window.                                                  *)

\* Every pass has been counted, and stays below its limit.
Counted ==
  \A ip \in Ips, l \in Limits : passed[ip][l] <= count[ip] /\ passed[ip][l] <= l

\* Counted is inductive: a pass at limit l is the count-th request of its window,
\* and that count is at most l.
LEMMA CountedStep == TypeOK /\ Counted /\ [Next]_vars => Counted'
<1> SUFFICES ASSUME TypeOK, Counted, [Next]_vars, NEW i \in Ips, NEW l \in Limits
             PROVE  (passed[i][l] <= count[i] /\ passed[i][l] <= l)'
  BY DEF Counted
<1>t. /\ passed[i][l] \in Nat /\ count[i] \in Nat /\ l \in Nat
      /\ passed[i][l] <= count[i] /\ passed[i][l] <= l
  BY LimitsAreNat, MaxCountAssumption DEF TypeOK, Counted
<1>1. ASSUME NEW r \in Requests, Arrive(r)
      PROVE  (passed[i][l] <= count[i] /\ passed[i][l] <= l)'
  BY <1>1, <1>t DEF Arrive
<1>2. ASSUME NEW r \in Requests, Pass(r)
      PROVE  (passed[i][l] <= count[i] /\ passed[i][l] <= l)'
  <2> DEFINE ip == job[r].ip
             limit == Head(job[r].chain)
  <2>1. ip \in Ips /\ limit \in Limits /\ limit \in Nat /\ limit < MaxCount
    BY <1>2, HeadType DEF Pass
  <2>2. /\ Current(ip) <= limit /\ Script(ip)
        /\ passed' = Add(passed, ip, limit)
    BY <1>2 DEF Pass, Allows
  <2>3. Current(ip) = count[ip] + 1
    BY <2>1, <2>2, CurrentType, MaxCountAssumption
  <2>4. count'[ip] = Current(ip) /\ count[i] <= count'[i] /\ count'[i] \in 0..MaxCount
    BY <2>1, <2>2, ScriptType
  <2>5. passed'[i][l] = IF i = ip /\ limit <= l THEN passed[i][l] + 1 ELSE passed[i][l]
    <3>1. passed \in [Ips -> [Limits -> Nat]]
      BY DEF TypeOK
    <3>2. Add(passed, ip, limit)[i][l]
            = IF i = ip /\ limit <= l THEN passed[i][l] + 1 ELSE passed[i][l]
      BY <2>1, <3>1, AddType
    <3> QED BY <2>2, <3>2
  <2>6. count'[i] \in Nat
    BY <2>4, MaxCountAssumption
  <2>7. CASE i = ip /\ limit <= l
    BY <2>1, <2>2, <2>3, <2>4, <2>5, <2>6, <2>7, <1>t
  <2>8. CASE ~(i = ip /\ limit <= l)
    BY <2>4, <2>5, <2>6, <2>8, <1>t
  <2> QED BY <2>7, <2>8
<1>3. ASSUME NEW r \in Requests, Refuse(r) \/ Fail(r)
      PROVE  (passed[i][l] <= count[i] /\ passed[i][l] <= l)'
  <2>1. job[r].ip \in Ips /\ passed' = passed /\ (Script(job[r].ip) \/ count' = count)
    BY <1>3 DEF Refuse, Fail, TypeOK
  <2>2. count[i] <= count'[i] /\ count'[i] \in Nat
    BY <2>1, <1>t, ScriptType, MaxCountAssumption
  <2> QED BY <2>1, <2>2, <1>t
<1>4. ASSUME NEW ip \in Ips, Tick(ip)
      PROVE  (passed[i][l] <= count[i] /\ passed[i][l] <= l)'
  <2>1. CASE ttl[ip] = 1
    <3>1. /\ count' = [count EXCEPT ![ip] = 0]
          /\ passed' = [passed EXCEPT ![ip] = [m \in Limits |-> 0]]
      BY <1>4, <2>1 DEF Tick, Expire
    <3> QED BY <3>1, <1>t DEF TypeOK
  <2>2. CASE ttl[ip] # 1
    BY <1>4, <2>2, <1>t DEF Tick
  <2> QED BY <2>1, <2>2
<1>5. CASE UNCHANGED vars
  BY <1>5, <1>t DEF vars
<1> QED BY <1>1, <1>2, <1>3, <1>4, <1>5 DEF Next

\* No window lets more requests of an ip through limiters of at most l than l,
\* whatever the callers do and however the limiters are chained.
THEOREM WindowIsBounded == Spec => []WindowBound
<1>1. Init => Counted
  BY LimitsAreNat DEF Init, Counted
<1>2. Counted => WindowBound
  BY DEF Counted, WindowBound
<1> QED BY <1>1, <1>2, CountedStep, TypeCorrect, PTL DEF Spec

-----------------------------------------------------------------------------
(* Requests behind two limiters.                                            *)

\* The requests of ip that have been counted in this window and are not done.
Begun(ip) == {r \in Requests : job[r].ip = ip /\ job[r].spent > 0}

\* A nested request has been counted twice, a begun one once: none shares an increment.
CountedTwice ==
  \A ip \in Ips, l \in Limits :
    /\ 2 * nested[ip][l] + Cardinality(Begun(ip)) <= count[ip]
    /\ 2 * nested[ip][l] <= l

\* The begun requests are finitely many.
LEMMA BegunFinite ==
  ASSUME NEW ip PROVE IsFiniteSet(Begun(ip)) /\ Cardinality(Begun(ip)) \in Nat
BY RequestsAssumption, FS_Subset, FS_CardinalityType DEF Begun

\* How a change of one request changes the begun ones.
LEMMA BegunAfter ==
  ASSUME NEW r \in Requests, NEW i, \A q \in Requests \ {r} : job'[q] = job[q]
  PROVE  Begun(i)' = IF job'[r].ip = i /\ job'[r].spent > 0
                       THEN Begun(i) \cup {r} ELSE Begun(i) \ {r}
<1>1. \A q \in Requests \ {r} : job'[q] = job[q]
  OBVIOUS
<1>2. \A q : q \in Begun(i)' <=> q \in Requests /\ job'[q].ip = i /\ job'[q].spent > 0
  BY DEF Begun
<1>3. \A q : q \in Begun(i) <=> q \in Requests /\ job[q].ip = i /\ job[q].spent > 0
  BY DEF Begun
<1> QED BY <1>1, <1>2, <1>3

\* CountedTwice is inductive.
LEMMA CountedTwiceStep == TypeOK /\ CountedTwice /\ [Next]_vars => CountedTwice'
<1> SUFFICES ASSUME TypeOK, CountedTwice, [Next]_vars, NEW i \in Ips, NEW l \in Limits
             PROVE  (/\ 2 * nested[i][l] + Cardinality(Begun(i)) <= count[i]
                     /\ 2 * nested[i][l] <= l)'
  BY DEF CountedTwice
<1> DEFINE Goal == (/\ 2 * nested[i][l] + Cardinality(Begun(i)) <= count[i]
                    /\ 2 * nested[i][l] <= l)'
<1>t. /\ nested[i][l] \in Nat /\ count[i] \in Nat /\ l \in Nat
      /\ 2 * nested[i][l] + Cardinality(Begun(i)) <= count[i] /\ 2 * nested[i][l] <= l
      /\ Cardinality(Begun(i)) \in Nat
  <2>1. nested[i][l] \in Nat /\ count[i] \in Nat /\ l \in Nat
    BY LimitsAreNat, MaxCountAssumption DEF TypeOK
  <2> QED BY <2>1, BegunFinite DEF CountedTwice
<1>f. /\ IsFiniteSet(Begun(i)) /\ IsFiniteSet(Begun(i)')
      /\ Cardinality(Begun(i)') \in Nat
  <2>1. Begun(i)' \subseteq Requests
    BY DEF Begun
  <2>2. IsFiniteSet(Begun(i)')
    BY <2>1, RequestsAssumption, FS_Subset
  <2> QED BY <2>2, BegunFinite, FS_CardinalityType
<1>g. ASSUME 2 * nested'[i][l] + Cardinality(Begun(i)') <= count'[i], 2 * nested'[i][l] <= l
      PROVE  Goal
  BY <1>g
<1>k. ASSUME nested'[i][l] = nested[i][l], count[i] <= count'[i], count'[i] \in Nat,
             Begun(i)' \subseteq Begun(i)
      PROVE  Goal
  <2>1. Cardinality(Begun(i)') <= Cardinality(Begun(i))
    BY <1>f, <1>k, FS_Subset
  <2> QED BY <1>t, <1>f, <1>g, <1>k, <2>1
<1>1. ASSUME NEW r \in Requests, Arrive(r) PROVE Goal
  <2>1. nested' = nested /\ count' = count
    BY <1>1 DEF Arrive
  <2>2. Begun(i)' \subseteq Begun(i)
    <3>1. job'[r].spent = 0 /\ \A q \in Requests \ {r} : job'[q] = job[q]
      BY <1>1 DEF Arrive, TypeOK
    <3>2. ~(job'[r].spent > 0)
      BY <3>1
    <3> QED BY <3>1, <3>2, BegunAfter
  <2> QED BY <1>k, <1>t, <2>1, <2>2
<1>2. ASSUME NEW r \in Requests, Pass(r) PROVE Goal
  <2> DEFINE ip == job[r].ip
             limit == Head(job[r].chain)
             spent == job[r].spent + 1
             rest == Tail(job[r].chain)
  <2>1. /\ ip \in Ips /\ limit \in Limits /\ limit \in Nat /\ limit < MaxCount
        /\ job[r].spent \in Nat
    BY <1>2, HeadType DEF Pass
  <2>2. Current(ip) <= limit /\ Script(ip)
    BY <1>2 DEF Pass, Allows
  <2>3. Current(ip) = count[ip] + 1
    BY <2>1, <2>2, CurrentType, MaxCountAssumption
  <2>4. count'[ip] = count[ip] + 1 /\ count[i] <= count'[i] /\ count'[i] \in Nat
    BY <2>1, <2>2, <2>3, ScriptType, MaxCountAssumption
  <2>5. job' = [job EXCEPT ![r] = IF rest = <<>> THEN Idle
                                  ELSE [ip |-> ip, chain |-> rest, spent |-> spent]]
    BY <1>2 DEF Pass
  <2>q. /\ job'[r] = IF rest = <<>> THEN Idle
                      ELSE [ip |-> ip, chain |-> rest, spent |-> spent]
        /\ \A q \in Requests \ {r} : job'[q] = job[q]
    BY <2>5 DEF TypeOK
  <2>n. nested \in [Ips -> [Limits -> Nat]]
    BY DEF TypeOK
  <2>a. /\ Add(nested, ip, limit) \in [Ips -> [Limits -> Nat]]
        /\ Add(nested, ip, limit)[i][l]
             = IF i = ip /\ limit <= l THEN nested[i][l] + 1 ELSE nested[i][l]
    BY <2>1, <2>n, AddType
  <2>b. nested' = IF rest = <<>> /\ spent = 2 THEN Add(nested, ip, limit) ELSE nested
    BY <1>2 DEF Pass
  <2>6. CASE i # ip
    <3>1. Begun(i)' \subseteq Begun(i)
      <4>1. job'[r].ip # i \/ ~(job'[r].spent > 0)
        <5>1. CASE rest = <<>>
          BY <2>q, <5>1 DEF Idle
        <5>2. CASE rest # <<>>
          BY <2>6, <2>q, <5>2
        <5> QED BY <5>1, <5>2
      <4> QED BY <4>1, <2>q, BegunAfter
    <3>2. nested'[i][l] = nested[i][l]
      BY <2>6, <2>a, <2>b
    <3> QED BY <1>k, <2>4, <3>1, <3>2
  <2>7. CASE i = ip /\ rest # <<>>
    <3>1. Begun(i)' = Begun(i) \cup {r}
      <4>1. job'[r].ip = i /\ job'[r].spent > 0
        BY <2>q, <2>7, <2>1
      <4> QED BY <4>1, <2>q, BegunAfter
    <3>2. Cardinality(Begun(i)') <= Cardinality(Begun(i)) + 1
      BY <1>f, <1>t, <3>1, FS_AddElement
    <3>3. nested' = nested
      BY <1>2, <2>7 DEF Pass
    <3>4. count'[i] = count[i] + 1
      BY <2>4, <2>7
    <3>5. 2 * nested'[i][l] + Cardinality(Begun(i)') <= count'[i]
      BY <1>t, <1>f, <3>2, <3>3, <3>4
    <3> QED BY <1>g, <1>t, <3>3, <3>5
  <2>8. CASE i = ip /\ rest = <<>>
    <3>1. Begun(i)' = Begun(i) \ {r}
      <4>1. ~(job'[r].spent > 0)
        BY <2>q, <2>8 DEF Idle
      <4> QED BY <4>1, <2>q, BegunAfter
    <3>2. CASE spent = 2
      <4>1. r \in Begun(i)
        BY <2>1, <2>8, <3>2 DEF Begun
      <4>2. Cardinality(Begun(i)') = Cardinality(Begun(i)) - 1
        BY <1>f, <3>1, <4>1, FS_RemoveElement
      <4>3. nested'[i][l] = IF limit <= l THEN nested[i][l] + 1 ELSE nested[i][l]
        BY <2>8, <2>a, <2>b, <3>2
      <4>4. count'[i] <= limit
        BY <2>2, <2>3, <2>4, <2>8
      <4>5. count'[i] = count[i] + 1
        BY <2>4, <2>8
      <4>6. CASE limit <= l
        <5>1. 2 * nested'[i][l] + Cardinality(Begun(i)') <= count'[i]
          BY <1>t, <1>f, <4>2, <4>3, <4>5, <4>6
        <5>2. 2 * nested'[i][l] <= l
          BY <1>t, <1>f, <2>1, <2>4, <4>3, <4>4, <4>6, <5>1
        <5> QED BY <1>g, <5>1, <5>2
      <4>7. CASE ~(limit <= l)
        BY <1>g, <1>t, <1>f, <4>2, <4>3, <4>5, <4>7
      <4> QED BY <4>6, <4>7
    <3>3. CASE spent # 2
      <4>1. nested' = nested
        BY <1>2, <3>3 DEF Pass
      <4> QED BY <1>k, <2>4, <3>1, <4>1
    <3> QED BY <3>2, <3>3
  <2> QED BY <2>6, <2>7, <2>8
<1>3. ASSUME NEW r \in Requests, Refuse(r) \/ Fail(r) PROVE Goal
  <2>1. /\ job[r].ip \in Ips /\ nested' = nested
        /\ job' = [job EXCEPT ![r] = Idle]
        /\ Script(job[r].ip) \/ count' = count
    BY <1>3 DEF Refuse, Fail, TypeOK
  <2>2. count[i] <= count'[i] /\ count'[i] \in Nat
    BY <2>1, <1>t, ScriptType, MaxCountAssumption
  <2>3. Begun(i)' \subseteq Begun(i)
    <3>1. job'[r] = Idle /\ \A q \in Requests \ {r} : job'[q] = job[q]
      BY <2>1 DEF TypeOK
    <3>2. ~(job'[r].spent > 0)
      BY <3>1 DEF Idle
    <3> QED BY <3>1, <3>2, BegunAfter
  <2> QED BY <1>k, <2>1, <2>2, <2>3
<1>4. ASSUME NEW ip \in Ips, Tick(ip) PROVE Goal
  <2>1. CASE ttl[ip] = 1
    <3>1. Expire(ip)
      BY <1>4, <2>1 DEF Tick
    <3>2. CASE i = ip
      <4>1. Begun(i)' = {}
        BY <3>1, <3>2 DEF Expire, Begun, TypeOK
      <4>2. nested'[i][l] = 0 /\ count'[i] = 0
        BY <3>1, <3>2 DEF Expire, TypeOK
      <4>3. Cardinality(Begun(i)') = 0
        BY <4>1, FS_EmptySet
      <4> QED BY <1>g, <1>t, <4>2, <4>3
    <3>3. CASE i # ip
      <4>1. Begun(i)' \subseteq Begun(i) /\ nested'[i] = nested[i] /\ count'[i] = count[i]
        BY <3>1, <3>3 DEF Expire, Begun, TypeOK
      <4> QED BY <1>k, <1>t, <4>1
    <3> QED BY <3>2, <3>3
  <2>2. CASE ttl[ip] # 1
    <3>1. UNCHANGED <<count, job, nested>>
      BY <1>4, <2>2 DEF Tick
    <3>2. Begun(i)' = Begun(i)
      BY <3>1 DEF Begun
    <3> QED BY <1>k, <1>t, <3>1, <3>2
  <2> QED BY <2>1, <2>2
<1>5. CASE UNCHANGED vars
  <2>1. UNCHANGED <<count, job, nested>>
    BY <1>5 DEF vars
  <2>2. Begun(i)' = Begun(i)
    BY <2>1 DEF Begun
  <2> QED BY <1>k, <1>t, <2>1, <2>2
<1> QED BY <1>1, <1>2, <1>3, <1>4, <1>5 DEF Next

\* Requests behind two limiters are served at most l / 2 times in a window for
\* an inner limit of l.
THEOREM NestedIsHalved == Spec => []NestedCountTwice
<1>1. Init => CountedTwice
  <2> SUFFICES ASSUME Init, NEW ip \in Ips, NEW l \in Limits
               PROVE  /\ 2 * nested[ip][l] + Cardinality(Begun(ip)) <= count[ip]
                      /\ 2 * nested[ip][l] <= l
    BY DEF CountedTwice
  <2>1. Begun(ip) = {}
    BY DEF Init, Begun, Idle
  <2>2. Cardinality(Begun(ip)) = 0
    BY <2>1, FS_EmptySet
  <2> QED BY <2>2, LimitsAreNat DEF Init
<1>2. CountedTwice => NestedCountTwice
  BY DEF CountedTwice, NestedCountTwice
<1> QED BY <1>1, <1>2, CountedTwiceStep, TypeCorrect, PTL DEF Spec

-----------------------------------------------------------------------------
(* The end of a window.                                                     *)

\* While there is a key its time only runs down, and only its end resets the count.
NeverProlonged ==
  \A ip \in Ips :
    count[ip] > 0 => ttl'[ip] <= ttl[ip] /\ (count[ip] <= count'[ip] \/ ttl[ip] = 1)

\* However often a caller asks, and whatever the limiters answer him, his window is not
\* prolonged: the script sets the expiry of a new key only (ratelimit.go:67-70).
THEOREM WindowNotProlonged == Spec => [][NeverProlonged]_vars
<1>1. TypeOK /\ [Next]_vars => [NeverProlonged]_vars
  <2> SUFFICES ASSUME TypeOK, [Next]_vars, NEW ip \in Ips, count[ip] > 0, ~UNCHANGED vars
               PROVE  ttl'[ip] <= ttl[ip] /\ (count[ip] <= count'[ip] \/ ttl[ip] = 1)
    BY DEF NeverProlonged
  <2>1. count[ip] \in Nat /\ ttl[ip] \in Nat /\ MaxCount \in Nat
    BY MaxCountAssumption, WindowAssumption DEF TypeOK
  <2>2. ASSUME UNCHANGED <<count, ttl>>
        PROVE  ttl'[ip] <= ttl[ip] /\ count[ip] <= count'[ip]
    BY <2>1, <2>2
  <2>3. ASSUME NEW r \in Requests, job[r].chain # <<>>, Script(job[r].ip)
        PROVE  ttl'[ip] <= ttl[ip] /\ count[ip] <= count'[ip]
    <3>1. job[r].ip \in Ips /\ Head(job[r].chain) \in Limits
      BY <2>3, HeadType DEF TypeOK
    <3>2. MaxCount > 1
      BY <3>1, LimitsAreNat, MaxCountAssumption
    <3>3. job[r].ip = ip => ~SetsExpiry(Current(ip))
      BY <2>1, <3>2 DEF SetsExpiry, Current
    <3>4. ttl'[ip] = ttl[ip]
      BY <2>3, <3>1, <3>3 DEF Script, TypeOK
    <3> QED BY <2>1, <2>3, <3>1, <3>4, ScriptType
  <2>4. ASSUME NEW i \in Ips, Tick(i)
        PROVE  ttl'[ip] <= ttl[ip] /\ (count[ip] <= count'[ip] \/ ttl[ip] = 1)
    <3>1. ttl'[ip] <= ttl[ip] /\ (i = ip => ttl'[ip] = ttl[ip] - 1)
      BY <2>1, <2>4 DEF Tick, TypeOK
    <3>2. CASE ttl[i] = 1
      <4>1. i # ip => count'[ip] = count[ip]
        BY <2>4, <3>2 DEF Tick, Expire, TypeOK
      <4> QED BY <2>1, <3>1, <3>2, <4>1
    <3>3. CASE ttl[i] # 1
      BY <2>1, <2>4, <3>1, <3>3 DEF Tick
    <3> QED BY <3>2, <3>3
  <2> QED BY <2>2, <2>3, <2>4 DEF Next, Arrive, Pass, Refuse, Fail
<1> QED BY <1>1, TypeCorrect, PTL DEF Spec
=============================================================================
