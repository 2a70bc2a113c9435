------------------------ MODULE CircuitBreakerProofs ------------------------
(***************************************************************************)
(* What the circuit breakers guarantee for every set of servers and        *)
(* channels and every configuration: one fresh probe per server, cooldowns *)
(* within their limits, and no failing server forgotten.                   *)
(***************************************************************************)
EXTENDS CircuitBreaker, FiniteSetTheorems, SequenceTheorems, TLAPS

Breaker == [state : States, failures : Seq(Nat), cooldown : Nat, current : Nat, probe : Nat \cup {-1}]

Connects == [server : Servers, probe : BOOLEAN, age : Nat]

\* A breaker's cooldown and failures are within the limits.
WithinLimits(b) ==
    /\ b.current \in InitialCooldown .. MaxCooldown
    /\ b.cooldown <= b.current
    /\ Len(b.failures) < FailureThreshold

\* A breaker leaves no room for a second probe while one of this age is fresh.
Spends(b, age) ==
    /\ b.state = "Open" => b.cooldown + age >= ProbeTimeout
    /\ b.state = "HalfOpen" => b.probe <= age

Fresh(c) == chan[c].probe /\ chan[c].age < ProbeTimeout

TypeInv ==
    /\ penalty \in [Servers -> 0 .. PenaltyDuration]
    /\ breakers \in [Servers -> Breaker \cup {None}]
    /\ \A s \in Known : WithinLimits(breakers[s])
    /\ chan \in [Channels -> Connects \cup {Pending}]

\* The probe that is under way is the only one, and the breaker shows it.
ProbeInv ==
    \A c \in Channels : Fresh(c) =>
        /\ breakers[chan[c].server] # None => Spends(breakers[chan[c].server], chan[c].age)
        /\ \A d \in Channels : (Fresh(d) /\ chan[d].server = chan[c].server) => d = c

BreakerInv == TypeInv /\ ProbeInv

-----------------------------------------------------------------------------
(* Operators.                                                              *)

\* The smaller and the larger of two numbers.
LEMMA MinMaxOfTwo ==
    ASSUME NEW a \in Int, NEW b \in Int
    PROVE  /\ Min({a, b}) = IF a <= b THEN a ELSE b
           /\ Max({a, b}) = IF a >= b THEN a ELSE b
<1>1. Min({a, b}) \in {a, b} /\ \A y \in {a, b} : Min({a, b}) <= y
  <2>1. \E x \in {a, b} : \A y \in {a, b} : x <= y OBVIOUS
  <2> QED BY <2>1 DEF Min
<1>2. Max({a, b}) \in {a, b} /\ \A y \in {a, b} : Max({a, b}) >= y
  <2>1. \E x \in {a, b} : \A y \in {a, b} : x >= y OBVIOUS
  <2> QED BY <2>1 DEF Max
<1> QED BY <1>1, <1>2

\* An age saturates.
LEMMA OlderIs ==
    \A n, most \in Nat : /\ Older(n, most) \in Nat
                         /\ Older(n, most) = IF n + 1 <= most THEN n + 1 ELSE most
<1> SUFFICES ASSUME NEW n \in Nat, NEW most \in Nat
             PROVE  Older(n, most) = IF n + 1 <= most THEN n + 1 ELSE most
  OBVIOUS
<1>1. n + 1 \in Int /\ most \in Int OBVIOUS
<1> QED BY <1>1, MinMaxOfTwo DEF Older

\* What is left of a time stops at zero.
LEMMA LeftIs == \A n \in Nat : Left(n) \in Nat /\ Left(n) = IF n >= 1 THEN n - 1 ELSE 0
<1> SUFFICES ASSUME NEW n \in Nat PROVE Left(n) = IF n >= 1 THEN n - 1 ELSE 0 OBVIOUS
<1>1. n - 1 \in Int /\ 0 \in Int OBVIOUS
<1>2. Max({n - 1, 0}) = IF n - 1 >= 0 THEN n - 1 ELSE 0 BY <1>1, MinMaxOfTwo
<1> QED BY <1>2 DEF Left

\* The constants a proof counts on.
LEMMA Constants ==
    /\ Window \in Nat /\ FailureThreshold \in Nat /\ FailureThreshold >= 1
    /\ InitialCooldown \in Nat /\ ProbeTimeout \in Nat /\ ProbeTimeout >= 1
    /\ PenaltyDuration \in Nat
    /\ MaxCooldown \in Nat /\ MaxCooldown >= InitialCooldown /\ InitialCooldown >= ProbeTimeout
    /\ Hosts \in [Channels -> SUBSET Servers]
BY BoundsAssumption

\* No breaker is the absent one.
LEMMA BreakerPresent == \A b \in Breaker : b # None
BY DEF Breaker, None, States

\* `CircuitBreaker::new` is within the limits and lets everyone through.
LEMMA NewBreakerOK == NewBreaker \in Breaker /\ WithinLimits(NewBreaker) /\ NewBreaker.state = "Closed"
<1>1. <<>> \in Seq(Nat) /\ Len(<<>>) = 0 OBVIOUS
<1>2. NewBreaker \in Breaker BY <1>1, Constants DEF NewBreaker, Breaker, States, NoProbe
<1>3. /\ NewBreaker.current = InitialCooldown /\ NewBreaker.cooldown = 0
      /\ NewBreaker.failures = <<>> /\ NewBreaker.state = "Closed" BY DEF NewBreaker
<1> QED BY <1>1, <1>2, <1>3, Constants DEF WithinLimits

\* `allow` lets a connect through a breaker that is not closed only when a
\* probe of before, however old, has had its time, and then shows the new one.
LEMMA AllowOK ==
    ASSUME NEW b \in Breaker, WithinLimits(b)
    PROVE  /\ allow(b).yes \in BOOLEAN
           /\ allow(b).next \in Breaker /\ WithinLimits(allow(b).next)
           /\ (allow(b).next.state = "Closed") <=> (b.state = "Closed")
           /\ (~allow(b).yes \/ b.state = "Closed") => allow(b).next = b
           /\ (allow(b).yes /\ b.state # "Closed") =>
                /\ allow(b).next.state = "HalfOpen" /\ allow(b).next.probe = 0
                /\ \A age \in Nat : Spends(b, age) => age >= ProbeTimeout
<1>1. b.state \in States /\ b.cooldown \in Nat /\ b.probe \in Int BY DEF Breaker
<1>2. CASE b.state = "Closed"
  <2>1. allow(b) = [yes |-> TRUE, next |-> b] BY <1>2 DEF allow
  <2> QED BY <2>1, <1>2
<1>3. CASE b.state = "Open" /\ b.cooldown > 0
  <2>1. allow(b) = [yes |-> FALSE, next |-> b] BY <1>3 DEF allow
  <2> QED BY <2>1, <1>3
<1>4. CASE b.state = "Open" /\ ~(b.cooldown > 0)
  <2> DEFINE n == [b EXCEPT !.state = "HalfOpen", !.probe = 0]
  <2>1. allow(b) = [yes |-> TRUE, next |-> n] BY <1>4 DEF allow
  <2>2. n \in Breaker
    <3>1. 0 \in Nat \cup {-1} /\ "HalfOpen" \in States BY DEF States
    <3> QED BY <3>1 DEF Breaker
  <2>3. /\ n.state = "HalfOpen" /\ n.probe = 0 /\ n.current = b.current
        /\ n.cooldown = b.cooldown /\ n.failures = b.failures BY DEF Breaker
  <2> HIDE DEF n
  <2>4. WithinLimits(n) BY <2>3 DEF WithinLimits
  <2>5. \A age \in Nat : Spends(b, age) => age >= ProbeTimeout BY <1>1, <1>4, Constants DEF Spends
  <2> QED BY <2>1, <2>2, <2>3, <2>4, <2>5, <1>4
<1>5. CASE b.state = "HalfOpen" /\ b.probe >= ProbeTimeout
  <2> DEFINE n == [b EXCEPT !.probe = 0]
  <2>1. allow(b) = [yes |-> TRUE, next |-> n] BY <1>5 DEF allow
  <2>2. n \in Breaker BY DEF Breaker, States
  <2>3. /\ n.state = b.state /\ n.probe = 0 /\ n.current = b.current
        /\ n.cooldown = b.cooldown /\ n.failures = b.failures BY DEF Breaker
  <2> HIDE DEF n
  <2>4. WithinLimits(n) BY <2>3 DEF WithinLimits
  <2>5. \A age \in Nat : Spends(b, age) => age >= ProbeTimeout BY <1>1, <1>5, Constants DEF Spends
  <2> QED BY <2>1, <2>2, <2>3, <2>4, <2>5, <1>5
<1>6. CASE b.state = "HalfOpen" /\ ~(b.probe >= ProbeTimeout)
  <2>1. allow(b) = [yes |-> FALSE, next |-> b] BY <1>6 DEF allow
  <2> QED BY <2>1, <1>6
<1> QED BY <1>1, <1>2, <1>3, <1>4, <1>5, <1>6 DEF States

\* `record_failure` keeps a breaker within its limits, and never opens the way
\* for a second probe beside a fresh one.
LEMMA FailureOK ==
    ASSUME NEW b \in Breaker, WithinLimits(b)
    PROVE  /\ record_failure(b) \in Breaker /\ WithinLimits(record_failure(b))
           /\ \A age \in Nat : Spends(b, age) => Spends(record_failure(b), age)
<1> DEFINE stale == Cardinality({i \in DOMAIN b.failures : b.failures[i] > Window})
           recent == Append(SubSeq(b.failures, stale + 1, Len(b.failures)), 0)
           longer == Min({2 * b.current, MaxCooldown})
<1>1. /\ b.state \in States /\ b.cooldown \in Nat /\ b.probe \in Int /\ b.current \in Nat
      /\ b.failures \in Seq(Nat) BY DEF Breaker
<1>2. /\ InitialCooldown <= b.current /\ b.current <= MaxCooldown /\ b.cooldown <= b.current
      /\ Len(b.failures) < FailureThreshold BY <1>1, Constants DEF WithinLimits
<1>3. stale \in Nat /\ stale <= Len(b.failures)
  <2>1. IsFiniteSet(DOMAIN b.failures) /\ Cardinality(DOMAIN b.failures) = Len(b.failures)
    <3>1. DOMAIN b.failures = 1 .. Len(b.failures) /\ Len(b.failures) \in Nat BY <1>1
    <3> QED BY <3>1, FS_Interval
  <2> QED BY <2>1, FS_Subset, FS_CardinalityType
<1>4. recent \in Seq(Nat)
  <2> HIDE DEF stale
  <2>1. SubSeq(b.failures, stale + 1, Len(b.failures)) \in Seq(Nat) BY <1>1, <1>3
  <2> QED BY <2>1
<1>5. longer \in Nat /\ InitialCooldown <= longer /\ longer <= MaxCooldown
      /\ longer >= ProbeTimeout
  <2>1. 2 * b.current \in Int /\ 2 * b.current >= b.current BY <1>1
  <2>2. longer = IF 2 * b.current <= MaxCooldown THEN 2 * b.current ELSE MaxCooldown
    BY <2>1, Constants, MinMaxOfTwo
  <2> HIDE DEF longer
  <2> QED BY <2>1, <2>2, <1>1, <1>2, Constants
<1>6. <<>> \in Seq(Nat) /\ Len(<<>>) = 0 OBVIOUS
<1> HIDE DEF stale, recent, longer
<1>7. CASE b.state = "HalfOpen"
  <2> DEFINE n == [b EXCEPT !.state = "Open", !.current = longer, !.cooldown = longer, !.failures = <<>>]
  <2>1. record_failure(b) = n BY <1>7 DEF record_failure, longer
  <2>2. n \in Breaker BY <1>5, <1>6 DEF Breaker, States
  <2>3. n.state = "Open" /\ n.current = longer /\ n.cooldown = longer /\ n.failures = <<>>
    BY DEF Breaker
  <2> HIDE DEF n
  <2>4. WithinLimits(n) BY <2>3, <1>5, <1>6, Constants DEF WithinLimits
  <2>5. \A age \in Nat : Spends(n, age) BY <2>3, <1>5, Constants DEF Spends
  <2> QED BY <2>1, <2>2, <2>4, <2>5
<1>8. CASE b.state = "Open"
  <2>1. record_failure(b) = b BY <1>8 DEF record_failure
  <2> QED BY <2>1
<1>9. CASE b.state = "Closed" /\ Len(recent) >= FailureThreshold
  <2> DEFINE n == [b EXCEPT !.state = "Open", !.cooldown = b.current, !.failures = <<>>]
  <2>1. record_failure(b) = n BY <1>9 DEF record_failure, recent, stale
  <2>2. n \in Breaker BY <1>1, <1>6 DEF Breaker, States
  <2>3. n.state = "Open" /\ n.current = b.current /\ n.cooldown = b.current /\ n.failures = <<>>
    BY DEF Breaker
  <2> HIDE DEF n
  <2>4. WithinLimits(n) BY <2>3, <1>1, <1>2, <1>6, Constants DEF WithinLimits
  <2>5. \A age \in Nat : Spends(n, age) BY <2>3, <1>1, <1>2, Constants DEF Spends
  <2> QED BY <2>1, <2>2, <2>4, <2>5
<1>10. CASE b.state = "Closed" /\ ~(Len(recent) >= FailureThreshold)
  <2> DEFINE n == [b EXCEPT !.failures = recent]
  <2>1. record_failure(b) = n BY <1>10 DEF record_failure, recent, stale
  <2>2. n \in Breaker BY <1>4 DEF Breaker, States
  <2>3. n.state = "Closed" /\ n.current = b.current /\ n.cooldown = b.cooldown /\ n.failures = recent
    BY <1>10 DEF Breaker
  <2> HIDE DEF n
  <2>4. Len(recent) \in Nat BY <1>4
  <2>5. WithinLimits(n) BY <2>3, <2>4, <1>1, <1>2, <1>10, Constants DEF WithinLimits
  <2>6. \A age \in Nat : Spends(n, age) BY <2>3 DEF Spends
  <2> QED BY <2>1, <2>2, <2>5, <2>6
<1> QED BY <1>1, <1>7, <1>8, <1>9, <1>10 DEF States

-----------------------------------------------------------------------------
(* The registry.                                                           *)

\* A server's place in the registry holds nothing or a breaker within limits.
LEMMA RegistryFacts ==
    ASSUME TypeInv, NEW s \in Servers
    PROVE  /\ breakers[s] \in Breaker \cup {None}
           /\ s \in Known <=> breakers[s] # None
           /\ breakers[s] # None => breakers[s] \in Breaker /\ WithinLimits(breakers[s])
BY DEF TypeInv, Known

\* Making an entry for a server adds or forgets closed breakers only, and
\* forgets none that has failures.
LEMMA EntryOK ==
    ASSUME TypeInv, NEW s \in Servers
    PROVE  /\ WithEntry(s) \in [Servers -> Breaker \cup {None}]
           /\ WithEntry(s)[s] \in Breaker
           /\ WithEntry(s)[s] = breakers[s] \/ (breakers[s] = None /\ WithEntry(s)[s] = NewBreaker)
           /\ \A x \in Servers \ {s} :
                WithEntry(s)[x] = breakers[x] \/ (WithEntry(s)[x] = None /\ Evicted(breakers[x]))
           /\ \A x \in Servers : WithEntry(s)[x] # None => WithinLimits(WithEntry(s)[x])
<1> DEFINE evict == Cardinality(Known) >= MaxBreakers /\ s \notin Known
           E(x) == IF x = s THEN (IF s \in Known THEN breakers[s] ELSE NewBreaker)
                   ELSE IF evict /\ Evicted(breakers[x]) THEN None ELSE breakers[x]
<1>1. WithEntry(s) = [x \in Servers |-> E(x)] BY DEF WithEntry
<1> HIDE DEF evict
<1>2. E(s) \in Breaker /\ WithinLimits(E(s))
      /\ (E(s) = breakers[s] \/ (breakers[s] = None /\ E(s) = NewBreaker))
  BY RegistryFacts, NewBreakerOK
<1>3. \A x \in Servers \ {s} :
        /\ E(x) \in Breaker \cup {None}
        /\ E(x) = breakers[x] \/ (E(x) = None /\ Evicted(breakers[x]))
        /\ E(x) # None => WithinLimits(E(x))
  BY RegistryFacts
<1> HIDE DEF E
<1>4. \A x \in Servers : WithEntry(s)[x] = E(x) BY <1>1
<1>5. \A x \in Servers : E(x) \in Breaker \cup {None} BY <1>2, <1>3
<1>6. WithEntry(s) \in [Servers -> Breaker \cup {None}] BY <1>1, <1>5
<1> QED BY <1>2, <1>3, <1>4, <1>6

\* What is under way is a connect to a server.
LEMMA ConnectFacts ==
    ASSUME TypeInv, NEW c \in Channels
    PROVE  /\ chan[c].age \in Nat /\ chan[c].probe \in BOOLEAN
           /\ chan[c] # Pending => chan[c] \in Connects /\ chan[c].server \in Servers
           /\ Fresh(c) => chan[c] # Pending
           /\ chan[c] = Pending => ~Fresh(c)
<1>1. chan[c] \in Connects \cup {Pending} BY DEF TypeInv
<1>2. Pending.age = 0 /\ Pending.probe = FALSE BY DEF Pending
<1>3. CASE chan[c] = Pending
  <2>1. chan[c].age = 0 /\ chan[c].probe = FALSE BY <1>2, <1>3
  <2>2. ~Fresh(c) BY <2>1 DEF Fresh
  <2>3. chan[c].age \in Nat BY <2>1
  <2>4. chan[c].probe \in BOOLEAN BY <2>1, Zenon
  <2> QED BY <2>2, <2>3, <2>4, <1>3
<1>4. CASE chan[c] # Pending
  <2>1. chan[c] \in Connects BY <1>1, <1>4
  <2> QED BY <2>1, <1>4 DEF Connects
<1> QED BY <1>3, <1>4

-----------------------------------------------------------------------------
(* The invariant.                                                          *)

\* A registry that changes no breaker's answer to a fresh probe keeps the
\* invariant, whichever connects end.
LEMMA ProbesKept ==
    ASSUME ProbeInv, TypeInv,
           \A c \in Channels : chan'[c] = chan[c] \/ chan'[c] = Pending,
           \A x \in Servers : breakers'[x] # None =>
                \A age \in Nat : (breakers[x] # None => Spends(breakers[x], age)) => Spends(breakers'[x], age)
    PROVE  ProbeInv'
<1>1. ASSUME NEW c \in Channels, Fresh(c)' PROVE chan'[c] = chan[c] /\ Fresh(c)
  <2>1. chan'[c] # Pending BY <1>1 DEF Fresh, Pending
  <2> QED BY <2>1, <1>1 DEF Fresh
<1>2. ASSUME NEW c \in Channels, Fresh(c)', breakers'[chan'[c].server] # None
      PROVE  Spends(breakers'[chan'[c].server], chan'[c].age)
  <2> DEFINE x == chan[c].server
  <2>1. chan'[c] = chan[c] /\ Fresh(c) BY <1>1, <1>2
  <2>2. x \in Servers /\ chan[c].age \in Nat BY <2>1, ConnectFacts
  <2>3. breakers[x] # None => Spends(breakers[x], chan[c].age) BY <2>1 DEF ProbeInv
  <2> QED BY <2>1, <2>2, <2>3, <1>2
<1>3. ASSUME NEW c \in Channels, Fresh(c)', NEW d \in Channels, Fresh(d)',
             chan'[d].server = chan'[c].server
      PROVE  d = c
  <2>1. chan'[c] = chan[c] /\ Fresh(c) /\ chan'[d] = chan[d] /\ Fresh(d) BY <1>1, <1>3
  <2> QED BY <2>1, <1>3 DEF ProbeInv
<1> QED BY <1>2, <1>3 DEF ProbeInv

\* handle_search_response: the connect it starts through a breaker that is not
\* closed is a probe beside no fresh one.
LEMMA SearchReplyKeeps ==
    ASSUME BreakerInv, NEW s \in Servers, NEW c \in Channels, SearchReply(s, c)
    PROVE  BreakerInv'
<1> DEFINE b == WithEntry(s)
           a == allow(b[s])
           new == [server |-> s, probe |-> b[s].state # "Closed", age |-> 0]
<1>1. TypeInv /\ ProbeInv BY DEF BreakerInv
<1>2. /\ chan[c] = Pending /\ penalty' = penalty
      /\ breakers' = [b EXCEPT ![s] = a.next]
      /\ chan' = IF a.yes THEN [chan EXCEPT ![c] = new] ELSE chan
  BY DEF SearchReply
<1>3. /\ b \in [Servers -> Breaker \cup {None}] /\ b[s] \in Breaker /\ WithinLimits(b[s])
      /\ b[s] = breakers[s] \/ (breakers[s] = None /\ b[s] = NewBreaker)
      /\ \A x \in Servers \ {s} : b[x] = breakers[x] \/ b[x] = None
      /\ \A x \in Servers : b[x] # None => WithinLimits(b[x])
  BY <1>1, EntryOK, BreakerPresent
<1>4. /\ a.yes \in BOOLEAN /\ a.next \in Breaker /\ WithinLimits(a.next)
      /\ (~a.yes \/ b[s].state = "Closed") => a.next = b[s]
      /\ (a.yes /\ b[s].state # "Closed") =>
            /\ a.next.state = "HalfOpen" /\ a.next.probe = 0
            /\ \A age \in Nat : Spends(b[s], age) => age >= ProbeTimeout
  BY <1>3, AllowOK
<1>5. new \in Connects /\ new.server = s /\ new.age = 0 /\ new.probe = (b[s].state # "Closed")
  BY DEF Connects
<1> HIDE DEF b, a, new
<1>6. /\ breakers' \in [Servers -> Breaker \cup {None}] /\ breakers'[s] = a.next
      /\ \A x \in Servers \ {s} : breakers'[x] = b[x]
  BY <1>2, <1>3, <1>4
<1>7. /\ chan' \in [Channels -> Connects \cup {Pending}]
      /\ \A d \in Channels \ {c} : chan'[d] = chan[d]
      /\ chan'[c] = IF a.yes THEN new ELSE Pending
  BY <1>1, <1>2, <1>5 DEF TypeInv
<1>8. TypeInv'
  <2>1. \A x \in Servers : breakers'[x] # None => WithinLimits(breakers'[x]) BY <1>3, <1>4, <1>6
  <2> QED BY <1>1, <1>2, <1>6, <1>7, <2>1 DEF TypeInv, Known
<1>9. CASE ~a.yes \/ b[s].state = "Closed"
  <2>1. a.next = b[s] BY <1>4, <1>9
  <2>2. \A x \in Servers : breakers'[x] # None =>
            breakers'[x].state = "Closed" \/ (breakers[x] # None /\ breakers'[x] = breakers[x])
    BY <2>1, <1>3, <1>6, NewBreakerOK, BreakerPresent
  <2>3. ~Fresh(c)'
    <3>1. CASE a.yes
      <4>1. chan'[c] = new /\ b[s].state = "Closed" BY <3>1, <1>7, <1>9
      <4> QED BY <4>1, <1>5 DEF Fresh
    <3>2. CASE ~a.yes
      <4>1. chan'[c] = Pending BY <3>2, <1>7
      <4>2. Pending.probe = FALSE BY DEF Pending
      <4> QED BY <4>1, <4>2 DEF Fresh
    <3> QED BY <3>1, <3>2
  <2>4. ASSUME NEW d \in Channels, Fresh(d)' PROVE d # c /\ chan'[d] = chan[d] /\ Fresh(d)
    BY <2>3, <2>4, <1>7 DEF Fresh
  <2>5. ASSUME NEW d \in Channels, Fresh(d)', breakers'[chan'[d].server] # None
        PROVE  Spends(breakers'[chan'[d].server], chan'[d].age)
    <3>1. d # c /\ chan'[d] = chan[d] /\ Fresh(d) BY <2>4, <2>5
    <3>2. chan[d].server \in Servers BY <3>1, <1>1, ConnectFacts
    <3>3. breakers[chan[d].server] # None => Spends(breakers[chan[d].server], chan[d].age)
      BY <3>1, <1>1 DEF ProbeInv
    <3> QED BY <3>1, <3>2, <3>3, <2>2, <2>5 DEF Spends
  <2>6. ASSUME NEW d \in Channels, Fresh(d)', NEW e \in Channels, Fresh(e)',
               chan'[e].server = chan'[d].server
        PROVE  e = d
    BY <2>4, <2>6, <1>1 DEF ProbeInv
  <2>7. ProbeInv' BY <2>5, <2>6 DEF ProbeInv
  <2> QED BY <2>7, <1>8 DEF BreakerInv
<1>10. CASE a.yes /\ b[s].state # "Closed"
  <2>1. b[s] = breakers[s] /\ breakers[s] # None BY <1>3, <1>10, NewBreakerOK, BreakerPresent
  <2>2. \A d \in Channels : Fresh(d) => chan[d].server # s
    <3> SUFFICES ASSUME NEW d \in Channels, Fresh(d), chan[d].server = s PROVE FALSE OBVIOUS
    <3>1. Spends(b[s], chan[d].age) BY <2>1, <1>1 DEF ProbeInv
    <3>2. chan[d].age \in Nat BY <1>1, ConnectFacts
    <3>3. chan[d].age >= ProbeTimeout BY <3>1, <3>2, <1>4, <1>10
    <3> QED BY <3>2, <3>3, Constants DEF Fresh
  <2>3. chan'[c] = new BY <1>7, <1>10
  <2>4. ASSUME NEW d \in Channels, Fresh(d)', d # c
        PROVE  chan'[d] = chan[d] /\ Fresh(d) /\ chan[d].server \in Servers \ {s}
    <3>1. chan'[d] = chan[d] /\ Fresh(d) BY <2>4, <1>7 DEF Fresh
    <3> QED BY <3>1, <2>2, <1>1, ConnectFacts
  <2>5. ASSUME NEW d \in Channels, Fresh(d)', breakers'[chan'[d].server] # None
        PROVE  Spends(breakers'[chan'[d].server], chan'[d].age)
    <3>1. CASE d = c
      <4>1. breakers'[chan'[d].server] = a.next /\ chan'[d].age = 0 BY <3>1, <2>3, <1>5, <1>6
      <4> QED BY <4>1, <1>4, <1>10 DEF Spends
    <3>2. CASE d # c
      <4>1. chan'[d] = chan[d] /\ Fresh(d) /\ chan[d].server \in Servers \ {s} BY <2>4, <2>5, <3>2
      <4>2. breakers'[chan[d].server] = breakers[chan[d].server] BY <4>1, <2>5, <1>3, <1>6
      <4> QED BY <4>1, <4>2, <2>5, <1>1 DEF ProbeInv
    <3> QED BY <3>1, <3>2
  <2>6. ASSUME NEW d \in Channels, Fresh(d)', NEW e \in Channels, Fresh(e)',
               chan'[e].server = chan'[d].server
        PROVE  e = d
    <3>1. CASE d = c \/ e = c BY <3>1, <2>3, <2>4, <2>6, <1>5
    <3>2. CASE d # c /\ e # c BY <3>2, <2>4, <2>6, <1>1 DEF ProbeInv
    <3> QED BY <3>1, <3>2
  <2>7. ProbeInv' BY <2>5, <2>6 DEF ProbeInv
  <2> QED BY <2>7, <1>8 DEF BreakerInv
<1> QED BY <1>4, <1>9, <1>10

\* ConnectResult, a success: the breaker is a new one.
LEMMA ConnectSucceedsKeeps ==
    ASSUME BreakerInv, NEW c \in Channels, ConnectSucceeds(c)
    PROVE  BreakerInv'
<1> DEFINE s == chan[c].server
<1>1. TypeInv /\ ProbeInv BY DEF BreakerInv
<1>2. s \in Servers BY <1>1, ConnectFacts DEF ConnectSucceeds
<1>3. /\ penalty' = [penalty EXCEPT ![s] = 0] /\ chan' = [chan EXCEPT ![c] = Pending]
      /\ breakers' = [breakers EXCEPT ![s] = record_success(breakers[s])]
  BY DEF ConnectSucceeds
<1> HIDE DEF s
<1>4. \A x \in Servers : breakers'[x] = breakers[x] \/ breakers'[x] = NewBreaker
  BY <1>1, <1>2, <1>3 DEF TypeInv, record_success
<1>5. TypeInv'
  <2>1. penalty' \in [Servers -> 0 .. PenaltyDuration] BY <1>1, <1>2, <1>3, Constants DEF TypeInv
  <2>2. breakers' \in [Servers -> Breaker \cup {None}]
    BY <1>1, <1>2, <1>3, NewBreakerOK DEF TypeInv, record_success
  <2>3. \A x \in Servers : breakers'[x] # None => WithinLimits(breakers'[x])
    BY <1>1, <1>4, NewBreakerOK, RegistryFacts
  <2>4. chan' \in [Channels -> Connects \cup {Pending}] BY <1>1, <1>3 DEF TypeInv
  <2> QED BY <2>1, <2>2, <2>3, <2>4 DEF TypeInv, Known
<1>6. \A d \in Channels : chan'[d] = chan[d] \/ chan'[d] = Pending BY <1>1, <1>3 DEF TypeInv
<1>7. \A x \in Servers : breakers'[x] # None =>
        \A age \in Nat : (breakers[x] # None => Spends(breakers[x], age)) => Spends(breakers'[x], age)
  <2>1. \A age \in Nat : Spends(NewBreaker, age) BY NewBreakerOK DEF Spends
  <2> QED BY <2>1, <1>4
<1>8. ProbeInv' BY <1>1, <1>6, <1>7, ProbesKept
<1> QED BY <1>5, <1>8 DEF BreakerInv

\* ConnectResult, a failure.
LEMMA ConnectFailsKeeps ==
    ASSUME BreakerInv, NEW c \in Channels, ConnectFails(c)
    PROVE  BreakerInv'
<1> DEFINE s == chan[c].server
           b == WithEntry(s)
           f == record_failure(b[s])
<1>1. TypeInv /\ ProbeInv BY DEF BreakerInv
<1>2. s \in Servers BY <1>1, ConnectFacts DEF ConnectFails
<1>3. /\ penalty' = [penalty EXCEPT ![s] = PenaltyDuration] /\ chan' = [chan EXCEPT ![c] = Pending]
      /\ breakers' = [b EXCEPT ![s] = f]
  BY DEF ConnectFails
<1> HIDE DEF s
<1>4. /\ b \in [Servers -> Breaker \cup {None}] /\ b[s] \in Breaker /\ WithinLimits(b[s])
      /\ b[s] = breakers[s] \/ (breakers[s] = None /\ b[s] = NewBreaker)
      /\ \A x \in Servers \ {s} : b[x] = breakers[x] \/ b[x] = None
      /\ \A x \in Servers : b[x] # None => WithinLimits(b[x])
  BY <1>1, <1>2, EntryOK, BreakerPresent
<1>5. /\ f \in Breaker /\ WithinLimits(f)
      /\ \A age \in Nat : Spends(b[s], age) => Spends(f, age)
  BY <1>4, FailureOK
<1> HIDE DEF b, f
<1>6. /\ breakers' \in [Servers -> Breaker \cup {None}] /\ breakers'[s] = f
      /\ \A x \in Servers \ {s} : breakers'[x] = b[x]
  BY <1>2, <1>3, <1>4, <1>5
<1>7. TypeInv'
  <2>1. penalty' \in [Servers -> 0 .. PenaltyDuration] BY <1>1, <1>2, <1>3, Constants DEF TypeInv
  <2>2. \A x \in Servers : breakers'[x] # None => WithinLimits(breakers'[x]) BY <1>4, <1>5, <1>6
  <2>3. chan' \in [Channels -> Connects \cup {Pending}] BY <1>1, <1>3 DEF TypeInv
  <2> QED BY <2>1, <2>2, <2>3, <1>6 DEF TypeInv, Known
<1>8. \A d \in Channels : chan'[d] = chan[d] \/ chan'[d] = Pending BY <1>1, <1>3 DEF TypeInv
<1>9. \A x \in Servers : breakers'[x] # None =>
        \A age \in Nat : (breakers[x] # None => Spends(breakers[x], age)) => Spends(breakers'[x], age)
  <2>1. \A age \in Nat : (breakers[s] # None => Spends(breakers[s], age)) => Spends(b[s], age)
    <3>1. \A age \in Nat : Spends(NewBreaker, age) BY NewBreakerOK DEF Spends
    <3> QED BY <3>1, <1>4, BreakerPresent
  <2>2. \A age \in Nat : (breakers[s] # None => Spends(breakers[s], age)) => Spends(f, age) BY <2>1, <1>5
  <2> QED BY <2>2, <1>4, <1>6
<1>10. ProbeInv' BY <1>1, <1>8, <1>9, ProbesKept
<1> QED BY <1>7, <1>10 DEF BreakerInv

\* The connect that never has a result leaves the breaker as it is.
LEMMA ConnectDroppedKeeps ==
    ASSUME BreakerInv, NEW c \in Channels, ConnectDropped(c)
    PROVE  BreakerInv'
<1>1. TypeInv /\ ProbeInv BY DEF BreakerInv
<1>2. chan' = [chan EXCEPT ![c] = Pending] /\ breakers' = breakers /\ penalty' = penalty
  BY DEF ConnectDropped
<1>3. chan' \in [Channels -> Connects \cup {Pending}] BY <1>1, <1>2 DEF TypeInv
<1>4. TypeInv' BY <1>1, <1>2, <1>3 DEF TypeInv, Known
<1>5. \A d \in Channels : chan'[d] = chan[d] \/ chan'[d] = Pending BY <1>1, <1>2 DEF TypeInv
<1>6. ProbeInv' BY <1>1, <1>2, <1>5, ProbesKept
<1> QED BY <1>4, <1>6 DEF BreakerInv

\* A breaker one tick later.
Aged(b) ==
    [b EXCEPT !.cooldown = Left(@),
              !.probe = IF @ = NoProbe THEN NoProbe ELSE Older(@, ProbeTimeout),
              !.failures = [i \in DOMAIN @ |-> Older(@[i], Window + 1)]]

\* Time takes from a cooldown no more than it adds to a probe's age, and ages
\* a breaker's stamp with the probe.
LEMMA AgedOK ==
    ASSUME NEW b \in Breaker, WithinLimits(b)
    PROVE  /\ Aged(b) \in Breaker /\ WithinLimits(Aged(b))
           /\ \A age \in Nat : (age + 1 < ProbeTimeout /\ Spends(b, age)) => Spends(Aged(b), age + 1)
<1> DEFINE cooldown == Left(b.cooldown)
           probe == IF b.probe = NoProbe THEN NoProbe ELSE Older(b.probe, ProbeTimeout)
           failures == [i \in DOMAIN b.failures |-> Older(b.failures[i], Window + 1)]
<1>1. /\ b.state \in States /\ b.cooldown \in Nat /\ b.probe \in Nat \cup {-1} /\ b.current \in Nat
      /\ b.failures \in Seq(Nat) BY DEF Breaker
<1>2. cooldown \in Nat /\ cooldown <= b.cooldown /\ cooldown + 1 >= b.cooldown
  <2>1. \A n \in Nat : Left(n) \in Nat /\ Left(n) <= n /\ Left(n) + 1 >= n BY LeftIs
  <2>2. b.cooldown \in Nat BY <1>1
  <2> QED BY <2>1, <2>2
<1>3. probe \in Nat \cup {-1} /\ probe <= b.probe + 1
  <2>1. \A n \in Nat : Older(n, ProbeTimeout) \in Nat /\ Older(n, ProbeTimeout) <= n + 1
    <3>1. ProbeTimeout \in Nat BY Constants
    <3> SUFFICES ASSUME NEW n \in Nat
                 PROVE  Older(n, ProbeTimeout) \in Nat /\ Older(n, ProbeTimeout) <= n + 1
      OBVIOUS
    <3>2. Older(n, ProbeTimeout) = IF n + 1 <= ProbeTimeout THEN n + 1 ELSE ProbeTimeout
      BY <3>1, OlderIs
    <3> QED BY <3>1, <3>2
  <2>2. CASE b.probe = -1 BY <2>2 DEF NoProbe
  <2>3. CASE b.probe # -1
    <3>1. b.probe \in Nat BY <1>1, <2>3
    <3>2. probe = Older(b.probe, ProbeTimeout) BY <2>3 DEF NoProbe
    <3> QED BY <2>1, <3>1, <3>2
  <2> QED BY <2>2, <2>3
<1>4. failures \in Seq(Nat) /\ Len(failures) = Len(b.failures)
  <2>1. Window + 1 \in Nat BY Constants
  <2>2. \A i \in DOMAIN b.failures : Older(b.failures[i], Window + 1) \in Nat
    <3>1. \A n \in Nat : Older(n, Window + 1) \in Nat BY <2>1, OlderIs
    <3>2. \A i \in DOMAIN b.failures : b.failures[i] \in Nat BY <1>1
    <3> QED BY <3>1, <3>2
  <2>3. DOMAIN b.failures = 1 .. Len(b.failures) /\ Len(b.failures) \in Nat BY <1>1
  <2> QED BY <2>2, <2>3
<1>5. Aged(b) = [b EXCEPT !.cooldown = cooldown, !.probe = probe, !.failures = failures] BY DEF Aged
<1> HIDE DEF cooldown, probe, failures
<1>6. Aged(b) \in Breaker BY <1>2, <1>3, <1>4, <1>5 DEF Breaker
<1>7. /\ Aged(b).state = b.state /\ Aged(b).current = b.current /\ Aged(b).cooldown = cooldown
      /\ Aged(b).probe = probe /\ Aged(b).failures = failures BY <1>5 DEF Breaker
<1>8. WithinLimits(Aged(b)) BY <1>1, <1>2, <1>4, <1>7, Constants DEF WithinLimits
<1>9. \A age \in Nat : Spends(b, age) => Spends(Aged(b), age + 1)
  BY <1>1, <1>2, <1>3, <1>7, Constants DEF Spends
<1> QED BY <1>6, <1>8, <1>9

\* The clock.
LEMMA TickKeeps ==
    ASSUME BreakerInv, Tick
    PROVE  BreakerInv'
<1> DEFINE Later(c) == [chan[c] EXCEPT !.age = Older(@, ProbeTimeout)]
<1>1. TypeInv /\ ProbeInv BY DEF BreakerInv
<1>2. breakers' = [s \in Servers |-> IF breakers[s] = None THEN None ELSE Aged(breakers[s])]
  BY DEF Tick, Known, Aged
<1>3. chan' = [c \in Channels |-> IF chan[c] = Pending THEN Pending ELSE Later(c)] BY DEF Tick
<1>4. penalty' = [s \in Servers |-> Left(penalty[s])] BY DEF Tick
<1>5. ASSUME NEW c \in Channels, chan[c] # Pending
      PROVE  /\ Later(c) \in Connects /\ Later(c).server = chan[c].server /\ Later(c).probe = chan[c].probe
             /\ Later(c).age = Older(chan[c].age, ProbeTimeout)
  <2>1. chan[c] \in Connects /\ chan[c].age \in Nat BY <1>1, <1>5, ConnectFacts
  <2>2. Older(chan[c].age, ProbeTimeout) \in Nat BY <2>1, OlderIs, Constants
  <2> QED BY <2>1, <2>2 DEF Connects
<1> HIDE DEF Later
<1>6. \A s \in Servers :
        /\ breakers[s] = None => breakers'[s] = None
        /\ breakers[s] # None => breakers'[s] = Aged(breakers[s])
  BY <1>2
<1>7. TypeInv'
  <2>1. penalty' \in [Servers -> 0 .. PenaltyDuration]
    <3>1. ASSUME NEW s \in Servers PROVE Left(penalty[s]) \in 0 .. PenaltyDuration
      <4>1. penalty[s] \in Nat /\ penalty[s] <= PenaltyDuration BY <1>1, Constants DEF TypeInv
      <4> QED BY <4>1, LeftIs, Constants
    <3> QED BY <3>1, <1>4
  <2>2. breakers' \in [Servers -> Breaker \cup {None}]
    <3>1. \A s \in Servers : breakers[s] # None => Aged(breakers[s]) \in Breaker
      BY <1>1, RegistryFacts, AgedOK
    <3> QED BY <3>1, <1>2
  <2>3. \A s \in Servers : breakers'[s] # None => WithinLimits(breakers'[s])
    BY <1>1, <1>6, RegistryFacts, AgedOK
  <2>4. chan' \in [Channels -> Connects \cup {Pending}] BY <1>3, <1>5
  <2> QED BY <2>1, <2>2, <2>3, <2>4 DEF TypeInv, Known
<1>8. ASSUME NEW c \in Channels, Fresh(c)'
      PROVE  /\ Fresh(c) /\ chan'[c].server = chan[c].server /\ chan[c].server \in Servers
             /\ chan[c].age \in Nat /\ chan'[c].age = chan[c].age + 1 /\ chan[c].age + 1 < ProbeTimeout
  <2>1. chan[c] # Pending
    <3>1. Pending.probe = FALSE BY DEF Pending
    <3> QED BY <3>1, <1>3, <1>8 DEF Fresh
  <2>2. /\ chan[c].age \in Nat /\ chan[c].server \in Servers BY <2>1, <1>1, ConnectFacts
  <2>3. chan'[c] = Later(c) BY <2>1, <1>3
  <2>4. /\ chan'[c].server = chan[c].server /\ chan'[c].probe = chan[c].probe
        /\ chan'[c].age = Older(chan[c].age, ProbeTimeout) BY <2>1, <2>3, <1>5
  <2>5. chan'[c].age < ProbeTimeout /\ chan'[c].probe BY <1>8 DEF Fresh
  <2>6. chan'[c].age = chan[c].age + 1 BY <2>2, <2>4, <2>5, OlderIs, Constants
  <2> QED BY <2>2, <2>4, <2>5, <2>6, Constants DEF Fresh
<1>9. ASSUME NEW c \in Channels, Fresh(c)', breakers'[chan'[c].server] # None
      PROVE  Spends(breakers'[chan'[c].server], chan'[c].age)
  <2> DEFINE s == chan[c].server
  <2>1. /\ Fresh(c) /\ chan'[c].server = s /\ s \in Servers /\ chan[c].age \in Nat
        /\ chan'[c].age = chan[c].age + 1 /\ chan[c].age + 1 < ProbeTimeout BY <1>8, <1>9
  <2>2. breakers[s] # None /\ breakers'[s] = Aged(breakers[s]) BY <2>1, <1>6, <1>9
  <2>3. Spends(breakers[s], chan[c].age) BY <2>1, <2>2, <1>1 DEF ProbeInv
  <2>4. breakers[s] \in Breaker /\ WithinLimits(breakers[s]) BY <2>1, <2>2, <1>1, RegistryFacts
  <2> HIDE DEF s
  <2>5. Spends(Aged(breakers[s]), chan[c].age + 1) BY <2>1, <2>3, <2>4, AgedOK
  <2> QED BY <2>1, <2>2, <2>5
<1>10. ASSUME NEW c \in Channels, Fresh(c)', NEW d \in Channels, Fresh(d)',
              chan'[d].server = chan'[c].server
       PROVE  d = c
  <2>1. /\ Fresh(c) /\ chan'[c].server = chan[c].server BY <1>8, <1>10
  <2>2. /\ Fresh(d) /\ chan'[d].server = chan[d].server BY <1>8, <1>10
  <2> QED BY <2>1, <2>2, <1>1, <1>10 DEF ProbeInv
<1>11. ProbeInv' BY <1>9, <1>10 DEF ProbeInv
<1> QED BY <1>7, <1>11 DEF BreakerInv

-----------------------------------------------------------------------------
\* BreakerInv is inductive.
THEOREM BreakersSound == Spec => []BreakerInv
<1>1. Init => BreakerInv
  <2> SUFFICES ASSUME Init PROVE BreakerInv OBVIOUS
  <2>1. TypeInv BY Constants DEF Init, TypeInv, Known
  <2>2. \A c \in Channels : ~Fresh(c) BY DEF Init, Fresh, Pending
  <2> QED BY <2>1, <2>2 DEF BreakerInv, ProbeInv
<1>2. BreakerInv /\ [Next]_vars => BreakerInv'
  <2> SUFFICES ASSUME BreakerInv, [Next]_vars PROVE BreakerInv' OBVIOUS
  <2>1. CASE \E s \in Servers, c \in Channels : SearchReply(s, c) BY <2>1, SearchReplyKeeps
  <2>2. CASE \E c \in Channels : ConnectSucceeds(c) BY <2>2, ConnectSucceedsKeeps
  <2>3. CASE \E c \in Channels : ConnectFails(c) BY <2>3, ConnectFailsKeeps
  <2>4. CASE \E c \in Channels : ConnectDropped(c) BY <2>4, ConnectDroppedKeeps
  <2>5. CASE Tick BY <2>5, TickKeeps
  <2>6. CASE UNCHANGED vars
    BY <2>6 DEF vars, BreakerInv, TypeInv, ProbeInv, Known, Fresh
  <2> QED BY <2>1, <2>2, <2>3, <2>4, <2>5, <2>6 DEF Next
<1> QED BY <1>1, <1>2, PTL DEF Spec

\* A set with no two elements has at most one.
LEMMA AtMostOne ==
    ASSUME NEW S, \A x, y \in S : x = y
    PROVE  Cardinality(S) <= 1
<1>1. CASE S = {} BY <1>1, FS_EmptySet
<1>2. CASE S # {}
  <2>1. PICK x \in S : TRUE BY <1>2
  <2>2. S = {x} BY <2>1
  <2> QED BY <2>2, FS_Singleton
<1> QED BY <1>1, <1>2

\* However results are delayed, dropped or crossed, a failing server is probed
\* by one connect at a time, and its cooldown stays within the limits.
THEOREM ProbedByOne == Spec => []OneProbe
<1>1. BreakerInv => OneProbe
  <2> SUFFICES ASSUME BreakerInv PROVE OneProbe OBVIOUS
  <2>1. TypeInv /\ ProbeInv BY DEF BreakerInv
  <2>2. TypeOK
    <3>1. ASSUME NEW s \in Known
          PROVE  /\ breakers[s].state \in States
                 /\ breakers[s].current \in InitialCooldown .. MaxCooldown
                 /\ breakers[s].cooldown \in 0 .. breakers[s].current
                 /\ Len(breakers[s].failures) < FailureThreshold
      <4>1. s \in Servers /\ breakers[s] # None BY DEF Known
      <4>2. breakers[s] \in Breaker /\ WithinLimits(breakers[s]) BY <4>1, <2>1, RegistryFacts
      <4>3. breakers[s].cooldown \in Nat /\ breakers[s].current \in Nat /\ breakers[s].state \in States
        BY <4>2 DEF Breaker
      <4> QED BY <4>2, <4>3 DEF WithinLimits
    <3> QED BY <3>1, <2>1 DEF TypeOK, TypeInv
  <2>3. ASSUME NEW s \in Servers
        PROVE  Cardinality({c \in Channels : chan[c].server = s /\ chan[c].probe
                                              /\ chan[c].age < ProbeTimeout}) <= 1
    BY <2>1, AtMostOne DEF ProbeInv, Fresh
  <2> QED BY <2>2, <2>3 DEF OneProbe, OneFreshProbe
<1> QED BY <1>1, BreakersSound, PTL

\* Making room in the registry (`evict_idle_closed`) never forgets a server
\* that is failing.
THEOREM FailingKept == Spec => FailingRemembered
<1> DEFINE Failing(s) == s \in Known /\ (breakers[s].state # "Closed" \/ breakers[s].failures # <<>>)
           A == \A s \in Servers : Failing(s) => s \in Known'
<1>1. BreakerInv /\ [Next]_vars => [A]_vars
  <2> SUFFICES ASSUME BreakerInv, Next PROVE A BY DEF BreakerInv
  <2> SUFFICES ASSUME NEW s \in Servers, Failing(s) PROVE breakers'[s] # None BY DEF Known
  <2>1. TypeInv BY DEF BreakerInv
  <2>2. breakers[s] # None /\ breakers[s] \in Breaker /\ ~Evicted(breakers[s])
    BY <2>1, RegistryFacts DEF Known, Evicted
  <2>3. \A x \in Servers : WithEntry(x)[s] = breakers[s] BY <2>1, <2>2, EntryOK
  <2>4. ASSUME NEW x \in Servers, NEW c \in Channels, SearchReply(x, c) PROVE breakers'[s] # None
    <3> DEFINE b == WithEntry(x)
    <3>1. breakers' = [b EXCEPT ![x] = allow(b[x]).next] BY <2>4 DEF SearchReply
    <3>2. /\ b \in [Servers -> Breaker \cup {None}] /\ b[x] \in Breaker /\ b[s] = breakers[s]
          /\ WithinLimits(b[x])
      BY <2>1, <2>3, EntryOK, BreakerPresent
    <3> HIDE DEF b
    <3>3. allow(b[x]).next # None BY <3>2, AllowOK, BreakerPresent
    <3> QED BY <3>1, <3>2, <3>3, <2>2
  <2>5. ASSUME NEW c \in Channels, ConnectSucceeds(c) PROVE breakers'[s] # None
    <3>1. breakers' = [breakers EXCEPT ![chan[c].server] = record_success(@)] BY <2>5 DEF ConnectSucceeds
    <3> QED BY <3>1, <2>1, <2>2, NewBreakerOK, BreakerPresent DEF TypeInv, record_success
  <2>6. ASSUME NEW c \in Channels, ConnectFails(c) PROVE breakers'[s] # None
    <3> DEFINE x == chan[c].server
               b == WithEntry(x)
    <3>1. breakers' = [b EXCEPT ![x] = record_failure(b[x])] BY <2>6 DEF ConnectFails
    <3>2. x \in Servers BY <2>1, <2>6, ConnectFacts DEF ConnectFails
    <3> HIDE DEF x
    <3>3. /\ b \in [Servers -> Breaker \cup {None}] /\ b[x] \in Breaker /\ b[s] = breakers[s]
          /\ WithinLimits(b[x])
      BY <3>2, <2>1, <2>3, EntryOK, BreakerPresent
    <3> HIDE DEF b
    <3>4. record_failure(b[x]) # None BY <3>3, FailureOK, BreakerPresent
    <3> QED BY <3>1, <3>3, <3>4, <2>2
  <2>7. ASSUME NEW c \in Channels, ConnectDropped(c) PROVE breakers'[s] # None
    BY <2>2, <2>7 DEF ConnectDropped
  <2>8. ASSUME Tick PROVE breakers'[s] # None
    <3>1. breakers'[s] = Aged(breakers[s]) BY <2>2, <2>8 DEF Tick, Known, Aged
    <3> QED BY <3>1, <2>1, <2>2, RegistryFacts, AgedOK, BreakerPresent
  <2> QED BY <2>4, <2>5, <2>6, <2>7, <2>8 DEF Next
<1>2. [][A]_vars <=> FailingRemembered BY DEF FailingRemembered
<1> QED BY <1>1, <1>2, BreakersSound, PTL DEF Spec
=============================================================================
