--------------------------- MODULE CircuitBreaker ---------------------------
(***************************************************************************)
(* The CA client's per-server circuit breakers (client/circuit_breaker.rs) *)
(* with the penalty box and the search replies that consult them           *)
(* (client/search.rs).  A reply of a server that is not blocked starts a   *)
(* connect; its result, which may come late or never, is recorded.         *)
(*                                                                         *)
(* Instants are kept as what is left of them or as ages, which saturate    *)
(* where nothing looks further, so that time need not be bounded.          *)
(***************************************************************************)
EXTENDS Integers, Sequences, FiniteSets, FiniteSetsExt

CONSTANTS
    Servers, Channels,
    Hosts,          \* per channel: the servers that have it
    Window, FailureThreshold, InitialCooldown, MaxCooldown, ProbeTimeout,   \* BreakerConfig
    PenaltyDuration,
    MaxBreakers     \* MAX_BREAKERS

ASSUME BoundsAssumption ==
    /\ {Window, FailureThreshold, InitialCooldown, ProbeTimeout, PenaltyDuration, MaxBreakers} \subseteq Nat \ {0}
    /\ Hosts \in [Channels -> SUBSET Servers]
    /\ MaxCooldown \in Nat /\ MaxCooldown >= InitialCooldown /\ InitialCooldown >= ProbeTimeout

VARIABLES
    breakers,   \* per server: None, or its breaker
    penalty,    \* per server: what is left of its penalty
    chan        \* per channel: pending, or connecting to a server

vars == <<breakers, penalty, chan>>

None == [state |-> "none"]
NoProbe == -1
NewBreaker == [state |-> "Closed", failures |-> <<>>, cooldown |-> 0, current |-> InitialCooldown,
               probe |-> NoProbe]

Pending == [server |-> "none", probe |-> FALSE, age |-> 0]

Init ==
    /\ breakers = [s \in Servers |-> None]
    /\ penalty = [s \in Servers |-> 0]
    /\ chan = [c \in Channels |-> Pending]

Known == {s \in Servers : breakers[s] # None}

-----------------------------------------------------------------------------
(* The registry. *)

\* `evict_idle_closed`, on an insert at the cap.
Evicted(b) == b # None /\ b.state = "Closed" /\ b.failures = <<>> /\ b.probe = NoProbe

\* The registry with an entry for s.
WithEntry(s) ==
    LET evict == Cardinality(Known) >= MaxBreakers /\ s \notin Known
    IN  [x \in Servers |-> IF x = s THEN (IF s \in Known THEN breakers[s] ELSE NewBreaker)
                           ELSE IF evict /\ Evicted(breakers[x]) THEN None ELSE breakers[x]]

\* Mutant of is_blocking: the cooldown is not consulted.
is_blocking_Open(s) == s \in Known /\ breakers[s].state = "Open"

is_blocking(s) == s \in Known /\ breakers[s].state = "Open" /\ breakers[s].cooldown > 0

\* Mutant of allow: a second probe is not stamped.
allow_Repeats(b) ==
    CASE b.state = "Closed"   -> [yes |-> TRUE, next |-> b]
      [] b.state = "Open"     -> IF b.cooldown > 0 THEN [yes |-> FALSE, next |-> b]
                                 ELSE [yes |-> TRUE, next |-> [b EXCEPT !.state = "HalfOpen", !.probe = 0]]
      [] b.state = "HalfOpen" -> [yes |-> b.probe >= ProbeTimeout, next |-> b]

\* `allow` answers, and moves the breaker when it lets a probe through.
allow(b) ==
    CASE b.state = "Closed"   -> [yes |-> TRUE, next |-> b]
      [] b.state = "Open"     -> IF b.cooldown > 0 THEN [yes |-> FALSE, next |-> b]
                                 ELSE [yes |-> TRUE, next |-> [b EXCEPT !.state = "HalfOpen", !.probe = 0]]
      [] b.state = "HalfOpen" -> IF b.probe >= ProbeTimeout THEN [yes |-> TRUE, next |-> [b EXCEPT !.probe = 0]]
                                 ELSE [yes |-> FALSE, next |-> b]

record_success(b) == IF b = None THEN None ELSE NewBreaker

\* `record_failure`: a half-open one opens for twice as long, a closed one at
\* the threshold within the window.  Failures are kept in the order they came,
\* so those the window has left behind are the first.
record_failure(b) ==
    LET stale == Cardinality({i \in DOMAIN b.failures : b.failures[i] > Window})
        recent == Append(SubSeq(b.failures, stale + 1, Len(b.failures)), 0)
        longer == Min({2 * b.current, MaxCooldown})
    IN  CASE b.state = "HalfOpen" -> [b EXCEPT !.state = "Open", !.current = longer, !.cooldown = longer,
                                               !.failures = <<>>]
          [] b.state = "Open"     -> b
          [] b.state = "Closed"   -> IF Len(recent) >= FailureThreshold
                                     THEN [b EXCEPT !.state = "Open", !.cooldown = b.current, !.failures = <<>>]
                                     ELSE [b EXCEPT !.failures = recent]

-----------------------------------------------------------------------------
(* The search engine. *)

\* A search reply of s for channel c (`handle_search_response`): it is looked
\* at, without moving the breaker, before a pending channel may consume the
\* probe.
SearchReply(s, c) ==
    /\ s \in Hosts[c] /\ penalty[s] = 0 /\ ~is_blocking(s)
    /\ chan[c] = Pending
    /\ LET b == WithEntry(s)  answer == allow(b[s])
       IN  /\ breakers' = [b EXCEPT ![s] = answer.next]
           /\ chan' = IF answer.yes
                      THEN [chan EXCEPT ![c] = [server |-> s, probe |-> b[s].state # "Closed", age |-> 0]]
                      ELSE chan
    /\ UNCHANGED penalty

\* `ConnectResult`: the channel searches again after a failure; after a
\* success it is connected until its circuit goes, when it searches again.
ConnectSucceeds(c) ==
    /\ chan[c] # Pending
    /\ LET s == chan[c].server
       IN  /\ penalty' = [penalty EXCEPT ![s] = 0]
           /\ breakers' = [breakers EXCEPT ![s] = record_success(@)]
    /\ chan' = [chan EXCEPT ![c] = Pending]

ConnectFails(c) ==
    /\ chan[c] # Pending
    /\ LET s == chan[c].server  b == WithEntry(s)
       IN  /\ penalty' = [penalty EXCEPT ![s] = PenaltyDuration]
           /\ breakers' = [b EXCEPT ![s] = record_failure(b[s])]
    /\ chan' = [chan EXCEPT ![c] = Pending]

\* The channel is dropped, or the found server ignored: no result comes.
ConnectDropped(c) ==
    /\ chan[c] # Pending
    /\ chan' = [chan EXCEPT ![c] = Pending]
    /\ UNCHANGED <<breakers, penalty>>

Older(age, most) == Min({age + 1, most})
Left(time) == Max({time - 1, 0})

Tick ==
    /\ breakers' = [s \in Servers |->
            IF s \notin Known THEN None
            ELSE [breakers[s] EXCEPT !.cooldown = Left(@),
                                     !.probe = IF @ = NoProbe THEN NoProbe ELSE Older(@, ProbeTimeout),
                                     !.failures = [i \in DOMAIN @ |-> Older(@[i], Window + 1)]]]
    /\ penalty' = [s \in Servers |-> Left(penalty[s])]
    /\ chan' = [c \in Channels |-> IF chan[c] = Pending THEN Pending
                                   ELSE [chan[c] EXCEPT !.age = Older(@, ProbeTimeout)]]

Next ==
    \/ \E s \in Servers, c \in Channels : SearchReply(s, c)
    \/ \E c \in Channels : ConnectSucceeds(c) \/ ConnectFails(c) \/ ConnectDropped(c)
    \/ Tick

Spec == Init /\ [][Next]_vars

\* Time passes, a server that is up keeps answering searches, and a connect
\* ends or is given up.  Nothing says which way it ends.
Fairness ==
    /\ WF_vars(Tick)
    /\ \A c \in Channels : \A s \in Hosts[c] : WF_vars(SearchReply(s, c))
    /\ \A c \in Channels : WF_vars(ConnectSucceeds(c) \/ ConnectFails(c) \/ ConnectDropped(c))

FairSpec == Spec /\ Fairness

-----------------------------------------------------------------------------
States == {"Closed", "Open", "HalfOpen"}

TypeOK ==
    /\ penalty \in [Servers -> 0 .. PenaltyDuration]
    /\ \A s \in Known :
        /\ breakers[s].state \in States
        /\ breakers[s].current \in InitialCooldown .. MaxCooldown
        /\ breakers[s].cooldown \in 0 .. breakers[s].current
        /\ Len(breakers[s].failures) < FailureThreshold

\* However results are delayed, dropped or crossed, a server that is not
\* closed is probed by one connect at a time: a second starts only once the
\* first has had the probe timeout (`allow`, `record_failure`).
OneFreshProbe ==
    \A s \in Servers :
        Cardinality({c \in Channels : chan[c].server = s /\ chan[c].probe /\ chan[c].age < ProbeTimeout}) <= 1

\* However results are delayed, dropped or crossed, a failing server is probed by
\* one connect at a time, and its cooldown stays within the limits.
OneProbe == TypeOK /\ OneFreshProbe

\* Making room in the registry never forgets a server that is failing.
FailingRemembered ==
    [][\A s \in Servers :
            (s \in Known /\ (breakers[s].state # "Closed" \/ breakers[s].failures # <<>>)) => s \in Known']_vars

\* A breaker that blocks is not for ever: a connect to its server starts
\* again, though probes are dropped without a result.
ProbedAgain ==
    \A s \in Servers : (s \in Known /\ breakers[s].state # "Closed") ~> (\E c \in Channels : chan[c].server = s)
=============================================================================
