---------------------------- MODULE RuntimeProofs ----------------------------
(***************************************************************************)
(* The delayed-callback timer, for any number of sleeps, of delayed        *)
(* requests and of resets, and any deadlines: no sleep ends early, none    *)
(* leaves its entry behind, and the thread never sleeps past an entry.     *)
(*                                                                         *)
(* And a task of the future executor, for any number of workers and of     *)
(* sources that hold its waker: it is claimed in one place at a time, its  *)
(* future is there for who claims the poll, and no wake of it is lost.     *)
(*                                                                         *)
(* And a band that is stopped, for any number of workers, requesters and   *)
(* cells: a sealed band is drained, and a cell marked queued has one run.  *)
(***************************************************************************)
EXTENDS TimerSleep, FutureTask, BandStop, FiniteSetTheorems, SequenceTheorems, WellFoundedInduction, TLAPS

Owners == {<<q>> : q \in Requests} \cup (Sleeps \X (0 .. MaxResets))
Entry == [at : Nat, seq : Nat, owner : Owners]
TimerSteps == {"loop", "fire", "announce", "check", "parked", "gone"}

Types ==
    /\ now \in Nat /\ next_seq \in Nat
    /\ queue \subseteq Entry
    /\ taken = {} \/ \E e \in Entry : taken = {e}
    /\ (taken # {}) = (tpc = "fire")
    /\ tpc \in TimerSteps /\ earliest \in Nat \cup {Never}
    /\ deadline \in [Sleeps -> Nat] /\ gen \in [Sleeps -> 0 .. MaxResets]
    /\ armed \in [Sleeps -> BOOLEAN]
    /\ entry \in [Sleeps -> {{}} \cup {{n} : n \in Nat}]
    /\ fired \subseteq Sleeps \X (0 .. MaxResets) /\ waker \subseteq Sleeps \X (0 .. MaxResets)
    /\ pc \in [Callers -> Steps] /\ delay \in [Callers -> Nat]

\* The keys are used once.
Keys ==
    /\ \A e \in queue \cup taken : e.seq < next_seq
    /\ \A e, f \in queue \cup taken : e.seq = f.seq => e = f

\* An entry of the sleep's, of any of its cells.
Of(e, s) == \E g \in 0 .. MaxResets : e.owner = <<s, g>>

\* What is filed for the cell a sleep has now is not filed early, nor marked
\* early; cells to come are not marked.
Filed ==
    /\ NotEarly
    /\ \A s \in Sleeps : \A g \in 0 .. MaxResets : g > gen[s] =>
        <<s, g>> \notin fired /\ \A e \in taken : e.owner # <<s, g>>
    /\ \A e \in queue \cup taken : \A s \in Sleeps : e.owner = Cell(s) => e.at >= deadline[s]
    /\ \A e \in taken : e.at <= now
    /\ \A s \in Sleeps : /\ pc[s] = "stamp" => now + delay[s] >= deadline[s]
                         /\ pc[s] = "file" => delay[s] >= deadline[s]

\* A sleep that is not armed has no entry, and files one only then.
Owned ==
    /\ \A e \in queue : \A s \in Sleeps : Of(e, s) => armed[s] /\ e.owner = Cell(s) /\ entry[s] = {e.seq}
    /\ \A s \in Sleeps : pc[s] \in {"delay", "stamp", "file"} => ~armed[s]

\* A wake is announced while the thread looks or sleeps, and owed to it when
\* something sooner has come.
Awake == (tpc \in {"check", "parked"} => announced) /\ NoOversleep

TimerInv == Types /\ Keys /\ Filed /\ Owned /\ Awake

-----------------------------------------------------------------------------
\* Owners, and who they belong to, are told apart.
LEMMA OwnerFacts ==
    /\ \A q \in Requests : Len(<<q>>) = 1 /\ <<q>> \in Owners
    /\ \A s \in Sleeps, g \in 0 .. MaxResets : /\ Len(<<s, g>>) = 2 /\ <<s, g>> \in Owners
                                               /\ <<s, g>>[1] = s /\ <<s, g>>[2] = g
    /\ \A o \in Owners : \/ \E q \in Requests : o = <<q>>
                         \/ \E s \in Sleeps, g \in 0 .. MaxResets : o = <<s, g>>
    /\ \A q, s, g : <<q>> # <<s, g>>
    /\ Sleeps \subseteq Callers /\ Requests \subseteq Callers
    /\ \A q \in Requests : q \notin Sleeps
<1>1. \A q \in Requests : Len(<<q>>) = 1 /\ <<q>> \in Owners BY DEF Owners
<1>2. \A s \in Sleeps, g \in 0 .. MaxResets : /\ Len(<<s, g>>) = 2 /\ <<s, g>> \in Owners
                                              /\ <<s, g>>[1] = s /\ <<s, g>>[2] = g
  BY DEF Owners
<1>3. \A o \in Owners : \/ \E q \in Requests : o = <<q>>
                        \/ \E s \in Sleeps, g \in 0 .. MaxResets : o = <<s, g>>
  BY DEF Owners
<1>4. \A q, s, g : <<q>> # <<s, g>> OBVIOUS
<1>5. Sleeps \subseteq Callers /\ Requests \subseteq Callers BY DEF Callers
<1>6. \A q \in Requests : q \notin Sleeps BY BoundsAssumption
<1> QED BY <1>1, <1>2, <1>3, <1>4, <1>5, <1>6

\* A set of naturals has a least member.
LEMMA Least ==
    ASSUME NEW S, S \subseteq Nat, S # {}
    PROVE  \E x \in S : \A y \in S : x <= y
<1>1. PICK x \in S : \A y \in S : <<y, x>> \notin OpToRel(<, Nat)
  BY WFMin, NatLessThanWellFounded, Zenon
<1>2. \A y \in S : ~(y < x) BY <1>1 DEF OpToRel
<1>3. \A y \in S : x <= y BY <1>2
<1> QED BY <1>3

\* The queue has a first entry, and none is sooner.
LEMMA FirstFacts ==
    ASSUME Types, Keys, queue # {}
    PROVE  /\ First \in queue /\ First.at \in Nat
           /\ \A e \in queue : First.at <= e.at
<1>0. \A e \in queue : e.at \in Nat /\ e.seq \in Nat BY DEF Types, Entry
<1> DEFINE Ats == {e.at : e \in queue}
<1>1. Ats \subseteq Nat /\ Ats # {} BY <1>0
<1>2. PICK a \in Ats : \A b \in Ats : a <= b BY <1>1, Least
<1> DEFINE Seqs == {e.seq : e \in {f \in queue : f.at = a}}
<1>3. Seqs \subseteq Nat BY <1>0
<1>4. PICK x \in queue : x.at = a OBVIOUS
<1>5. Seqs # {} BY <1>4
<1>6. PICK n \in Seqs : \A m \in Seqs : n <= m BY <1>3, <1>5, Least
<1>7. PICK e \in queue : e.at = a /\ e.seq = n OBVIOUS
<1>8. ASSUME NEW f \in queue \ {e} PROVE Before(e, f)
  <2>1. e.at <= f.at BY <1>2, <1>7
  <2>2. f.seq # e.seq BY <1>7 DEF Keys
  <2>3. CASE f.at = e.at
    <3>1. e.seq <= f.seq BY <2>3, <1>6, <1>7
    <3> QED BY <2>2, <2>3, <3>1, <1>0 DEF Before
  <2>4. CASE f.at # e.at BY <2>1, <2>4, <1>0 DEF Before
  <2> QED BY <2>3, <2>4
<1>9. First \in queue /\ \A f \in queue \ {First} : Before(First, f)
  <2>1. \E x2 \in queue : \A f \in queue \ {x2} : Before(x2, f) BY <1>7, <1>8
  <2> QED BY <2>1 DEF First
<1> HIDE DEF Ats, Seqs
<1>10. \A f \in queue : First.at <= f.at BY <1>0, <1>9 DEF Before
<1> QED BY <1>0, <1>9, <1>10

-----------------------------------------------------------------------------
\* Time passes.
LEMMA TickKeeps ==
    ASSUME TimerInv, Tick
    PROVE  TimerInv'
<1>1. Types /\ Keys /\ Filed /\ Owned /\ Awake BY DEF TimerInv
<1>2. /\ now' = now + 1 /\ now \in Nat
      /\ UNCHANGED <<queue, next_seq, shutdown, announced, token, tpc, earliest, taken, deadline, gen, armed, entry,
                     fired, waker, pc, delay>>
  BY <1>1 DEF Tick, queueVars, eventVars, timerVars, sleepVars, cellVars, callVars, Types
<1>3. Types' BY <1>1, <1>2 DEF Types
<1>4. Keys' BY <1>1, <1>2 DEF Keys
<1>5. Filed'
  <2>1. /\ \A s \in Sleeps : deadline[s] \in Nat /\ delay[s] \in Nat
        /\ \A e \in taken : e.at \in Nat
    BY <1>1, OwnerFacts DEF Types, Entry
  <2> QED BY <1>1, <1>2, <2>1 DEF Filed, NotEarly, Cell
<1>6. Owned' BY <1>1, <1>2 DEF Owned, Of, Cell
<1>7. Awake' BY <1>1, <1>2 DEF Awake, NoOversleep
<1> QED BY <1>3, <1>4, <1>5, <1>6, <1>7 DEF TimerInv

\* The thread takes the first entry, if it is due, or goes to sleep to it.
LEMMA SampleKeeps ==
    ASSUME TimerInv, Sample
    PROVE  TimerInv'
<1>1. Types /\ Keys /\ Filed /\ Owned /\ Awake BY DEF TimerInv
<1>2. /\ tpc = "loop" /\ taken = {}
      /\ UNCHANGED <<now, next_seq, shutdown, announced, token, deadline, gen, armed, entry, fired, waker, pc, delay>>
  BY <1>1 DEF Sample, eventVars, sleepVars, cellVars, callVars, Types
<1>3. CASE queue # {} /\ First.at <= now /\ taken' = {First} /\ queue' = queue \ {First} /\ tpc' = "fire"
           /\ earliest' = earliest
  <2>1. First \in queue BY <1>1, <1>3, FirstFacts
  <2>2. First \in Entry BY <1>1, <2>1 DEF Types
  <2> DEFINE x == First
  <2>3. x \in queue /\ x \in Entry /\ x.at <= now /\ taken' = {x} /\ queue' = queue \ {x} BY <1>3, <2>1, <2>2
  <2> HIDE DEF x
  <2>4. Types' BY <1>1, <1>2, <1>3, <2>3 DEF Types, TimerSteps
  <2>5. queue' \cup taken' = queue \cup taken BY <1>2, <2>3
  <2>6. Keys' BY <1>1, <1>2, <2>5 DEF Keys
  <2>7. \A s \in Sleeps : \A g \in 0 .. MaxResets : x.owner = <<s, g>> => g = gen[s]
    BY <1>1, <2>3 DEF Owned, Of, Cell
  <2>8. Filed'
    <3>1. \A s \in Sleeps : \A g \in 0 .. MaxResets : g > gen[s] => x.owner # <<s, g>>
      <4>1. \A s \in Sleeps : gen[s] \in Nat BY <1>1, BoundsAssumption DEF Types
      <4> QED BY <4>1, <2>7
    <3> QED BY <1>1, <1>2, <2>3, <2>5, <3>1 DEF Filed, NotEarly, Cell
  <2>9. Owned' BY <1>1, <1>2, <2>3 DEF Owned, Of, Cell
  <2>10. Awake' BY <1>3 DEF Awake, NoOversleep
  <2> QED BY <2>4, <2>6, <2>8, <2>9, <2>10 DEF TimerInv
<1>4. CASE UNCHANGED <<queue, taken>> /\ tpc' \in {"gone", "announce"} /\ earliest' \in {earliest, FirstDeadline}
  <2>1. FirstDeadline \in Nat \cup {Never} BY <1>1, FirstFacts DEF FirstDeadline
  <2>2. Types' BY <1>1, <1>2, <1>4, <2>1 DEF Types, TimerSteps
  <2>3. Keys' BY <1>1, <1>2, <1>4 DEF Keys
  <2>4. Filed' BY <1>1, <1>2, <1>4 DEF Filed, NotEarly, Cell
  <2>5. Owned' BY <1>1, <1>2, <1>4 DEF Owned, Of, Cell
  <2>6. Awake' BY <1>4 DEF Awake, NoOversleep
  <2> QED BY <2>2, <2>3, <2>4, <2>5, <2>6 DEF TimerInv
<1> QED BY <1>3, <1>4 DEF Sample

\* The entry runs: it was due, so the cell it marks is.
LEMMA FireKeeps ==
    ASSUME TimerInv, Fire
    PROVE  TimerInv'
<1>1. Types /\ Keys /\ Filed /\ Owned /\ Awake BY DEF TimerInv
<1> DEFINE marked == {e.owner : e \in {e \in taken : Len(e.owner) = 2}}
<1>2. /\ tpc = "fire" /\ tpc' = "loop" /\ taken' = {}
      /\ UNCHANGED <<now, queue, next_seq, shutdown, announced, token, earliest, deadline, gen, armed, entry, delay>>
      /\ fired' = fired \cup (marked \cap {Cell(s) : s \in Sleeps}) /\ waker' = waker \ marked
      /\ pc' = [c \in Callers |-> IF \E e \in taken : e.owner = <<c>> THEN "done" ELSE pc[c]]
  BY DEF Fire, queueVars, eventVars, sleepVars
<1>3. \A s \in Sleeps : Cell(s) \in Sleeps \X (0 .. MaxResets) BY <1>1 DEF Types, Cell
<1>4. Types'
  <2>1. fired' \subseteq Sleeps \X (0 .. MaxResets) BY <1>1, <1>2, <1>3 DEF Types
  <2>2. waker' \subseteq Sleeps \X (0 .. MaxResets) BY <1>1, <1>2 DEF Types
  <2>3. pc' \in [Callers -> Steps] BY <1>1, <1>2 DEF Types, Steps
  <2> QED BY <1>1, <1>2, <2>1, <2>2, <2>3 DEF Types, TimerSteps
<1>5. Keys' BY <1>1, <1>2 DEF Keys
<1>6. \A s \in Sleeps : Cell(s) \in marked => now >= deadline[s]
  <2> SUFFICES ASSUME NEW s \in Sleeps, Cell(s) \in marked PROVE now >= deadline[s] OBVIOUS
  <2>1. PICK e \in taken : e.owner = Cell(s) OBVIOUS
  <2>2. e.at >= deadline[s] /\ e.at <= now BY <1>1, <2>1 DEF Filed
  <2>3. e.at \in Nat /\ deadline[s] \in Nat /\ now \in Nat BY <1>1 DEF Types, Entry
  <2> QED BY <2>2, <2>3
<1>7. \A s \in Sleeps : Cell(s) \in fired' => Cell(s) \in fired \/ Cell(s) \in marked BY <1>2
<1>8. \A s \in Sleeps : \A g \in 0 .. MaxResets : g > gen[s] => <<s, g>> \notin fired'
  <2> SUFFICES ASSUME NEW s \in Sleeps, NEW g \in 0 .. MaxResets, g > gen[s], <<s, g>> \in marked PROVE FALSE
    BY <1>1, <1>2 DEF Filed
  <2> QED BY <1>1 DEF Filed
<1>9. \A c \in Callers : pc'[c] \in {pc[c], "done"} BY <1>2
<1> HIDE DEF marked
<1>10. NotEarly' BY <1>1, <1>2, <1>6, <1>7 DEF Filed, NotEarly, Cell
<1>11. Filed' BY <1>1, <1>2, <1>8, <1>9, <1>10, OwnerFacts DEF Filed, Cell
<1>12. Owned' BY <1>1, <1>2, <1>9, OwnerFacts DEF Owned, Of, Cell
<1>13. Awake' BY <1>2 DEF Awake, NoOversleep
<1> QED BY <1>4, <1>5, <1>11, <1>12, <1>13 DEF TimerInv

\* The thread announces that it will sleep, looks again, sleeps or is woken: it
\* sleeps only to the first entry there is.
LEMMA WaitKeeps ==
    ASSUME TimerInv, Announce \/ Check \/ Unparked \/ TimedOut
    PROVE  TimerInv'
<1>1. Types /\ Keys /\ Filed /\ Owned /\ Awake BY DEF TimerInv
<1>2. /\ UNCHANGED <<now, queue, next_seq, shutdown, taken, deadline, gen, armed, entry, fired, waker, pc, delay>>
      /\ tpc # "fire" /\ tpc' \in {"check", "loop", "parked", "announce"} /\ earliest' \in {earliest, Never}
  BY DEF Announce, Check, Unparked, TimedOut, queueVars, sleepVars, cellVars, callVars
<1>3. Types' BY <1>1, <1>2 DEF Types, TimerSteps
<1>4. Keys' BY <1>1, <1>2 DEF Keys
<1>5. Filed' BY <1>1, <1>2 DEF Filed, NotEarly, Cell
<1>6. Owned' BY <1>1, <1>2 DEF Owned, Of, Cell
<1>7. Awake'
  <2>1. CASE Announce \/ Unparked \/ TimedOut BY <2>1 DEF Announce, Unparked, TimedOut, Awake, NoOversleep
  <2>2. CASE Check /\ tpc' # "parked" BY <2>2 DEF Check, Awake, NoOversleep
  <2>3. CASE Check /\ tpc' = "parked"
    <3>1. ~Changed /\ announced' = TRUE /\ earliest' = earliest BY <2>3 DEF Check
    <3>2. FirstDeadline = earliest BY <3>1 DEF Changed
    <3>3. \A e \in queue : earliest # Never /\ earliest <= e.at
      BY <1>1, <3>2, FirstFacts DEF FirstDeadline, Never
    <3> QED BY <1>2, <3>1, <3>3 DEF Awake, NoOversleep
  <2> QED BY <2>1, <2>2, <2>3
<1> QED BY <1>3, <1>4, <1>5, <1>6, <1>7 DEF TimerInv

\* The timer is dropped.
LEMMA ShutDownKeeps ==
    ASSUME TimerInv, ShutDown
    PROVE  TimerInv'
<1>1. Types /\ Keys /\ Filed /\ Owned /\ Awake BY DEF TimerInv
<1>2. /\ UNCHANGED <<now, queue, next_seq, announced, tpc, earliest, taken, deadline, gen, armed, entry, fired,
                     waker, pc, delay>>
      /\ token => token'
  BY DEF ShutDown, signal, timerVars, sleepVars, cellVars, callVars
<1>3. Types' BY <1>1, <1>2 DEF Types
<1>4. Keys' BY <1>1, <1>2 DEF Keys
<1>5. Filed' BY <1>1, <1>2 DEF Filed, NotEarly, Cell
<1>6. Owned' BY <1>1, <1>2 DEF Owned, Of, Cell
<1>7. Awake' BY <1>1, <1>2 DEF Awake, NoOversleep
<1> QED BY <1>3, <1>4, <1>5, <1>6, <1>7 DEF TimerInv

-----------------------------------------------------------------------------
\* A caller goes on without the queue, the thread or the cells.
LEMMA CallerGoesOn ==
    ASSUME TimerInv, NEW c \in Callers, NEW to \in Steps \ {"signal"}, NEW d \in Nat,
           pc' = [pc EXCEPT ![c] = to], delay' = [delay EXCEPT ![c] = d], pc[c] # "signal",
           UNCHANGED <<now, queue, next_seq, shutdown, announced, token, tpc, earliest, taken, deadline, gen, armed,
                       entry, fired>>,
           waker' \subseteq Sleeps \X (0 .. MaxResets),
           c \in Sleeps => /\ to = "stamp" => now + d >= deadline[c]
                           /\ to = "file" => d >= deadline[c]
                           /\ to \in {"delay", "stamp", "file"} => ~armed[c]
    PROVE  TimerInv'
<1>1. Types /\ Keys /\ Filed /\ Owned /\ Awake BY DEF TimerInv
<1>2. \A x \in Callers : pc'[x] = (IF x = c THEN to ELSE pc[x]) /\ delay'[x] = (IF x = c THEN d ELSE delay[x])
  BY <1>1 DEF Types
<1>3. Types' BY <1>1 DEF Types
<1>4. Keys' BY <1>1 DEF Keys
<1>5. Filed'
  <2>1. \A s \in Sleeps : /\ pc'[s] = "stamp" => now + delay'[s] >= deadline[s]
                          /\ pc'[s] = "file" => delay'[s] >= deadline[s]
    BY <1>1, <1>2, OwnerFacts DEF Filed
  <2> QED BY <1>1, <2>1 DEF Filed, NotEarly, Cell
<1>6. Owned'
  <2>1. \A s \in Sleeps : pc'[s] \in {"delay", "stamp", "file"} => ~armed[s] BY <1>1, <1>2, OwnerFacts DEF Owned
  <2> QED BY <1>1, <2>1 DEF Owned, Of, Cell
<1>7. Awake' BY <1>1, <1>2 DEF Awake, NoOversleep
<1> QED BY <1>3, <1>4, <1>5, <1>6, <1>7 DEF TimerInv

\* A deadline is worked out from what is left of it, and stamped later: it is
\* no earlier than the sleep's.
LEMMA StampKeeps ==
    ASSUME TimerInv,
           \/ \E c \in Callers : Stamp(c)
           \/ \E q \in Requests : RequestDelayed(q)
           \/ \E s \in Sleeps : Delay(s) \/ ClearWaker(s)
    PROVE  TimerInv'
<1>1. Types /\ Filed /\ Owned BY DEF TimerInv
<1>2. /\ now \in Nat /\ delay \in [Callers -> Nat] /\ pc \in [Callers -> Steps]
      /\ waker \subseteq Sleeps \X (0 .. MaxResets) /\ \A s \in Sleeps : deadline[s] \in Nat
      /\ Horizon \in Nat
  BY <1>1, BoundsAssumption DEF Types
<1>3. \A c \in Callers : delay[c] \in Nat BY <1>2
<1>4. ASSUME NEW c \in Callers, Stamp(c) PROVE TimerInv'
  <2> DEFINE d == now + delay[c]
  <2>1. /\ pc[c] = "stamp" /\ pc' = [pc EXCEPT ![c] = "file"] /\ delay' = [delay EXCEPT ![c] = d]
        /\ UNCHANGED <<now, queue, next_seq, shutdown, announced, token, tpc, earliest, taken, deadline, gen, armed,
                       entry, fired, waker>>
    BY <1>4 DEF Stamp, queueVars, eventVars, timerVars, sleepVars, cellVars
  <2>2. d \in Nat BY <1>2, <1>3
  <2>3. c \in Sleeps => d >= deadline[c] /\ ~armed[c] BY <2>1, <1>1 DEF Filed, Owned
  <2> HIDE DEF d
  <2>4. "file" \in Steps \ {"signal"} BY DEF Steps
  <2> QED BY <2>1, <2>2, <2>3, <2>4, <1>2, CallerGoesOn
<1>5. ASSUME NEW q \in Requests, RequestDelayed(q) PROVE TimerInv'
  <2>1. PICK d \in 0 .. Horizon : delay' = [delay EXCEPT ![q] = d] BY <1>5 DEF RequestDelayed
  <2>2. /\ pc[q] = "new" /\ pc' = [pc EXCEPT ![q] = "stamp"]
        /\ UNCHANGED <<now, queue, next_seq, shutdown, announced, token, tpc, earliest, taken, deadline, gen, armed,
                       entry, fired, waker>>
    BY <1>5 DEF RequestDelayed, queueVars, eventVars, timerVars, sleepVars, cellVars
  <2>3. d \in Nat /\ q \in Callers /\ q \notin Sleeps BY <1>2, OwnerFacts
  <2>4. "stamp" \in Steps \ {"signal"} BY DEF Steps
  <2> QED BY <2>1, <2>2, <2>3, <2>4, <1>2, CallerGoesOn
<1>6. ASSUME NEW s \in Sleeps, Delay(s) PROVE TimerInv'
  <2> DEFINE d == IF deadline[s] > now THEN deadline[s] - now ELSE 0
  <2>1. /\ pc[s] = "delay" /\ pc' = [pc EXCEPT ![s] = "stamp"] /\ delay' = [delay EXCEPT ![s] = d]
        /\ UNCHANGED <<now, queue, next_seq, shutdown, announced, token, tpc, earliest, taken, deadline, gen, armed,
                       entry, fired, waker>>
    BY <1>6 DEF Delay, queueVars, eventVars, timerVars, sleepVars, cellVars
  <2>2. d \in Nat /\ now + d >= deadline[s] BY <1>2
  <2> HIDE DEF d
  <2>3. ~armed[s] /\ s \in Callers BY <2>1, <1>1, OwnerFacts DEF Owned
  <2>4. "stamp" \in Steps \ {"signal"} BY DEF Steps
  <2> QED BY <2>1, <2>2, <2>3, <2>4, <1>2, CallerGoesOn
<1>7. ASSUME NEW s \in Sleeps, ClearWaker(s) PROVE TimerInv'
  <2>1. s \in Callers BY OwnerFacts
  <2>2. /\ pc[s] = "dropping" /\ pc' = [pc EXCEPT ![s] = "dropped"] /\ delay' = [delay EXCEPT ![s] = delay[s]]
        /\ UNCHANGED <<now, queue, next_seq, shutdown, announced, token, tpc, earliest, taken, deadline, gen, armed,
                       entry, fired>>
        /\ waker' \subseteq waker
    BY <1>2, <1>7, <2>1 DEF ClearWaker, queueVars, eventVars, timerVars, sleepVars
  <2>3. "dropped" \in Steps \ {"signal"} BY DEF Steps
  <2> QED BY <2>1, <2>2, <2>3, <1>2, <1>3, CallerGoesOn
<1> QED BY <1>4, <1>5, <1>6, <1>7

\* The signal finds the announced thread, and leaves an unpark.
LEMMA SignalKeeps ==
    ASSUME TimerInv, NEW c \in Callers, Signal(c)
    PROVE  TimerInv'
<1>1. Types /\ Keys /\ Filed /\ Owned /\ Awake BY DEF TimerInv
<1>2. /\ UNCHANGED <<now, queue, next_seq, shutdown, announced, tpc, earliest, taken, deadline, gen, armed, entry,
                     fired, waker, delay>>
      /\ pc[c] = "signal" /\ pc' = [pc EXCEPT ![c] = "wait"] /\ token' = (token \/ announced)
  BY DEF Signal, signal, queueVars, timerVars, sleepVars, cellVars
<1>3. \A x \in Callers : pc'[x] = IF x = c THEN "wait" ELSE pc[x] BY <1>1, <1>2 DEF Types
<1>4. Types' BY <1>1, <1>2 DEF Types, Steps
<1>5. Keys' BY <1>1, <1>2 DEF Keys
<1>6. Filed' BY <1>1, <1>2, <1>3, OwnerFacts DEF Filed, NotEarly, Cell
<1>7. Owned' BY <1>1, <1>2, <1>3, OwnerFacts DEF Owned, Of, Cell
<1>8. Awake' BY <1>1, <1>2 DEF Awake, NoOversleep
<1> QED BY <1>4, <1>5, <1>6, <1>7, <1>8 DEF TimerInv

\* An entry is filed under the lock, by a sleep that has none or a request.
LEMMA FileKeeps ==
    ASSUME TimerInv, NEW c \in Callers, NEW owner \in Owners, inner_schedule(c, owner),
           UNCHANGED <<now, shutdown, announced, token, tpc, earliest, taken, deadline, gen, fired, waker>>,
           \/ /\ c \in Sleeps /\ owner = Cell(c)
              /\ entry' = [entry EXCEPT ![c] = IF shutdown THEN {} ELSE {next_seq}]
              /\ armed' = [armed EXCEPT ![c] = TRUE]
           \/ c \in Requests /\ owner = <<c>> /\ UNCHANGED <<entry, armed>>
    PROVE  TimerInv'
<1>1. Types /\ Keys /\ Filed /\ Owned /\ Awake BY DEF TimerInv
<1>2. pc[c] = "file" /\ delay' = [delay EXCEPT ![c] = 0] BY DEF inner_schedule
<1>3. next_seq \in Nat /\ delay[c] \in Nat /\ pc \in [Callers -> Steps] BY <1>1 DEF Types
<1> DEFINE x == [at |-> delay[c], seq |-> next_seq, owner |-> owner]
<1>4. x \in Entry /\ x.at = delay[c] /\ x.seq = next_seq /\ x.owner = owner BY <1>3 DEF Entry
<1>5. \/ shutdown /\ pc' = [pc EXCEPT ![c] = "wait"] /\ UNCHANGED <<queue, next_seq>>
      \/ ~shutdown /\ pc' = [pc EXCEPT ![c] = "signal"] /\ queue' = queue \cup {x} /\ next_seq' = next_seq + 1
  BY DEF inner_schedule
<1> HIDE DEF x
<1>6. \A y \in Callers : /\ y # c => pc'[y] = pc[y] /\ delay'[y] = delay[y]
                         /\ y = c => pc'[y] = IF shutdown THEN "wait" ELSE "signal"
  BY <1>1, <1>2, <1>5 DEF Types
<1>7. \A s \in Sleeps : /\ s # c => entry'[s] = entry[s] /\ armed'[s] = armed[s]
                        /\ s = c => armed'[s] /\ owner = Cell(s) /\ entry'[s] = IF shutdown THEN {} ELSE {next_seq}
  <2>1. entry \in [Sleeps -> {{}} \cup {{n} : n \in Nat}] /\ armed \in [Sleeps -> BOOLEAN] BY <1>1 DEF Types
  <2>2. CASE c \in Requests
    <3>1. c \notin Sleeps BY <2>2, OwnerFacts
    <3>2. UNCHANGED <<entry, armed>> BY <3>1
    <3> QED BY <3>1, <3>2
  <2>3. CASE c \notin Requests
    <3>1. /\ c \in Sleeps /\ owner = Cell(c) /\ armed' = [armed EXCEPT ![c] = TRUE]
          /\ entry' = [entry EXCEPT ![c] = IF shutdown THEN {} ELSE {next_seq}]
      BY <2>3
    <3>2. \A s \in Sleeps : armed'[s] = IF s = c THEN TRUE ELSE armed[s] BY <2>1, <3>1
    <3>3. \A s \in Sleeps : s # c => entry'[s] = entry[s] BY <2>1, <3>1
    <3>4. entry'[c] = IF shutdown THEN {} ELSE {next_seq} BY <2>1, <3>1
    <3> QED BY <3>1, <3>2, <3>3, <3>4
  <2> QED BY <2>2, <2>3
<1>8. Types'
  <2>1. queue' \subseteq Entry /\ next_seq' \in Nat BY <1>1, <1>3, <1>4, <1>5 DEF Types
  <2>2. pc' \in [Callers -> Steps] /\ delay' \in [Callers -> Nat] BY <1>1, <1>2, <1>5 DEF Types, Steps
  <2>3. armed' \in [Sleeps -> BOOLEAN] BY <1>1 DEF Types
  <2>4. entry' \in [Sleeps -> {{}} \cup {{n} : n \in Nat}] BY <1>1, <1>3 DEF Types
  <2> QED BY <1>1, <2>1, <2>2, <2>3, <2>4 DEF Types
<1>9. \A e \in queue' : e \in queue \/ (~shutdown /\ e = x) BY <1>5
<1>10. Keys'
  <2>1. \A e \in queue \cup taken : e.seq \in Nat /\ e.seq < next_seq BY <1>1 DEF Keys, Types, Entry
  <2> QED BY <1>1, <1>3, <1>4, <1>5, <2>1 DEF Keys
<1>11. Filed'
  <2>1. \A s \in Sleeps : owner = Cell(s) => delay[c] >= deadline[s]
    <3> SUFFICES ASSUME NEW s \in Sleeps, owner = Cell(s) PROVE delay[c] >= deadline[s] OBVIOUS
    <3>1. c = s
      <4>1. c \in Sleeps BY OwnerFacts DEF Cell
      <4>2. owner = Cell(c) BY <4>1, OwnerFacts
      <4> QED BY <4>2 DEF Cell
    <3> QED BY <1>1, <1>2, <3>1 DEF Filed
  <2>2. \A e \in queue' \cup taken : \A s \in Sleeps : e.owner = Cell(s) => e.at >= deadline[s]
    BY <1>1, <1>4, <1>9, <2>1 DEF Filed
  <2>3. \A s \in Sleeps : /\ pc'[s] = "stamp" => now + delay'[s] >= deadline[s]
                          /\ pc'[s] = "file" => delay'[s] >= deadline[s]
    BY <1>1, <1>6, OwnerFacts DEF Filed
  <2> QED BY <1>1, <2>2, <2>3 DEF Filed, NotEarly, Cell
<1>12. Owned'
  <2>1. ASSUME NEW e \in queue', NEW s \in Sleeps, Of(e, s)
        PROVE  armed'[s] /\ e.owner = Cell(s) /\ entry'[s] = {e.seq}
    <3>1. CASE e \in queue
      <4>1. armed[s] /\ e.owner = Cell(s) /\ entry[s] = {e.seq} BY <1>1, <2>1, <3>1 DEF Owned
      <4>2. s # c BY <1>1, <1>2, <4>1 DEF Owned
      <4> QED BY <4>1, <4>2, <1>7
    <3>2. CASE e = x /\ ~shutdown
      <4>1. PICK g \in 0 .. MaxResets : owner = <<s, g>> BY <2>1, <3>2, <1>4 DEF Of
      <4>2. c \in Sleeps /\ owner = Cell(c) BY <4>1, OwnerFacts
      <4>3. s = c BY <4>1, <4>2 DEF Cell
      <4> QED BY <3>2, <4>2, <4>3, <1>4, <1>7
    <3> QED BY <3>1, <3>2, <1>9
  <2>2. \A s \in Sleeps : pc'[s] \in {"delay", "stamp", "file"} => ~armed'[s]
    BY <1>1, <1>6, <1>7, OwnerFacts DEF Owned
  <2> QED BY <2>1, <2>2 DEF Owned, Of, Cell
<1>13. Awake'
  <2>1. CASE shutdown
    <3>1. queue' = queue /\ \A y \in Callers : pc'[y] = "signal" <=> pc[y] = "signal" BY <2>1, <1>2, <1>5, <1>6
    <3> QED BY <1>1, <3>1 DEF Awake, NoOversleep
  <2>2. CASE ~shutdown BY <1>1, <1>6, <2>2 DEF Awake, NoOversleep
  <2> QED BY <2>1, <2>2
<1> QED BY <1>8, <1>10, <1>11, <1>12, <1>13 DEF TimerInv

\* A sleep or a request files.
LEMMA ScheduleKeeps ==
    ASSUME TimerInv, (\E s \in Sleeps : Arm(s)) \/ (\E q \in Requests : FileRequest(q))
    PROVE  TimerInv'
<1>1. Types BY DEF TimerInv
<1>2. ASSUME NEW s \in Sleeps, Arm(s) PROVE TimerInv'
  <2>1. Cell(s) \in Owners /\ s \in Callers BY <1>1, OwnerFacts DEF Types, Cell
  <2>2. /\ inner_schedule(s, Cell(s))
        /\ UNCHANGED <<now, shutdown, announced, token, tpc, earliest, taken, deadline, gen, fired, waker>>
        /\ entry' = [entry EXCEPT ![s] = IF shutdown THEN {} ELSE {next_seq}]
        /\ armed' = [armed EXCEPT ![s] = TRUE]
    BY <1>2 DEF Arm, eventVars, timerVars, cellVars
  <2> QED BY <2>1, <2>2, FileKeeps
<1>3. ASSUME NEW q \in Requests, FileRequest(q) PROVE TimerInv'
  <2>1. <<q>> \in Owners /\ q \in Callers BY OwnerFacts
  <2>2. /\ inner_schedule(q, <<q>>)
        /\ UNCHANGED <<now, shutdown, announced, token, tpc, earliest, taken, deadline, gen, fired, waker, entry, armed>>
    BY <1>3 DEF FileRequest, eventVars, timerVars, sleepVars, cellVars
  <2> QED BY <2>1, <2>2, FileKeeps
<1> QED BY <1>2, <1>3

\* A poll marks the cell when the deadline has passed, or leaves its waker.
LEMMA PollKeeps ==
    ASSUME TimerInv, NEW s \in Sleeps, Poll(s)
    PROVE  TimerInv'
<1>1. Types /\ Keys /\ Filed /\ Owned /\ Awake BY DEF TimerInv
<1>2. /\ UNCHANGED <<now, queue, next_seq, shutdown, announced, token, tpc, earliest, taken, deadline, gen, entry, delay>>
      /\ pc[s] \in {"new", "wait"}
  BY DEF Poll, queueVars, eventVars, timerVars
<1>3. Cell(s) \in Sleeps \X (0 .. MaxResets) BY <1>1 DEF Types, Cell
<1>4. /\ fired' = fired \/ (fired' = fired \cup {Cell(s)} /\ now >= deadline[s])
      /\ waker' \in {waker, waker \cup {Cell(s)}}
      /\ armed' = armed \/ armed' = [armed EXCEPT ![s] = TRUE]
  BY DEF Poll
<1>5. PICK to \in {"done", "wait", "delay"} : pc' = [pc EXCEPT ![s] = to] /\ (to = "delay" => ~armed'[s])
  <2>1. CASE Cell(s) \in fired BY <2>1 DEF Poll
  <2>2. CASE Cell(s) \notin fired /\ now >= deadline[s] BY <2>2, <1>1 DEF Poll, Types
  <2>3. CASE Cell(s) \notin fired /\ ~(now >= deadline[s]) BY <2>3 DEF Poll
  <2> QED BY <2>1, <2>2, <2>3
<1>6. s \in Callers BY OwnerFacts
<1>7. \A c \in Callers : pc'[c] = IF c = s THEN to ELSE pc[c] BY <1>1, <1>5 DEF Types
<1>8. Types'
  <2>1. pc' \in [Callers -> Steps] BY <1>1, <1>5 DEF Types, Steps
  <2>2. armed' \in [Sleeps -> BOOLEAN] BY <1>1, <1>4 DEF Types
  <2>3. fired' \subseteq Sleeps \X (0 .. MaxResets) /\ waker' \subseteq Sleeps \X (0 .. MaxResets)
    BY <1>1, <1>3, <1>4 DEF Types
  <2> QED BY <1>1, <1>2, <2>1, <2>2, <2>3 DEF Types
<1>9. Keys' BY <1>1, <1>2 DEF Keys
<1>10. Filed'
  <2>1. NotEarly'
    <3>1. \A r \in Sleeps : Cell(r) = Cell(s) => r = s BY DEF Cell
    <3>2. \A r \in Sleeps : Cell(r) \in fired' => now >= deadline[r] BY <1>1, <1>4, <3>1 DEF Filed, NotEarly
    <3> QED BY <1>2, <3>2 DEF NotEarly, Cell
  <2>2. \A r \in Sleeps : \A g \in 0 .. MaxResets : g > gen[r] => <<r, g>> \notin fired'
    <3>1. gen[s] \in Nat BY <1>1, BoundsAssumption DEF Types
    <3> QED BY <1>1, <1>4, <3>1 DEF Filed, Cell
  <2>3. \A r \in Sleeps : /\ pc'[r] = "stamp" => now + delay[r] >= deadline[r]
                          /\ pc'[r] = "file" => delay[r] >= deadline[r]
    BY <1>1, <1>7, OwnerFacts DEF Filed
  <2> QED BY <1>1, <1>2, <2>1, <2>2, <2>3 DEF Filed, Cell
<1>11. Owned'
  <2>1. \A r \in Sleeps : armed[r] => armed'[r] BY <1>1, <1>4 DEF Types
  <2>2. \A r \in Sleeps : r # s => armed'[r] = armed[r] BY <1>1, <1>4 DEF Types
  <2>3. \A r \in Sleeps : pc'[r] \in {"delay", "stamp", "file"} => ~armed'[r]
    BY <1>1, <1>5, <1>7, <2>2, OwnerFacts DEF Owned
  <2> QED BY <1>1, <1>2, <2>1, <2>3 DEF Owned, Of, Cell
<1>12. Awake' BY <1>1, <1>2, <1>7 DEF Awake, NoOversleep
<1> QED BY <1>8, <1>9, <1>10, <1>11, <1>12 DEF TimerInv

\* A sleep is reset to a cell of its own, or dropped; what it had filed is
\* taken out by its key.
LEMMA CancelKeeps ==
    ASSUME TimerInv, NEW s \in Sleeps, reset(s) \/ Drop(s)
    PROVE  TimerInv'
<1>1. Types /\ Keys /\ Filed /\ Owned /\ Awake BY DEF TimerInv
<1>2. /\ UNCHANGED <<now, next_seq, shutdown, announced, token, tpc, earliest, taken, delay>>
      /\ pc[s] \in {"new", "wait", "done"} /\ cancel(entry[s]) /\ entry' = [entry EXCEPT ![s] = {}]
      /\ fired' \subseteq fired /\ waker' \subseteq waker
  BY DEF reset, Drop, Between, eventVars, timerVars, cellVars
<1>3. s \in Callers BY OwnerFacts
<1>4. queue' = {e \in queue : e.seq \notin entry[s]} BY <1>2 DEF cancel
<1>5. \A e \in queue' : e \in queue /\ ~Of(e, s)
  <2>1. \A e \in queue : Of(e, s) => e.seq \in entry[s] BY <1>1 DEF Owned
  <2> QED BY <1>4, <2>1
<1>6. PICK to \in {"new", "dropping"} : pc' = [pc EXCEPT ![s] = to] BY DEF reset, Drop
<1>7. \A c \in Callers : pc'[c] = IF c = s THEN to ELSE pc[c] BY <1>1, <1>6 DEF Types
<1>8. gen[s] \in 0 .. MaxResets /\ deadline[s] \in Nat /\ MaxResets \in Nat /\ Horizon \in Nat
  BY <1>1, BoundsAssumption DEF Types
<1>9. \A r \in Sleeps : r # s => /\ gen'[r] = gen[r] /\ deadline'[r] = deadline[r] /\ armed'[r] = armed[r]
                                 /\ entry'[r] = entry[r]
  BY <1>1, <1>2 DEF reset, Drop, Types
<1>10. \/ gen'[s] = gen[s] /\ deadline' = deadline
       \/ gen'[s] = gen[s] + 1 /\ gen'[s] \in 0 .. MaxResets
  BY <1>1, <1>8 DEF reset, Drop, Types
<1>11. Types'
  <2>1. gen' \in [Sleeps -> 0 .. MaxResets]
    <3>1. CASE reset(s) BY <1>1, <1>8, <3>1 DEF reset, Types
    <3>2. CASE Drop(s) BY <1>1, <3>2 DEF Drop, Types
    <3> QED BY <3>1, <3>2
  <2>2. deadline' \in [Sleeps -> Nat] /\ armed' \in [Sleeps -> BOOLEAN]
    <3>1. CASE reset(s)
      <4>1. PICK d \in 0 .. Horizon : deadline' = [deadline EXCEPT ![s] = d] BY <3>1 DEF reset
      <4>2. d \in Nat BY <1>8
      <4>3. armed' = [armed EXCEPT ![s] = FALSE] BY <3>1 DEF reset
      <4>4. deadline' \in [Sleeps -> Nat] BY <1>1, <4>1, <4>2 DEF Types
      <4> QED BY <1>1, <4>3, <4>4 DEF Types
    <3>2. CASE Drop(s) BY <1>1, <3>2 DEF Drop, Types
    <3> QED BY <3>1, <3>2
  <2>3. entry' \in [Sleeps -> {{}} \cup {{n} : n \in Nat}] BY <1>1, <1>2 DEF Types
  <2>4. pc' \in [Callers -> Steps] BY <1>1, <1>6 DEF Types, Steps
  <2>5. queue' \subseteq Entry BY <1>1, <1>4 DEF Types
  <2>6. fired' \subseteq Sleeps \X (0 .. MaxResets) /\ waker' \subseteq Sleeps \X (0 .. MaxResets)
    BY <1>1, <1>2 DEF Types
  <2> QED BY <1>1, <1>2, <2>1, <2>2, <2>3, <2>4, <2>5, <2>6 DEF Types
<1>12. Keys' BY <1>1, <1>2, <1>4 DEF Keys
<1>13. Filed'
  <2> DEFINE C(r) == <<r, gen'[r]>>
  <2>1. \A r \in Sleeps : r # s => C(r) = Cell(r) BY <1>9 DEF Cell
  <2>2. (C(s) = Cell(s) /\ deadline'[s] = deadline[s])
        \/ (C(s) \notin fired /\ \A e \in taken : e.owner # C(s))
    <3>1. CASE gen'[s] = gen[s] /\ deadline' = deadline BY <3>1 DEF Cell
    <3>2. CASE gen'[s] = gen[s] + 1 /\ gen'[s] \in 0 .. MaxResets
      <4>1. gen'[s] > gen[s] BY <1>8, <3>2
      <4> QED BY <1>1, <3>2, <4>1 DEF Filed
    <3> QED BY <3>1, <3>2, <1>10
  <2>3. NotEarly'
    <3>1. \A r \in Sleeps : C(r) \in fired' => now >= deadline'[r]
      BY <1>1, <1>2, <1>9, <2>1, <2>2 DEF Filed, NotEarly
    <3> QED BY <1>2, <3>1 DEF NotEarly, Cell
  <2>4. \A r \in Sleeps : \A g \in 0 .. MaxResets : g > gen'[r] => <<r, g>> \notin fired' /\ \A e \in taken : e.owner # <<r, g>>
    <3>1. \A r \in Sleeps : gen'[r] >= gen[r] /\ gen[r] \in Nat /\ gen'[r] \in Nat
      <4>1. \A r \in Sleeps : gen[r] \in Nat BY <1>1, BoundsAssumption DEF Types
      <4> QED BY <4>1, <1>9, <1>10
    <3>2. \A r \in Sleeps : \A g \in 0 .. MaxResets : g > gen'[r] => g > gen[r] BY <3>1, <1>8
    <3> QED BY <1>1, <1>2, <3>2 DEF Filed
  <2>5. \A e \in queue' \cup taken : \A r \in Sleeps : e.owner = C(r) => e.at >= deadline'[r]
    <3> SUFFICES ASSUME NEW e \in queue' \cup taken, NEW r \in Sleeps, e.owner = C(r) PROVE e.at >= deadline'[r]
      OBVIOUS
    <3>1. CASE r # s
      <4>1. e \in queue \cup taken /\ e.owner = Cell(r) BY <3>1, <1>5, <2>1
      <4> QED BY <3>1, <4>1, <1>1, <1>9 DEF Filed
    <3>2. CASE r = s
      <4>1. e \notin queue'
        <5>1. gen'[s] \in 0 .. MaxResets BY <1>8, <1>10
        <5> QED BY <3>2, <5>1, <1>5 DEF Of
      <4>2. e \in taken BY <4>1
      <4> QED BY <3>2, <4>2, <2>2, <1>1 DEF Filed
    <3> QED BY <3>1, <3>2
  <2>6. \A r \in Sleeps : /\ pc'[r] = "stamp" => now + delay[r] >= deadline'[r]
                          /\ pc'[r] = "file" => delay[r] >= deadline'[r]
    BY <1>1, <1>7, <1>9, OwnerFacts DEF Filed
  <2> QED BY <1>1, <1>2, <2>3, <2>4, <2>5, <2>6 DEF Filed, Cell
<1>14. Owned'
  <2>1. \A e \in queue' : \A r \in Sleeps : Of(e, r) =>
            armed'[r] /\ e.owner = <<r, gen'[r]>> /\ entry'[r] = {e.seq}
    <3> SUFFICES ASSUME NEW e \in queue', NEW r \in Sleeps, Of(e, r)
                 PROVE  armed'[r] /\ e.owner = <<r, gen'[r]>> /\ entry'[r] = {e.seq}
      OBVIOUS
    <3>1. e \in queue /\ r # s BY <1>5
    <3>2. armed[r] /\ e.owner = <<r, gen[r]>> /\ entry[r] = {e.seq} BY <1>1, <3>1 DEF Owned, Cell
    <3> QED BY <3>1, <3>2, <1>9
  <2>2. \A r \in Sleeps : pc'[r] \in {"delay", "stamp", "file"} => ~armed'[r]
    BY <1>1, <1>7, <1>9, OwnerFacts DEF Owned
  <2> QED BY <2>1, <2>2 DEF Owned, Of, Cell
<1>15. Awake'
  <2>1. \A c \in Callers : pc'[c] = "signal" <=> pc[c] = "signal" BY <1>2, <1>7
  <2>2. queue' \subseteq queue BY <1>4
  <2> QED BY <1>1, <1>2, <2>1, <2>2 DEF Awake, NoOversleep
<1> QED BY <1>11, <1>12, <1>13, <1>14, <1>15 DEF TimerInv

-----------------------------------------------------------------------------
\* Nothing is filed at first.
LEMMA InitHolds ==
    ASSUME Init
    PROVE  TimerInv
<1>1. Horizon \in Nat /\ MaxResets \in Nat BY BoundsAssumption
<1>2. /\ now = 0 /\ queue = {} /\ next_seq = 0 /\ tpc = "loop" /\ earliest = Never /\ taken = {}
      /\ deadline \in [Sleeps -> 0 .. Horizon] /\ gen = [s \in Sleeps |-> 0] /\ armed = [s \in Sleeps |-> FALSE]
      /\ entry = [s \in Sleeps |-> {}] /\ fired = {} /\ waker = {} /\ pc = [c \in Callers |-> "new"]
      /\ delay = [c \in Callers |-> 0]
  BY DEF Init
<1>3. deadline \in [Sleeps -> Nat] /\ gen \in [Sleeps -> 0 .. MaxResets] BY <1>1, <1>2
<1>4. armed \in [Sleeps -> BOOLEAN] BY <1>2
<1>5. entry \in [Sleeps -> {{}} \cup {{n} : n \in Nat}] BY <1>2
<1>6. pc \in [Callers -> Steps] /\ delay \in [Callers -> Nat] BY <1>2 DEF Steps
<1>7. Types BY <1>2, <1>3, <1>4, <1>5, <1>6 DEF Types, TimerSteps
<1>8. Keys BY <1>2 DEF Keys
<1>9. \A s \in Sleeps : pc[s] = "new" BY <1>2, OwnerFacts
<1>10. Filed BY <1>2, <1>9 DEF Filed, NotEarly
<1>11. Owned BY <1>2, <1>9 DEF Owned
<1>12. Awake BY <1>2 DEF Awake, NoOversleep
<1> QED BY <1>7, <1>8, <1>10, <1>11, <1>12 DEF TimerInv

\* Every step of the timer thread, of the sleeps and of the requests keeps all
\* of it.
THEOREM TimerInvariant == Spec => []TimerInv
<1>1. Init => TimerInv BY InitHolds
<1>2. TimerInv /\ [Next]_vars => TimerInv'
  <2> SUFFICES ASSUME TimerInv, [Next]_vars PROVE TimerInv' OBVIOUS
  <2>1. CASE Next
    <3>1. CASE Tick BY <3>1, TickKeeps
    <3>2. CASE TimerStep BY <3>2, SampleKeeps, FireKeeps, WaitKeeps DEF TimerStep
    <3>3. CASE ShutDown BY <3>3, ShutDownKeeps
    <3>4. ASSUME NEW s \in Sleeps, Poll(s) \/ PollStep(s) \/ reset(s) \/ Drop(s) PROVE TimerInv'
      BY <3>4, OwnerFacts, PollKeeps, StampKeeps, ScheduleKeeps, SignalKeeps, CancelKeeps DEF PollStep
    <3>5. ASSUME NEW q \in Requests, RequestDelayed(q) \/ RequestStep(q) PROVE TimerInv'
      BY <3>5, OwnerFacts, StampKeeps, ScheduleKeeps, SignalKeeps DEF RequestStep
    <3> QED BY <2>1, <3>1, <3>2, <3>3, <3>4, <3>5 DEF Next
  <2>2. CASE UNCHANGED vars
    BY <2>2 DEF vars, TimerInv, Types, Keys, Filed, NotEarly, Owned, Of, Cell, Awake, NoOversleep
  <2> QED BY <2>1, <2>2
<1> QED BY <1>1, <1>2, PTL DEF Spec

\* No sleep ends before its deadline, resets included; no dropped or reset sleep
\* leaves its entry with the timer; and the thread never sleeps past an entry,
\* however the filing of one crosses its going to sleep.
THEOREM TimersAreKept == Spec => []TimersKept
<1>1. TimerInv => TimersKept
  <2> SUFFICES ASSUME TimerInv PROVE TimersKept OBVIOUS
  <2>1. Types /\ Keys /\ Filed /\ Owned /\ Awake BY DEF TimerInv
  <2>2. Cardinality(taken) <= 1
    <3>1. CASE taken = {} BY <3>1, FS_EmptySet
    <3>2. CASE taken # {}
      <4>1. PICK e : taken = {e} BY <2>1, <3>2 DEF Types
      <4> QED BY <4>1, FS_Singleton
    <3> QED BY <3>1, <3>2
  <2>3. \A s \in Sleeps : Cardinality(entry[s]) <= 1
    <3> SUFFICES ASSUME NEW s \in Sleeps PROVE Cardinality(entry[s]) <= 1 OBVIOUS
    <3>1. CASE entry[s] = {} BY <3>1, FS_EmptySet
    <3>2. CASE entry[s] # {}
      <4>1. PICK n \in Nat : entry[s] = {n} BY <2>1, <3>2 DEF Types
      <4>2. Cardinality({n}) = 1 BY FS_Singleton, Zenon
      <4>3. Cardinality(entry[s]) = 1 BY <4>1, <4>2, Zenon
      <4> QED BY <4>3
    <3> QED BY <3>1, <3>2
  <2>4. TypeOK BY <2>1, <2>2, <2>3 DEF TypeOK, Types, Keys
  <2>5. EntriesOwned
    <3> SUFFICES ASSUME NEW e \in queue, Len(e.owner) = 2
                 PROVE  e.owner = Cell(e.owner[1]) /\ entry[e.owner[1]] = {e.seq}
      BY DEF EntriesOwned
    <3>1. e.owner \in Owners BY <2>1 DEF Types, Entry
    <3>2. PICK s \in Sleeps, g \in 0 .. MaxResets : e.owner = <<s, g>> BY <3>1, OwnerFacts
    <3>3. e.owner[1] = s /\ Of(e, s) BY <3>2 DEF Of
    <3> QED BY <2>1, <3>3 DEF Owned
  <2> QED BY <2>1, <2>4, <2>5 DEF TimersKept, Filed, Awake
<1> QED BY <1>1, TimerInvariant, PTL
-----------------------------------------------------------------------------
(* A task of the future executor.                                          *)

\* Where a thread has the task to queue or to cancel, and where to poll.
QueuedPc == {"timer", "enqueue", "push", "unrun"}
PollPc == {"take", "look", "poll", "done_cancelled", "done_ready", "done_panic", "release", "again"}
OtherPc == {"idle", "schedule", "unrun_future", "cancelled", "ready", "panic", "left", "upgrade",
            "dropped"}
TaskPc == QueuedPc \cup PollPc \cup OtherPc
Running == {"RUNNING", "RUNNING_NOTIFIED"}

TaskTypes ==
    /\ state \in States /\ future \in {"here", "out", "gone"} /\ ring \in {0, 1}
    /\ fpc \in [Threads -> QueuedPc \cup PollPc \cup OtherPc]
    /\ held \subseteq Sources
    /\ \A s \in held : fpc[s] = "idle"
    /\ \A t \in Threads : fpc[t] \in PollPc => t \in Pollers
    /\ \A t \in Threads : fpc[t] \in {"timer", "dropped"} => t = Spawner

SlotInv ==
    /\ result \in {"none", "ok", "panicked", "cancelled"}
    /\ finalized = (result # "none")

Claiming(t) == fpc[t] \in QueuedPc \cup PollPc

\* The state tells where the one claim is.
ClaimInv ==
    /\ \A t, u \in Threads : Claiming(t) /\ Claiming(u) => t = u
    /\ ring = 1 => state = "SCHEDULED" /\ \A t \in Threads : ~Claiming(t)
    /\ \A t \in Threads :
        /\ fpc[t] \in QueuedPc => state = "SCHEDULED"
        /\ fpc[t] \in PollPc => state \in Running
        /\ fpc[t] = "again" => state = "RUNNING_NOTIFIED"
        /\ fpc[t] = "unrun_future" => state = "DONE"
    /\ state \in Running => \E t \in Threads : fpc[t] \in PollPc
    /\ (state = "SCHEDULED" /\ ~released /\ \A t \in Threads : fpc[t] # "dropped") =>
            ring = 1 \/ \E t \in Threads : fpc[t] \in QueuedPc

\* The future is in its place while nobody polls it; a task that was dropped
\* has nobody left to come for it.
FutureInv ==
    /\ \A t \in Threads : fpc[t] \in {"take", "release", "again"} => future = "here"
    /\ (state \in {"IDLE", "SCHEDULED"} /\ ~released) => future = "here"
    /\ released => /\ ring = 0 /\ held = {}
                   /\ \A t \in Threads : fpc[t] \in {"idle", "left", "upgrade", "dropped"}

\* A wake owed has a schedule, an entry or a poll that begins after it.
WakeInv == owed => \/ state \in {"SCHEDULED", "RUNNING_NOTIFIED", "DONE"} \/ released
                   \/ \E s \in Sources : fpc[s] = "schedule"
                   \/ \E w \in Pollers : fpc[w] \in {"take", "look", "done_cancelled"}

TaskInv == TaskTypes /\ SlotInv /\ ClaimInv /\ FutureInv /\ WakeInv

-----------------------------------------------------------------------------
\* The threads, and what the steps are called, are told apart.
LEMMA ThreadFacts ==
    /\ Pollers \subseteq Threads /\ Sources \subseteq Threads
    /\ Spawner \in Threads /\ Aborter \in Threads
    /\ \A w \in Pollers : w \notin Sources /\ w # Spawner /\ w # Aborter
    /\ \A s \in Sources : s # Spawner /\ s # Aborter
BY TaskBounds DEF Threads

\* The slot stays as it is.
LEMMA SlotKept ==
    ASSUME SlotInv, UNCHANGED slotVars
    PROVE  SlotInv'
BY DEF SlotInv, slotVars

\* One thread moves.
LEMMA OneMoves ==
    ASSUME TaskTypes, NEW t \in Threads, NEW to \in QueuedPc \cup PollPc \cup OtherPc, Goto(t, to)
    PROVE  /\ fpc' \in [Threads -> QueuedPc \cup PollPc \cup OtherPc]
           /\ \A u \in Threads : fpc'[u] = IF u = t THEN to ELSE fpc[u]
BY DEF TaskTypes, Goto

\* A wake claims an idle task, marks a running one, joins a claim that stands.
LEMMA TaskScheduleKeeps ==
    ASSUME TaskInv, NEW t \in Threads, schedule(t)
    PROVE  TaskInv'
<1> DEFINE to == IF state = "IDLE" THEN "enqueue" ELSE "idle"
<1>1. TaskTypes /\ SlotInv /\ ClaimInv /\ FutureInv /\ WakeInv BY DEF TaskInv
<1>2. /\ fpc[t] = "schedule" /\ Goto(t, to)
      /\ state' = (IF state = "IDLE" THEN "SCHEDULED" ELSE IF state = "RUNNING" THEN "RUNNING_NOTIFIED" ELSE state)
      /\ future' = future /\ ring' = ring /\ held' = held /\ released' = released /\ owed' = owed
      /\ UNCHANGED slotVars
  BY <1>1 DEF schedule, envVars, TaskTypes, States
<1>3. to \in QueuedPc \cup PollPc \cup OtherPc BY DEF QueuedPc, OtherPc
<1>4. /\ fpc' \in [Threads -> QueuedPc \cup PollPc \cup OtherPc]
      /\ \A u \in Threads : fpc'[u] = IF u = t THEN to ELSE fpc[u]
  BY <1>1, <1>2, <1>3, OneMoves
<1>5. TaskTypes' BY <1>1, <1>2, <1>4, ThreadFacts DEF TaskTypes, States, PollPc
<1>6. ClaimInv'
  <2>1. CASE state = "IDLE"
    <3>1. \A u \in Threads : ~Claiming(u) BY <2>1, <1>1 DEF ClaimInv, Claiming, Running
    <3>2. ring # 1 BY <2>1, <1>1 DEF ClaimInv
    <3>3. fpc'[t] = "enqueue" /\ state' = "SCHEDULED" /\ ring' # 1 BY <2>1, <3>2, <1>2, <1>4
    <3>4. \A u \in Threads : u # t => fpc'[u] \notin QueuedPc \cup PollPc /\ fpc'[u] = fpc[u]
      BY <3>1, <1>4 DEF Claiming
    <3>5. \A u \in Threads : fpc'[u] # "unrun_future" BY <2>1, <3>3, <3>4, <1>1 DEF ClaimInv
    <3> QED BY <3>3, <3>4, <3>5 DEF ClaimInv, Claiming, Running, QueuedPc, PollPc
  <2>2. CASE state # "IDLE" BY <2>2, <1>1, <1>2, <1>4 DEF ClaimInv, Claiming, Running, QueuedPc, PollPc
  <2> QED BY <2>1, <2>2
<1>7. FutureInv' BY <1>1, <1>2, <1>4 DEF FutureInv
<1>8. WakeInv'
  <2>1. state' \in {"SCHEDULED", "RUNNING_NOTIFIED", "DONE"} BY <1>1, <1>2 DEF TaskTypes, States
  <2> QED BY <2>1 DEF WakeInv
<1> QED BY <1>1, <1>2, <1>5, <1>6, <1>7, <1>8, SlotKept DEF TaskInv

\* The claim goes on to the push, or to the cancel if the band is down.
LEMMA EnqueueKeeps ==
    ASSUME TaskInv, NEW t \in Threads, Enqueue(t)
    PROVE  TaskInv'
<1> DEFINE to == IF down THEN "unrun" ELSE "push"
<1>1. TaskTypes /\ SlotInv /\ ClaimInv /\ FutureInv /\ WakeInv BY DEF TaskInv
<1>2. /\ fpc[t] = "enqueue" /\ Goto(t, to) /\ state' = state
      /\ future' = future /\ ring' = ring /\ held' = held /\ released' = released /\ owed' = owed
      /\ UNCHANGED slotVars
  BY DEF Enqueue, envVars, pollVars
<1>3. to \in QueuedPc \cup PollPc \cup OtherPc BY DEF QueuedPc, OtherPc
<1>4. /\ fpc' \in [Threads -> QueuedPc \cup PollPc \cup OtherPc]
      /\ \A u \in Threads : fpc'[u] = IF u = t THEN to ELSE fpc[u]
  BY <1>1, <1>2, <1>3, OneMoves
<1>5. TaskTypes' BY <1>1, <1>2, <1>4, ThreadFacts DEF TaskTypes, PollPc
<1>6. ClaimInv' BY <1>1, <1>2, <1>4 DEF ClaimInv, Claiming, QueuedPc, PollPc
<1>7. FutureInv' BY <1>1, <1>2, <1>4 DEF FutureInv
<1>8. WakeInv' BY <1>1, <1>2, <1>4, ThreadFacts DEF WakeInv, ClaimInv, QueuedPc
<1> QED BY <1>1, <1>2, <1>5, <1>6, <1>7, <1>8, SlotKept DEF TaskInv

\* The claim passes from the thread to the band.
LEMMA PushKeeps ==
    ASSUME TaskInv, NEW t \in Threads, Push(t)
    PROVE  TaskInv'
<1>1. TaskTypes /\ SlotInv /\ ClaimInv /\ FutureInv /\ WakeInv BY DEF TaskInv
<1>2. /\ fpc[t] = "push" /\ Goto(t, "idle") /\ state' = state
      /\ future' = future /\ ring' = ring + 1 /\ held' = held /\ released' = released /\ owed' = owed
      /\ UNCHANGED slotVars
  BY DEF Push, envVars, pollVars
<1>3. "idle" \in QueuedPc \cup PollPc \cup OtherPc BY DEF OtherPc
<1>4. /\ fpc' \in [Threads -> QueuedPc \cup PollPc \cup OtherPc]
      /\ \A u \in Threads : fpc'[u] = IF u = t THEN "idle" ELSE fpc[u]
  BY <1>1, <1>2, <1>3, OneMoves
<1>5. /\ Claiming(t) /\ ring = 0 /\ state = "SCHEDULED" /\ ~released
      /\ \A u \in Threads : Claiming(u) => u = t
  BY <1>1, <1>2 DEF ClaimInv, Claiming, QueuedPc, TaskTypes, FutureInv
<1>6. ring' = 1 BY <1>2, <1>5
<1>7. TaskTypes' BY <1>1, <1>2, <1>4, <1>6, ThreadFacts DEF TaskTypes, PollPc
<1>8. ClaimInv' BY <1>1, <1>2, <1>4, <1>5, <1>6 DEF ClaimInv, Claiming, QueuedPc, PollPc, Running
<1>9. FutureInv' BY <1>1, <1>2, <1>4, <1>5 DEF FutureInv
<1>10. WakeInv' BY <1>2, <1>5 DEF WakeInv
<1> QED BY <1>1, <1>2, <1>7, <1>8, <1>9, <1>10, SlotKept DEF TaskInv

\* cancel_unrun ends the claim; then it drops the future, which nobody polls.
LEMMA UnrunKeeps ==
    ASSUME TaskInv, NEW t \in Threads, Unrun(t) \/ UnrunFuture(t)
    PROVE  TaskInv'
<1> DEFINE to == IF fpc[t] = "unrun" THEN "unrun_future" ELSE "cancelled"
<1>1. TaskTypes /\ SlotInv /\ ClaimInv /\ FutureInv /\ WakeInv BY DEF TaskInv
<1>2. /\ fpc[t] \in {"unrun", "unrun_future"} /\ Goto(t, to)
      /\ ring' = ring /\ held' = held /\ released' = released /\ owed' = owed
      /\ UNCHANGED slotVars /\ future' \in {future, "gone"}
  BY DEF Unrun, UnrunFuture, envVars
<1>3. state' = "DONE" BY <1>1 DEF Unrun, UnrunFuture, ClaimInv
<1>4. to \in QueuedPc \cup PollPc \cup OtherPc BY DEF QueuedPc, OtherPc
<1>5. /\ fpc' \in [Threads -> QueuedPc \cup PollPc \cup OtherPc]
      /\ \A u \in Threads : fpc'[u] = IF u = t THEN to ELSE fpc[u]
  BY <1>1, <1>2, <1>4, OneMoves
<1>6. ring = 0 /\ ~released /\ \A u \in Threads : Claiming(u) => u = t
  <2>1. CASE fpc[t] = "unrun" BY <2>1, <1>1, <1>2 DEF ClaimInv, Claiming, QueuedPc, TaskTypes, FutureInv
  <2>2. CASE fpc[t] = "unrun_future"
    <3>1. state = "DONE" BY <2>2, <1>1 DEF ClaimInv
    <3> QED BY <2>2, <3>1, <1>1 DEF ClaimInv, Claiming, Running, TaskTypes, FutureInv
  <2> QED BY <2>1, <2>2, <1>2
<1>7. TaskTypes' BY <1>1, <1>2, <1>3, <1>5, <1>6, ThreadFacts DEF TaskTypes, PollPc, States
<1>8. \A u \in Threads : fpc'[u] \notin QueuedPc \cup PollPc
  BY <1>2, <1>5, <1>6 DEF Claiming, QueuedPc, PollPc
<1>9. ClaimInv' BY <1>2, <1>3, <1>6, <1>8 DEF ClaimInv, Claiming, QueuedPc, PollPc, Running
<1>10. FutureInv' BY <1>2, <1>3, <1>6, <1>8 DEF FutureInv, PollPc
<1>11. WakeInv' BY <1>3 DEF WakeInv
<1> QED BY <1>1, <1>2, <1>7, <1>9, <1>10, <1>11, SlotKept DEF TaskInv

\* An outcome is published; the thread held no claim any more.
LEMMA PublishKeeps ==
    ASSUME TaskInv, NEW t \in Threads, Publish(t)
    PROVE  TaskInv'
<1>1. TaskTypes /\ SlotInv /\ ClaimInv /\ FutureInv /\ WakeInv BY DEF TaskInv
<1>2. DOMAIN Outcome = {"cancelled", "ready", "panic"} BY DEF Outcome
<1>3. /\ fpc[t] \in {"cancelled", "ready", "panic"} /\ Goto(t, "idle") /\ state' = state
      /\ future' = future /\ ring' = ring /\ held' = held /\ released' = released /\ owed' = owed
      /\ finalize(Outcome[fpc[t]])
  BY <1>2 DEF Publish, envVars, pollVars
<1>4. "idle" \in QueuedPc \cup PollPc \cup OtherPc BY DEF OtherPc
<1>5. /\ fpc' \in [Threads -> QueuedPc \cup PollPc \cup OtherPc]
      /\ \A u \in Threads : fpc'[u] = IF u = t THEN "idle" ELSE fpc[u]
  BY <1>1, <1>3, <1>4, OneMoves
<1>6. TaskTypes' BY <1>1, <1>3, <1>5, ThreadFacts DEF TaskTypes, PollPc
<1>7. Outcome[fpc[t]] \in {"ok", "panicked", "cancelled"} BY <1>3 DEF Outcome
<1>8. SlotInv' BY <1>1, <1>3, <1>7 DEF SlotInv, finalize, slotVars
<1>9. ClaimInv' BY <1>1, <1>3, <1>5 DEF ClaimInv, Claiming, QueuedPc, PollPc
<1>10. FutureInv' BY <1>1, <1>3, <1>5 DEF FutureInv
<1>11. WakeInv' BY <1>1, <1>3, <1>5, ThreadFacts DEF WakeInv
<1> QED BY <1>6, <1>8, <1>9, <1>10, <1>11 DEF TaskInv

-----------------------------------------------------------------------------
\* Who polls the task has the only claim on it.
LEMMA PollerFacts ==
    ASSUME TaskInv, NEW w \in Threads, fpc[w] \in PollPc
    PROVE  /\ w \in Pollers /\ ring = 0 /\ ~released /\ state \in Running
           /\ \A u \in Threads : u # w => ~Claiming(u)
<1>1. TaskTypes /\ ClaimInv /\ FutureInv BY DEF TaskInv
<1>2. Claiming(w) BY DEF Claiming
<1>3. ring # 1 BY <1>1, <1>2 DEF ClaimInv
<1>4. ~released BY <1>1 DEF FutureInv, PollPc
<1> QED BY <1>1, <1>2, <1>3, <1>4 DEF TaskTypes, ClaimInv

\* The claim of an entry passes to the worker that pops it.
LEMMA ClaimKeeps ==
    ASSUME TaskInv, NEW w \in Pollers, Claim(w)
    PROVE  TaskInv'
<1>1. TaskTypes /\ SlotInv /\ ClaimInv /\ FutureInv /\ WakeInv BY DEF TaskInv
<1>2. w \in Threads /\ w \notin Sources BY ThreadFacts
<1>3. ring = 1 /\ fpc[w] = "idle" BY <1>1 DEF Claim, TaskTypes
<1>4. state = "SCHEDULED" /\ \A u \in Threads : ~Claiming(u) BY <1>1, <1>3 DEF ClaimInv
<1>5. /\ Goto(w, "take") /\ state' = "RUNNING" /\ ring' = 0
      /\ future' = future /\ held' = held /\ released' = released /\ owed' = owed
      /\ UNCHANGED slotVars
  BY <1>3, <1>4 DEF Claim, envVars
<1>6. "take" \in QueuedPc \cup PollPc \cup OtherPc BY DEF PollPc
<1>7. /\ fpc' \in [Threads -> QueuedPc \cup PollPc \cup OtherPc]
      /\ \A u \in Threads : fpc'[u] = IF u = w THEN "take" ELSE fpc[u]
  BY <1>1, <1>2, <1>5, <1>6, OneMoves
<1>8. ~released /\ future = "here" BY <1>1, <1>3, <1>4 DEF FutureInv
<1>9. TaskTypes' BY <1>1, <1>2, <1>5, <1>7, ThreadFacts DEF TaskTypes, States
<1>10. \A u \in Threads : fpc'[u] \notin QueuedPc /\ (fpc'[u] \in PollPc => u = w) /\ fpc'[u] # "again"
  BY <1>4, <1>7 DEF Claiming, QueuedPc, PollPc
<1>11. fpc'[w] \in PollPc BY <1>2, <1>7 DEF PollPc
<1>12. \A u \in Threads : fpc'[u] # "unrun_future" BY <1>1, <1>4, <1>7 DEF ClaimInv
<1>13. ClaimInv' BY <1>2, <1>5, <1>10, <1>11, <1>12 DEF ClaimInv, Claiming, Running
<1>14. FutureInv' BY <1>5, <1>8 DEF FutureInv
<1>15. WakeInv' BY <1>2, <1>7 DEF WakeInv
<1> QED BY <1>1, <1>5, <1>9, <1>13, <1>14, <1>15, SlotKept DEF TaskInv

\* The poller goes on polling: its claim stays, whatever else it changes.
LEMMA PollerGoesOn ==
    ASSUME TaskInv, NEW w \in Threads, fpc[w] \in PollPc,
           NEW to \in PollPc \ {"take", "again"}, Goto(w, to), state' = state, ring' = ring,
           held' = held, released' = released, future' \in {"here", "out", "gone"}
    PROVE  /\ TaskTypes' /\ ClaimInv'
           /\ (to = "release" => future' = "here") => FutureInv'
           /\ \A u \in Threads : fpc'[u] = IF u = w THEN to ELSE fpc[u]
<1>1. TaskTypes /\ ClaimInv /\ FutureInv BY DEF TaskInv
<1>2. /\ w \in Pollers /\ ring = 0 /\ ~released /\ state \in Running
      /\ \A u \in Threads : u # w => ~Claiming(u)
  BY PollerFacts
<1>3. to \in QueuedPc \cup PollPc \cup OtherPc OBVIOUS
<1>4. /\ fpc' \in [Threads -> QueuedPc \cup PollPc \cup OtherPc]
      /\ \A u \in Threads : fpc'[u] = IF u = w THEN to ELSE fpc[u]
  BY <1>1, <1>3, OneMoves
<1>5. w \notin held BY <1>2, ThreadFacts, <1>1 DEF TaskTypes
<1>6. TaskTypes' BY <1>1, <1>2, <1>4, <1>5, ThreadFacts DEF TaskTypes, PollPc, QueuedPc
<1>7. \A u \in Threads : fpc'[u] \notin QueuedPc /\ (fpc'[u] \in PollPc => u = w)
  BY <1>2, <1>4 DEF Claiming, QueuedPc, PollPc
<1>8. \A u \in Threads : fpc'[u] # "unrun_future" /\ fpc'[u] # "again" /\ fpc'[u] # "take"
  BY <1>1, <1>2, <1>4 DEF ClaimInv, Running, PollPc, Claiming
<1>9. fpc'[w] \in PollPc BY <1>4
<1>10. ClaimInv' BY <1>2, <1>7, <1>8, <1>9 DEF ClaimInv, Claiming, Running
<1>11. ASSUME to = "release" => future' = "here" PROVE FutureInv'
  <2>1. \A u \in Threads : fpc'[u] \in {"take", "release", "again"} => future' = "here"
    BY <1>11, <1>4, <1>7, <1>8 DEF PollPc
  <2> QED BY <2>1, <1>2 DEF FutureInv, Running
<1> QED BY <1>4, <1>6, <1>10, <1>11

\* The future is taken, looked at, polled to its end, or put back.
LEMMA TaskPollKeeps ==
    ASSUME TaskInv, NEW w \in Pollers, Take(w) \/ Look(w) \/ Complete(w) \/ PutBack(w)
    PROVE  TaskInv'
<1>1. TaskTypes /\ SlotInv /\ ClaimInv /\ FutureInv /\ WakeInv BY DEF TaskInv
<1>2. w \in Threads /\ w \notin Sources BY ThreadFacts
<1>3. fpc[w] \in {"take", "look", "poll"} BY DEF Take, Look, Complete, PutBack
<1>4. fpc[w] \in PollPc BY <1>3 DEF PollPc
<1>5. fpc[w] = "take" => future = "here" BY <1>1, <1>2 DEF FutureInv
<1>6. /\ state' = state /\ ring' = ring /\ held' = held /\ released' = released
      /\ UNCHANGED slotVars
  BY <1>5 DEF Take, Look, Complete, PutBack, envVars
<1>7. PICK to \in PollPc \ {"take", "again"} :
        /\ Goto(w, to)
        /\ to = "release" => future' = "here"
        /\ \/ owed' = owed /\ (fpc[w] = "poll" \/ to \in {"look", "done_cancelled"})
           \/ owed' = FALSE
  <2>1. CASE Take(w) BY <2>1, <1>5 DEF Take, PollPc
  <2>2. CASE Look(w) BY <2>2 DEF Look, PollPc
  <2>3. CASE Complete(w) BY <2>3 DEF Complete, PollPc
  <2>4. CASE PutBack(w) BY <2>4 DEF PutBack, PollPc
  <2> QED BY <2>1, <2>2, <2>3, <2>4
<1>8. future' \in {"here", "out", "gone"} BY <1>1 DEF TaskTypes, Take, Look, Complete, PutBack
<1>9. /\ TaskTypes' /\ ClaimInv' /\ FutureInv'
      /\ \A u \in Threads : fpc'[u] = IF u = w THEN to ELSE fpc[u]
  BY <1>2, <1>4, <1>6, <1>7, <1>8, PollerGoesOn
<1>10. WakeInv'
  <2>1. \A u \in Threads : u # w => ~Claiming(u) BY <1>2, <1>4, PollerFacts
  <2>2. CASE owed' = owed /\ fpc[w] = "poll"
    <3>1. \A u \in Pollers : fpc[u] \notin {"take", "look", "done_cancelled"}
      BY <2>1, <2>2, ThreadFacts DEF Claiming, PollPc
    <3> QED BY <2>2, <3>1, <1>1, <1>2, <1>6, <1>9, ThreadFacts DEF WakeInv
  <2>3. CASE to \in {"look", "done_cancelled"} BY <2>3, <1>2, <1>9 DEF WakeInv
  <2>4. CASE owed' = FALSE BY <2>4 DEF WakeInv
  <2> QED BY <2>2, <2>3, <2>4, <1>7
<1> QED BY <1>1, <1>6, <1>9, <1>10, SlotKept DEF TaskInv

\* A poll that ended leaves the task DONE.
LEMMA DoneKeeps ==
    ASSUME TaskInv, NEW w \in Pollers, Done(w)
    PROVE  TaskInv'
<1>1. TaskTypes /\ SlotInv /\ ClaimInv /\ FutureInv /\ WakeInv BY DEF TaskInv
<1>2. w \in Threads /\ w \notin Sources BY ThreadFacts
<1>3. /\ fpc[w] \in {"done_cancelled", "done_ready", "done_panic"} /\ state' = "DONE"
      /\ future' = future /\ ring' = ring /\ held' = held /\ released' = released /\ owed' = owed
      /\ UNCHANGED slotVars
  BY DEF Done, envVars
<1>4. PICK to \in {"cancelled", "ready", "panic"} : Goto(w, to) BY DEF Done
<1>5. fpc[w] \in PollPc BY <1>3 DEF PollPc
<1>6. /\ ring = 0 /\ ~released /\ \A u \in Threads : u # w => ~Claiming(u)
  BY <1>2, <1>5, PollerFacts
<1>7. to \in QueuedPc \cup PollPc \cup OtherPc BY DEF OtherPc
<1>8. /\ fpc' \in [Threads -> QueuedPc \cup PollPc \cup OtherPc]
      /\ \A u \in Threads : fpc'[u] = IF u = w THEN to ELSE fpc[u]
  BY <1>1, <1>2, <1>4, <1>7, OneMoves
<1>9. TaskTypes' BY <1>1, <1>2, <1>3, <1>8, ThreadFacts DEF TaskTypes, States, PollPc
<1>10. \A u \in Threads : fpc'[u] \notin QueuedPc \cup PollPc
  BY <1>6, <1>8 DEF Claiming, QueuedPc, PollPc
<1>11. ClaimInv' BY <1>3, <1>6, <1>10 DEF ClaimInv, Claiming, QueuedPc, PollPc, Running
<1>12. FutureInv' BY <1>3, <1>6, <1>10 DEF FutureInv, PollPc
<1>13. WakeInv' BY <1>3 DEF WakeInv
<1> QED BY <1>1, <1>3, <1>9, <1>11, <1>12, <1>13, SlotKept DEF TaskInv

\* The poll is given up: to IDLE, or back to SCHEDULED if a wake landed.
LEMMA ReleaseKeeps ==
    ASSUME TaskInv, NEW w \in Pollers, Release(w) \/ Again(w)
    PROVE  TaskInv'
<1> DEFINE to == IF fpc[w] = "again" THEN "enqueue" ELSE IF state = "RUNNING" THEN "idle" ELSE "again"
<1>1. TaskTypes /\ SlotInv /\ ClaimInv /\ FutureInv /\ WakeInv BY DEF TaskInv
<1>2. w \in Threads /\ w \notin Sources BY ThreadFacts
<1>3. /\ fpc[w] \in {"release", "again"} /\ Goto(w, to)
      /\ future' = future /\ ring' = ring /\ held' = held /\ released' = released /\ owed' = owed
      /\ UNCHANGED slotVars
  BY DEF Release, Again, envVars
<1>4. fpc[w] \in PollPc BY <1>3 DEF PollPc
<1>5. /\ ring = 0 /\ ~released /\ state \in Running /\ \A u \in Threads : u # w => ~Claiming(u)
  BY <1>2, <1>4, PollerFacts
<1>6. future = "here" BY <1>1, <1>2, <1>3 DEF FutureInv
<1>7. state' = CASE to = "enqueue" -> "SCHEDULED" [] to = "idle" -> "IDLE" [] to = "again" -> "RUNNING_NOTIFIED"
  BY <1>5 DEF Release, Again, Running
<1>8. to \in {"enqueue", "idle", "again"} OBVIOUS
<1>9. to \in QueuedPc \cup PollPc \cup OtherPc BY DEF OtherPc, QueuedPc, PollPc
<1>10. /\ fpc' \in [Threads -> QueuedPc \cup PollPc \cup OtherPc]
       /\ \A u \in Threads : fpc'[u] = IF u = w THEN to ELSE fpc[u]
  BY <1>1, <1>2, <1>3, <1>9, OneMoves
<1>11. state' \in States BY <1>7, <1>8 DEF States
<1>12. TaskTypes'
  <2>1. \A u \in Threads : fpc'[u] \in PollPc => u \in Pollers BY <1>1, <1>10 DEF TaskTypes
  <2>2. \A s \in held : s # w /\ s \in Threads BY <1>1, <1>2, ThreadFacts DEF TaskTypes
  <2> QED BY <1>1, <1>3, <1>8, <1>10, <1>11, <2>1, <2>2 DEF TaskTypes
<1>13. \A u \in Threads : u # w => fpc'[u] \notin QueuedPc \cup PollPc /\ fpc'[u] = fpc[u]
  BY <1>5, <1>10 DEF Claiming
<1>14. \A u \in Threads : fpc[u] # "unrun_future" BY <1>1, <1>5 DEF ClaimInv, Running
<1>15. fpc'[w] = to BY <1>2, <1>10
<1>16. ClaimInv'
  <2> HIDE DEF to
  <2>1. CASE to = "enqueue"
    <3>1. state' = "SCHEDULED" BY <2>1, <1>7
    <3> QED BY <2>1, <3>1, <1>2, <1>3, <1>5, <1>13, <1>14, <1>15 DEF ClaimInv, Claiming, QueuedPc, PollPc, Running
  <2>2. CASE to = "idle"
    <3>1. state' = "IDLE" BY <2>2, <1>7
    <3> QED BY <2>2, <3>1, <1>2, <1>3, <1>5, <1>13, <1>14, <1>15 DEF ClaimInv, Claiming, QueuedPc, PollPc, Running
  <2>3. CASE to = "again"
    <3>1. state' = "RUNNING_NOTIFIED" BY <2>3, <1>7
    <3> QED BY <2>3, <3>1, <1>2, <1>3, <1>5, <1>13, <1>14, <1>15 DEF ClaimInv, Claiming, QueuedPc, PollPc, Running
  <2> QED BY <2>1, <2>2, <2>3, <1>8
<1>17. FutureInv' BY <1>3, <1>5, <1>6 DEF FutureInv
<1>18. WakeInv'
  <2> HIDE DEF to
  <2>1. CASE to # "idle"
    <3>1. state' \in {"SCHEDULED", "RUNNING_NOTIFIED"} BY <2>1, <1>7, <1>8
    <3> QED BY <3>1 DEF WakeInv
  <2>2. CASE to = "idle"
    <3>1. state = "RUNNING" /\ fpc[w] = "release" BY <2>2, <1>3 DEF to
    <3>2. \A u \in Pollers : fpc[u] \notin {"take", "look", "done_cancelled"}
      BY <1>5, <3>1, ThreadFacts DEF Claiming, PollPc
    <3>3. owed => \E s \in Sources : fpc[s] = "schedule" BY <3>1, <3>2, <1>1, <1>5 DEF WakeInv
    <3>4. \A s \in Sources : fpc'[s] = fpc[s] BY <1>2, <1>10, ThreadFacts
    <3> QED BY <3>3, <3>4, <1>3 DEF WakeInv
  <2> QED BY <2>1, <2>2
<1> QED BY <1>1, <1>3, <1>12, <1>16, <1>17, <1>18, SlotKept DEF TaskInv

-----------------------------------------------------------------------------
\* A thread that has no claim on the task moves without taking one.
LEMMA QuietMove ==
    ASSUME TaskInv, NEW t \in Threads, NEW to \in {"idle", "left", "upgrade", "schedule"},
           fpc[t] \in {"idle", "upgrade"}, Goto(t, to), UNCHANGED slotVars,
           state' = state, future' = future, ring' = ring, released' = released,
           held' \subseteq held, t \notin held', released => to # "schedule",
           owed' = owed \/ (t \in Sources /\ to = "schedule")
    PROVE  TaskInv'
<1>1. TaskTypes /\ SlotInv /\ ClaimInv /\ FutureInv /\ WakeInv BY DEF TaskInv
<1>2. to \in QueuedPc \cup PollPc \cup OtherPc BY DEF OtherPc
<1>3. /\ fpc' \in [Threads -> QueuedPc \cup PollPc \cup OtherPc]
      /\ \A u \in Threads : fpc'[u] = IF u = t THEN to ELSE fpc[u]
  BY <1>1, <1>2, OneMoves
<1>4. TaskTypes' BY <1>1, <1>3, ThreadFacts DEF TaskTypes, PollPc
<1>5. ClaimInv' BY <1>1, <1>3 DEF ClaimInv, Claiming, QueuedPc, PollPc
<1>6. FutureInv' BY <1>1, <1>3 DEF FutureInv
<1>7. WakeInv'
  <2>1. CASE t \in Sources /\ to = "schedule" BY <2>1, <1>3 DEF WakeInv
  <2>2. CASE owed' = owed
    <3>1. \A s \in Sources : fpc[s] = "schedule" => fpc'[s] = "schedule" BY <1>3, ThreadFacts
    <3>2. \A w \in Pollers : fpc[w] \in {"take", "look", "done_cancelled"} => fpc'[w] = fpc[w]
      BY <1>3, ThreadFacts
    <3> QED BY <2>2, <3>1, <3>2, <1>1 DEF WakeInv
  <2> QED BY <2>1, <2>2
<1> QED BY <1>1, <1>4, <1>5, <1>6, <1>7, SlotKept DEF TaskInv

\* Pollers leave, sources wake, an abort begins and finds the task or not.
LEMMA OutsideKeeps ==
    ASSUME TaskInv,
           \/ \E w \in Pollers : LeaveBand(w)
           \/ \E s \in Sources : Wake(s)
           \/ Abort \/ Upgrade
    PROVE  TaskInv'
<1>1. TaskTypes /\ FutureInv BY DEF TaskInv
<1>2. ASSUME NEW w \in Pollers, LeaveBand(w) PROVE TaskInv'
  <2>1. w \in Threads /\ w \notin held BY <1>1, ThreadFacts DEF TaskTypes
  <2> QED BY <1>2, <2>1, QuietMove DEF LeaveBand, pollVars, envVars
<1>3. ASSUME NEW s \in Sources, Wake(s) PROVE TaskInv'
  <2>1. s \in Threads /\ fpc[s] = "idle" /\ ~released BY <1>1, <1>3, ThreadFacts DEF TaskTypes, Wake, FutureInv
  <2> QED BY <1>3, <2>1, QuietMove DEF Wake, pollVars
<1>4. Aborter \in Threads /\ Aborter \notin held BY <1>1, ThreadFacts DEF TaskTypes
<1>5. CASE Abort BY <1>5, <1>4, QuietMove DEF Abort, pollVars
<1>6. CASE Upgrade
  <2> DEFINE to == IF released THEN "idle" ELSE "schedule"
  <2>1. to \in {"idle", "schedule"} /\ (released => to # "schedule") OBVIOUS
  <2>2. /\ fpc[Aborter] = "upgrade" /\ Goto(Aborter, to) /\ UNCHANGED slotVars
        /\ state' = state /\ future' = future /\ ring' = ring /\ released' = released
        /\ held' = held /\ owed' = owed
    BY <1>6 DEF Upgrade, pollVars, envVars
  <2> HIDE DEF to
  <2> QED BY <2>1, <2>2, <1>4, QuietMove
<1> QED BY <1>2, <1>3, <1>5, <1>6

\* Nothing of the task moves but its wakers, its band or its joiner.
LEMMA AsideKeeps ==
    ASSUME TaskInv, UNCHANGED <<fpc, state, future, ring, released, owed, finalized, result>>,
           held' \subseteq Sources, \A s \in held' : fpc[s] = "idle", released => held' \subseteq held
    PROVE  TaskInv'
<1>1. TaskTypes /\ SlotInv /\ ClaimInv /\ FutureInv /\ WakeInv BY DEF TaskInv
<1>2. TaskTypes' BY <1>1 DEF TaskTypes
<1>3. SlotInv' BY <1>1 DEF SlotInv
<1>4. ClaimInv' BY <1>1 DEF ClaimInv, Claiming
<1>5. FutureInv' BY <1>1 DEF FutureInv
<1>6. WakeInv' BY <1>1 DEF WakeInv
<1> QED BY <1>2, <1>3, <1>4, <1>5, <1>6 DEF TaskInv

\* The poll leaves a waker, a source drops one, the band goes down, the
\* joiner polls or is woken.
LEMMA RestKeeps ==
    ASSUME TaskInv,
           \/ \E w \in Pollers, s \in Sources : Await(w, s)
           \/ \E s \in Sources : DropWaker(s)
           \/ ShutDownBand \/ JoinPoll \/ WakeJoiner
    PROVE  TaskInv'
<1>1. TaskTypes BY DEF TaskInv
<1>2. held \subseteq Sources /\ \A s \in held : fpc[s] = "idle" BY <1>1 DEF TaskTypes
<1>3. ASSUME NEW w \in Pollers, NEW s \in Sources, Await(w, s) PROVE TaskInv'
  <2>1. fpc[w] \in PollPc BY <1>3 DEF Await, PollPc
  <2>2. ~released BY <2>1, ThreadFacts, PollerFacts
  <2> QED BY <1>2, <1>3, <2>2, AsideKeeps DEF Await, pollVars, slotVars
<1>4. ASSUME NEW s \in Sources, DropWaker(s) PROVE TaskInv'
  BY <1>2, <1>4, AsideKeeps DEF DropWaker, pollVars, slotVars
<1>5. CASE ShutDownBand BY <1>2, <1>5, AsideKeeps DEF ShutDownBand, pollVars, slotVars, envVars
<1>6. CASE JoinPoll BY <1>2, <1>6, AsideKeeps DEF JoinPoll, pollVars
<1>7. CASE WakeJoiner BY <1>2, <1>7, AsideKeeps DEF WakeJoiner, pollVars
<1> QED BY <1>3, <1>4, <1>5, <1>6, <1>7

\* The timer enqueues the task it was given, or drops it.
LEMMA TimerKeeps ==
    ASSUME TaskInv, TimerFires
    PROVE  TaskInv'
<1>1. TaskTypes /\ SlotInv /\ ClaimInv /\ FutureInv /\ WakeInv BY DEF TaskInv
<1>2. /\ fpc[Spawner] = "timer" /\ state' = state
      /\ future' = future /\ ring' = ring /\ held' = held /\ released' = released /\ owed' = owed
      /\ UNCHANGED slotVars
  BY DEF TimerFires, pollVars, envVars
<1>3. PICK to \in {"enqueue", "dropped"} : Goto(Spawner, to) BY DEF TimerFires
<1>4. to \in QueuedPc \cup PollPc \cup OtherPc BY DEF OtherPc, QueuedPc
<1>5. Spawner \in Threads /\ Spawner \notin Sources /\ Spawner \notin Pollers BY ThreadFacts
<1>6. /\ fpc' \in [Threads -> QueuedPc \cup PollPc \cup OtherPc]
      /\ \A u \in Threads : fpc'[u] = IF u = Spawner THEN to ELSE fpc[u]
  BY <1>1, <1>3, <1>4, <1>5, OneMoves
<1>7. state = "SCHEDULED" /\ ~released /\ ring = 0 /\ \A u \in Threads : u # Spawner => ~Claiming(u)
  <2>1. Claiming(Spawner) BY <1>2 DEF Claiming, QueuedPc
  <2> QED BY <2>1, <1>1, <1>2, <1>5 DEF TaskTypes, ClaimInv, FutureInv, QueuedPc
<1>8. TaskTypes' BY <1>1, <1>2, <1>5, <1>6, ThreadFacts DEF TaskTypes, PollPc
<1>9. \A u \in Threads : u # Spawner => fpc'[u] \notin QueuedPc \cup PollPc /\ fpc'[u] = fpc[u]
  BY <1>6, <1>7 DEF Claiming
<1>10. fpc'[Spawner] \in {"enqueue", "dropped"} BY <1>5, <1>6
<1>11. \A u \in Threads : fpc[u] # "unrun_future" BY <1>1, <1>7 DEF ClaimInv
<1>12. ClaimInv'
  <2>1. \A u \in Threads : fpc'[u] \notin PollPc /\ fpc'[u] # "again" /\ fpc'[u] # "unrun_future"
    BY <1>9, <1>10, <1>11 DEF PollPc
  <2>2. \A u \in Threads : fpc'[u] \in QueuedPc => u = Spawner BY <1>9
  <2>3. state' = "SCHEDULED" /\ ring' = 0 BY <1>2, <1>7
  <2>4. fpc'[Spawner] \in QueuedPc \/ fpc'[Spawner] = "dropped" BY <1>10 DEF QueuedPc
  <2> QED BY <2>1, <2>2, <2>3, <2>4, <1>5 DEF ClaimInv, Claiming, Running
<1>13. FutureInv' BY <1>1, <1>2, <1>6, <1>7 DEF FutureInv
<1>14. WakeInv' BY <1>2, <1>7 DEF WakeInv
<1> QED BY <1>1, <1>2, <1>8, <1>12, <1>13, <1>14, SlotKept DEF TaskInv

\* The last holder drops the task: nobody has a claim, nobody gets one.
LEMMA DropKeeps ==
    ASSUME TaskInv, DropTask
    PROVE  TaskInv'
<1>1. TaskTypes /\ SlotInv /\ ClaimInv /\ FutureInv /\ WakeInv BY DEF TaskInv
<1>2. /\ ring = 0 /\ held = {} /\ \A t \in Threads : fpc[t] \in {"idle", "left", "upgrade", "dropped"}
      /\ released' = TRUE /\ finalize("cancelled") /\ future' = "gone"
      /\ state' = state /\ ring' = ring /\ fpc' = fpc /\ held' = held /\ owed' = owed
  BY DEF DropTask, Unreachable
<1>3. TaskTypes' BY <1>1, <1>2 DEF TaskTypes
<1>4. SlotInv' BY <1>1, <1>2 DEF SlotInv, finalize, slotVars
<1>5. ClaimInv' BY <1>1, <1>2 DEF ClaimInv, Claiming
<1>6. FutureInv' BY <1>2 DEF FutureInv
<1>7. WakeInv' BY <1>2 DEF WakeInv
<1> QED BY <1>3, <1>4, <1>5, <1>6, <1>7 DEF TaskInv

-----------------------------------------------------------------------------
\* The spawn is the first claim.
LEMMA TaskInitHolds ==
    ASSUME TaskInit
    PROVE  TaskInv
<1>1. PICK first \in {"timer", "enqueue"} :
      /\ state = "SCHEDULED" /\ future = "here" /\ ring = 0 /\ held = {} /\ result = "none"
      /\ finalized = FALSE /\ released = FALSE
      /\ fpc = [t \in Threads |-> IF t = Spawner THEN first ELSE "idle"]
  BY DEF TaskInit
<1>2. first \in QueuedPc BY <1>1 DEF QueuedPc
<1>3. \A t \in Threads : fpc[t] = IF t = Spawner THEN first ELSE "idle" BY <1>1
<1>4. "idle" \notin QueuedPc \cup PollPc /\ "idle" \in OtherPc BY DEF QueuedPc, PollPc, OtherPc
<1>5. first \notin PollPc /\ first # "unrun_future" /\ first # "dropped" BY <1>2 DEF QueuedPc, PollPc
<1>6. TaskTypes
  <2>1. fpc \in [Threads -> QueuedPc \cup PollPc \cup OtherPc] BY <1>1, <1>2, <1>4
  <2> QED BY <2>1, <1>1, <1>2, <1>3, <1>4, <1>5 DEF TaskTypes, States
<1>7. SlotInv BY <1>1 DEF SlotInv
<1>8. ClaimInv
  <2>1. \A t \in Threads : fpc[t] \notin PollPc /\ fpc[t] # "again" /\ fpc[t] # "unrun_future"
    BY <1>3, <1>4, <1>5 DEF PollPc
  <2>2. \A t \in Threads : fpc[t] \in QueuedPc => t = Spawner BY <1>3, <1>4
  <2>3. Spawner \in Threads /\ fpc[Spawner] \in QueuedPc BY <1>2, <1>3, ThreadFacts
  <2> QED BY <2>1, <2>2, <2>3, <1>1 DEF ClaimInv, Claiming, Running
<1>9. FutureInv BY <1>1 DEF FutureInv
<1>10. WakeInv BY <1>1 DEF WakeInv
<1> QED BY <1>6, <1>7, <1>8, <1>9, <1>10 DEF TaskInv

\* The claim on a task has one place through every step of the workers, the
\* sources, the timer, an abort and the band's shutdown: the state word names
\* it, the future is there for it, no wake is lost on it.
THEOREM TaskInvariant == TaskSpec => []TaskInv
<1>1. TaskInit => TaskInv BY TaskInitHolds
<1>2. TaskInv /\ [TaskNext]_taskVars => TaskInv'
  <2> SUFFICES ASSUME TaskInv, [TaskNext]_taskVars PROVE TaskInv' OBVIOUS
  <2>1. CASE TaskNext
    <3>1. ASSUME NEW t \in Threads, ThreadStep(t) PROVE TaskInv'
      BY <3>1, TaskScheduleKeeps, EnqueueKeeps, PushKeeps, UnrunKeeps, PublishKeeps DEF ThreadStep
    <3>2. ASSUME NEW w \in Pollers, WorkerStep(w) PROVE TaskInv'
      BY <3>2, ClaimKeeps, TaskPollKeeps, DoneKeeps, ReleaseKeeps, OutsideKeeps DEF WorkerStep
    <3>3. ASSUME NEW w \in Pollers, PollEnd(w) PROVE TaskInv' BY <3>3, TaskPollKeeps DEF PollEnd
    <3>4. ASSUME NEW w \in Pollers, NEW s \in Sources, Await(w, s) PROVE TaskInv' BY <3>4, RestKeeps
    <3>5. ASSUME NEW s \in Sources, Wake(s) \/ DropWaker(s) PROVE TaskInv'
      BY <3>5, OutsideKeeps, RestKeeps
    <3>6. CASE TimerFires BY <3>6, TimerKeeps
    <3>7. CASE Abort \/ Upgrade BY <3>7, OutsideKeeps
    <3>8. CASE ShutDownBand \/ JoinPoll \/ WakeJoiner BY <3>8, RestKeeps
    <3>9. CASE DropTask BY <3>9, DropKeeps
    <3> QED BY <2>1, <3>1, <3>2, <3>3, <3>4, <3>5, <3>6, <3>7, <3>8, <3>9 DEF TaskNext
  <2>2. CASE UNCHANGED taskVars
    <3>1. UNCHANGED <<fpc, state, future, ring, released, owed, finalized, result, held>> BY <2>2 DEF taskVars
    <3>2. held \subseteq Sources /\ \A s \in held : fpc[s] = "idle" BY DEF TaskInv, TaskTypes
    <3> QED BY <3>1, <3>2, AsideKeeps
  <2> QED BY <2>1, <2>2
<1> QED BY <1>1, <1>2, PTL DEF TaskSpec

\* A worker leaves only an empty ring of a band shut down, so an entry has a
\* worker to take it, unless it was pushed on a band shut down.
AttendInv ==
    /\ late => down
    /\ \A w \in Pollers : fpc[w] = "left" => down
    /\ ring > 0 /\ ~late => \E w \in Pollers : fpc[w] # "left"

\* A step that puts no entry on the ring and takes no worker off it.
LEMMA StaysAttended ==
    ASSUME AttendInv, fpc \in [Threads -> TaskPc], ring \in {0, 1}, late' = late, down => down',
           ring' \in {0, ring},
           \/ UNCHANGED fpc
           \/ \E t \in Threads : \E to : to # "left" /\ fpc' = [fpc EXCEPT ![t] = to]
    PROVE  AttendInv'
<1>1. \A w \in Pollers : fpc'[w] = "left" => fpc[w] = "left" BY ThreadFacts
<1>2. ring' > 0 => ring > 0 OBVIOUS
<1> QED BY <1>1, <1>2 DEF AttendInv

\* The claim's entry is attended through every step: the push of a band that is
\* up finds every worker there.
THEOREM EntryAttended == TaskSpec => []AttendInv
<1>1. TaskInit => AttendInv BY DEF TaskInit, AttendInv, Threads
<1>2. TaskInv /\ AttendInv /\ [TaskNext]_taskVars => AttendInv'
  <2> SUFFICES ASSUME TaskInv, AttendInv, [TaskNext]_taskVars PROVE AttendInv' OBVIOUS
  <2>1. fpc \in [Threads -> TaskPc] /\ ring \in {0, 1} BY DEF TaskInv, TaskTypes, TaskPc
  <2>2. ASSUME NEW t \in Threads, ThreadStep(t) PROVE AttendInv'
    <3>1. CASE Push(t)
      <4>1. fpc' = [fpc EXCEPT ![t] = "idle"] /\ late' = down /\ down' = down BY <3>1 DEF Push, Goto
      <4>2. \A w \in Pollers : fpc'[w] = "left" => fpc[w] = "left" BY <4>1, <2>1, ThreadFacts
      <4>3. CASE down BY <4>1, <4>3 DEF AttendInv
      <4>4. CASE ~down
        <5>1. \A w \in Pollers : fpc'[w] # "left" BY <4>2, <4>4 DEF AttendInv
        <5> QED BY <5>1, <4>1, TaskBounds DEF AttendInv
      <4> QED BY <4>3, <4>4
    <3>2. CASE schedule(t) \/ Enqueue(t) \/ Unrun(t) \/ UnrunFuture(t) \/ Publish(t)
      <4>1. late' = late /\ down' = down /\ ring' = ring
        BY <3>2 DEF schedule, Enqueue, Unrun, UnrunFuture, Publish, envVars
      <4>2. \E to : to # "left" /\ fpc' = [fpc EXCEPT ![t] = to]
        BY <3>2 DEF schedule, Enqueue, Unrun, UnrunFuture, Publish, Goto
      <4> QED BY <4>1, <4>2, <2>1, StaysAttended
    <3> QED BY <2>2, <3>1, <3>2 DEF ThreadStep
  <2>3. ASSUME NEW w \in Pollers, WorkerStep(w) PROVE AttendInv'
    <3>1. CASE LeaveBand(w)
      <4>1. ring' = 0 /\ late' = late /\ down /\ down' = down BY <3>1 DEF LeaveBand, envVars
      <4> QED BY <4>1 DEF AttendInv
    <3>2. CASE Claim(w) \/ Take(w) \/ Look(w) \/ Done(w) \/ Release(w) \/ Again(w)
      <4>1. late' = late /\ down' = down
        BY <3>2 DEF Claim, Take, Look, Done, Release, Again, envVars
      <4>2. ring' \in {0, ring} BY <3>2, <2>1 DEF Claim, Take, Look, Done, Release, Again
      <4>3. \E to : to # "left" /\ fpc' = [fpc EXCEPT ![w] = to]
        BY <3>2 DEF Claim, Take, Look, Done, Release, Again, Goto
      <4> QED BY <4>1, <4>2, <4>3, <2>1, StaysAttended, ThreadFacts
    <3> QED BY <2>3, <3>1, <3>2 DEF WorkerStep
  <2>4. ASSUME NEW w \in Pollers, PollEnd(w) PROVE AttendInv'
    <3>1. late' = late /\ down' = down /\ ring' = ring BY <2>4 DEF PollEnd, Complete, PutBack, envVars
    <3>2. \E to : to # "left" /\ fpc' = [fpc EXCEPT ![w] = to]
      BY <2>4 DEF PollEnd, Complete, PutBack, Goto
    <3> QED BY <3>1, <3>2, <2>1, StaysAttended, ThreadFacts
  <2>5. ASSUME \/ \E w \in Pollers, s \in Sources : Await(w, s)
               \/ \E s \in Sources : DropWaker(s)
               \/ ShutDownBand \/ DropTask \/ JoinPoll \/ WakeJoiner \/ UNCHANGED taskVars
        PROVE  AttendInv'
    <3>1. UNCHANGED <<fpc, ring, late>> /\ (down => down')
      BY <2>5 DEF Await, DropWaker, ShutDownBand, DropTask, JoinPoll, WakeJoiner, taskVars, envVars
    <3> QED BY <3>1, <2>1, StaysAttended
  <2>6. ASSUME NEW s \in Sources, Wake(s) PROVE AttendInv'
    <3>1. late' = late /\ down' = down /\ ring' = ring /\ fpc' = [fpc EXCEPT ![s] = "schedule"]
      BY <2>6 DEF Wake, Goto
    <3> QED BY <3>1, <2>1, StaysAttended, ThreadFacts
  <2>7. ASSUME TimerFires \/ Abort \/ Upgrade PROVE AttendInv'
    <3>1. late' = late /\ down' = down /\ ring' = ring BY <2>7 DEF TimerFires, Abort, Upgrade, envVars
    <3>2. \E t \in {Spawner, Aborter} : \E to : to # "left" /\ fpc' = [fpc EXCEPT ![t] = to]
      BY <2>7 DEF TimerFires, Abort, Upgrade, Goto
    <3> QED BY <3>1, <3>2, <2>1, StaysAttended, ThreadFacts
  <2> QED BY <2>2, <2>3, <2>4, <2>5, <2>6, <2>7 DEF TaskNext
<1> QED BY <1>1, <1>2, TaskInvariant, PTL DEF TaskSpec

\* A set whose members are all the same has none or one.
LEMMA NoneOrOne ==
    ASSUME NEW S, \A x, y \in S : x = y
    PROVE  Cardinality(S) = IF S = {} THEN 0 ELSE 1
<1>1. CASE S = {} BY <1>1, FS_EmptySet
<1>2. CASE S # {}
  <2>1. PICK x \in S : TRUE BY <1>2
  <2>2. S = {x} BY <2>1
  <2> QED BY <1>2, <2>2, FS_Singleton
<1> QED BY <1>1, <1>2

\* A task is claimed once: whatever wakes, aborts and shutdowns cross, it is in
\* one place that will poll or cancel it, who claims its poll finds the future
\* (`poll_once` never gives a task up for want of it), and no wake of it is lost.
\* Only an entry that `schedule_task` pushed after the shutdown, having tested
\* for it before, may be on a ring that every worker has left.
THEOREM TaskClaimedOnce == TaskSpec => []TasksClaimed
<1>1. TaskInv /\ AttendInv => TasksClaimed
  <2> SUFFICES ASSUME TaskInv, AttendInv PROVE TasksClaimed OBVIOUS
  <2> DEFINE Q == {t \in Threads : fpc[t] \in {"timer", "enqueue", "push", "unrun"}}
             P == {w \in Pollers : Polling(w)}
  <2>1. TaskTypes /\ SlotInv /\ ClaimInv /\ FutureInv /\ WakeInv BY DEF TaskInv
  <2>2. TaskTypeOK BY <2>1 DEF TaskTypeOK, TaskTypes, SlotInv
  <2>3. \A t \in Q : t \in Threads /\ fpc[t] \in QueuedPc /\ Claiming(t) BY DEF QueuedPc, Claiming
  <2>4. \A t \in P : t \in Threads /\ fpc[t] \in PollPc /\ Claiming(t)
    BY DEF PollPc, Claiming, Polling, Threads
  <2>5. \A t, u \in Q \cup P : t = u BY <2>1, <2>3, <2>4 DEF ClaimInv
  <2>6. ring = 1 => Q = {} /\ P = {} BY <2>1, <2>3, <2>4 DEF ClaimInv
  <2>7. \A t \in Q \cap P : FALSE BY <2>3, <2>4 DEF QueuedPc, PollPc
  <2>8. Q = {} \/ P = {} BY <2>5, <2>7
  <2>9. Claims = ring + Cardinality(Q) + Cardinality(P) BY DEF Claims
  <2>10. \A w \in Threads : fpc[w] \in PollPc => w \in P BY <2>1 DEF TaskTypes, PollPc, Polling
  <2>11. \A w \in Threads : fpc[w] \in QueuedPc => w \in Q BY DEF QueuedPc
  <2>12. (state = "SCHEDULED" /\ ~released /\ fpc[Spawner] # "dropped") => ring = 1 \/ Q # {}
    BY <2>1, <2>11 DEF ClaimInv, TaskTypes
  <2>13. state \in Running => P # {} BY <2>1, <2>10 DEF ClaimInv
  <2>14. ring \in {0, 1} BY <2>1 DEF TaskTypes
  <2> HIDE DEF Q, P
  <2>15. Cardinality(Q) = (IF Q = {} THEN 0 ELSE 1) /\ Cardinality(P) = (IF P = {} THEN 0 ELSE 1)
    BY <2>5, NoneOrOne
  <2>16. Claims <= 1 BY <2>6, <2>8, <2>9, <2>14, <2>15
  <2>17. (ring = 1 \/ Q # {}) => Claims = 1 BY <2>6, <2>8, <2>9, <2>14, <2>15
  <2>20. Stranded => down /\ late BY DEF Stranded, AttendInv
  <2>18. OneClaim BY <2>12, <2>13, <2>16, <2>17, <2>20 DEF OneClaim, P, Running
  <2>19. FutureThere BY <2>1, ThreadFacts DEF FutureThere, FutureInv
  <2>21. NoLostWake BY <2>1 DEF WakeInv, NoLostWake
  <2> QED BY <2>2, <2>18, <2>19, <2>21 DEF TasksClaimed
<1> QED BY <1>1, TaskInvariant, EntryAttended, PTL

\* The first outcome stands: after a task's end, its abort or its drop, no
\* later cancel or drop (`Shared::finalize` again) changes what a joiner reads.
THEOREM OutcomeKept == TaskSpec => OutcomeStands
<1>1. [TaskNext]_taskVars => [finalized => result' = result]_taskVars
  <2> SUFFICES ASSUME [TaskNext]_taskVars, finalized PROVE result' = result BY DEF taskVars
  <2>1. CASE UNCHANGED taskVars BY <2>1 DEF taskVars
  <2>2. ASSUME NEW t \in Threads, ThreadStep(t) PROVE result' = result
    BY <2>2 DEF ThreadStep, schedule, Enqueue, Push, Unrun, UnrunFuture, Publish, finalize, slotVars
  <2>3. ASSUME NEW w \in Pollers, WorkerStep(w) PROVE result' = result
    BY <2>3 DEF WorkerStep, Claim, Take, Look, Done, Release, Again, LeaveBand, slotVars
  <2>4. ASSUME NEW w \in Pollers, PollEnd(w) \/ \E s \in Sources : Await(w, s) PROVE result' = result
    BY <2>4 DEF PollEnd, Complete, PutBack, Await, slotVars
  <2>5. ASSUME NEW s \in Sources, Wake(s) \/ DropWaker(s) PROVE result' = result
    BY <2>5 DEF Wake, DropWaker, slotVars
  <2>6. CASE TimerFires \/ Abort \/ Upgrade \/ ShutDownBand BY <2>6 DEF TimerFires, Abort, Upgrade, ShutDownBand, slotVars
  <2>7. CASE DropTask \/ JoinPoll \/ WakeJoiner BY <2>7 DEF DropTask, JoinPoll, WakeJoiner, finalize, slotVars
  <2> QED BY <2>1, <2>2, <2>3, <2>4, <2>5, <2>6, <2>7 DEF TaskNext
<1> QED BY <1>1, PTL DEF TaskSpec, OutcomeStands

-----------------------------------------------------------------------------
(* The stopping of a band (BandStop): what the word counts.                *)

\* T[n] is what the first n workers have run.
SumOf(T) ==
    /\ T \in [0 .. NumWorkers -> Nat] /\ T[0] = 0
    /\ \A w \in Workers : T[w] = T[w - 1] + finished[w]

\* The requesters the word counts, and those with a ring slot.
CountedPc == {"refuse", "slot", "claim", "publish"}
SlottedPc == {"claim", "publish"}
BusyPc == {"first", "second", "finish"}
In(f, S, P) == {x \in S : f[x].pc \in P}
One(v, P) == IF v.pc \in P THEN 1 ELSE 0
SameBut(f, g, S, s) == \A x \in S : x # s => g[x] = f[x]

\* The word counts what was run, waits, runs or is being placed, and more once a
\* shut-down queue was dropped; a seal's sum is no more than what was run.
Counted ==
    \E T : /\ SumOf(T)
           /\ count >= T[NumWorkers] + Len(entries) + Cardinality(In(req, Requesters, CountedPc))
                                     + Cardinality(In(wrk, Workers, BusyPc))
           /\ \A s \in Sealers : seal[s].slot > 0 => seal[s].sum <= T[seal[s].slot - 1]

\* The slots out are the entries' and those of requesters yet to publish.
SlotsOut == used = Len(entries) + Cardinality(In(req, Requesters, SlottedPc))

\* Who has the run a cell is marked queued for: an entry, a requester, a worker.
AtEntry(c, i) == i \in DOMAIN entries /\ entries[i] = c
AtReq(c, r) == r \in Requesters /\ req[r] = [pc |-> "publish", on |-> c]
AtWrk(c, w) == w \in Workers /\ wrk[w] = [pc |-> "first", on |-> c]

\* A cell is marked exactly while one of them has its run.
MarkedOnce(c) ==
    /\ \A i : AtEntry(c, i) => queued[c] /\ \A j : AtEntry(c, j) => j = i
    /\ \A r : AtReq(c, r) => queued[c] /\ \A x : AtReq(c, x) => x = r
    /\ \A w : AtWrk(c, w) => queued[c] /\ \A x : AtWrk(c, x) => x = w
    /\ \A i, r : ~(AtEntry(c, i) /\ AtReq(c, r))
    /\ \A i, w : ~(AtEntry(c, i) /\ AtWrk(c, w))
    /\ \A r, w : ~(AtReq(c, r) /\ AtWrk(c, w))
    /\ queued[c] => (\E i : AtEntry(c, i)) \/ (\E r : AtReq(c, r)) \/ (\E w : AtWrk(c, w))

\* A worker that seals has no entry in hand.
SealIdle == \A w \in Workers : seal[w] # NoSeal => wrk[w] = Idle

BandInv ==
    /\ BandTypeOK /\ Counted /\ SlotsOut /\ SealIdle /\ SealedIsDrained
    /\ \A c \in Cells : MarkedOnce(c)

\* How many are at a step, as one of them moves.
LEMMA MoveCounts ==
    ASSUME NEW S, IsFiniteSet(S), NEW f, NEW g, NEW s \in S, SameBut(f, g, S, s), NEW P
    PROVE  /\ Cardinality(In(f, S, P)) \in Nat /\ Cardinality(In(g, S, P)) \in Nat
           /\ Cardinality(In(g, S, P)) + One(f[s], P)
                = Cardinality(In(f, S, P)) + One(g[s], P)
<1> DEFINE A == In(f, S, P)
           B == In(g, S, P)
           C == A \ {s}
<1>2. IsFiniteSet(A) /\ IsFiniteSet(B) BY FS_Subset DEF In
<1>3. IsFiniteSet(C) /\ s \notin C BY <1>2, FS_Subset
<1>4. Cardinality(A) \in Nat /\ Cardinality(B) \in Nat /\ Cardinality(C) \in Nat
    BY <1>2, <1>3, FS_CardinalityType
<1>5. A = IF f[s].pc \in P THEN C \cup {s} ELSE C BY DEF In
<1>6. B = IF g[s].pc \in P THEN C \cup {s} ELSE C BY DEF In, SameBut
<1>7. Cardinality(C \cup {s}) = Cardinality(C) + 1 BY <1>3, FS_AddElement
<1> HIDE DEF A, B, C
<1>8. Cardinality(A) = Cardinality(C) + One(f[s], P)
  <2>1. CASE f[s].pc \in P BY <1>5, <1>7, <2>1 DEF One
  <2>2. CASE f[s].pc \notin P BY <1>4, <1>5, <2>2 DEF One
  <2> QED BY <2>1, <2>2
<1>9. Cardinality(B) = Cardinality(C) + One(g[s], P)
  <2>1. CASE g[s].pc \in P BY <1>6, <1>7, <2>1 DEF One
  <2>2. CASE g[s].pc \notin P BY <1>4, <1>6, <2>2 DEF One
  <2> QED BY <2>1, <2>2
<1>10. Cardinality(B) + One(f[s], P) = Cardinality(A) + One(g[s], P)
    BY <1>4, <1>8, <1>9 DEF One
<1> QED BY <1>4, <1>10 DEF A, B

Waits == Len(entries)
ReqsIn(P) == Cardinality(In(req, Requesters, P))
WrksIn(P) == Cardinality(In(wrk, Workers, P))

\* The numbers are numbers.
LEMMA BandNumbers ==
    ASSUME BandTypeOK, NEW P
    PROVE  /\ Waits \in Nat /\ ReqsIn(P) \in Nat /\ WrksIn(P) \in Nat /\ count \in Nat
           /\ IsFiniteSet(Workers) /\ NumWorkers \in Nat /\ NumWorkers > 0
<1>1. NumWorkers \in Nat /\ NumWorkers > 0 BY BandBounds
<1>2. IsFiniteSet(Workers) BY <1>1, FS_Interval DEF Workers
<1>3. IsFiniteSet(In(req, Requesters, P)) /\ IsFiniteSet(In(wrk, Workers, P))
    BY <1>2, BandBounds, FS_Subset DEF In
<1>4. ReqsIn(P) \in Nat /\ WrksIn(P) \in Nat BY <1>3, FS_CardinalityType DEF ReqsIn, WrksIn
<1>5. Waits \in Nat BY LenProperties DEF BandTypeOK, Waits
<1> QED BY <1>1, <1>2, <1>4, <1>5 DEF BandTypeOK

\* One requester moves.
LEMMA ReqMoves ==
    ASSUME BandTypeOK, NEW r \in Requesters, NEW v, req' = [req EXCEPT ![r] = v], NEW P
    PROVE  /\ ReqsIn(P) \in Nat /\ ReqsIn(P)' \in Nat
           /\ ReqsIn(P)' + One(req[r], P) = ReqsIn(P) + One(v, P)
<1>1. IsFiniteSet(Requesters) /\ DOMAIN req = Requesters BY BandBounds DEF BandTypeOK
<1> DEFINE f == req
           g == req'
<1>2. g[r] = v /\ SameBut(f, g, Requesters, r) BY <1>1 DEF SameBut
<1> HIDE DEF f, g
<1>3. /\ Cardinality(In(f, Requesters, P)) \in Nat /\ Cardinality(In(g, Requesters, P)) \in Nat
      /\ Cardinality(In(g, Requesters, P)) + One(f[r], P)
           = Cardinality(In(f, Requesters, P)) + One(g[r], P)
    BY <1>1, <1>2, MoveCounts
<1> QED BY <1>2, <1>3 DEF ReqsIn, f, g

\* One worker moves.
LEMMA WrkMoves ==
    ASSUME BandTypeOK, NEW w \in Workers, NEW v, wrk' = [wrk EXCEPT ![w] = v], NEW P
    PROVE  /\ WrksIn(P) \in Nat /\ WrksIn(P)' \in Nat
           /\ WrksIn(P)' + One(wrk[w], P) = WrksIn(P) + One(v, P)
<1>1. IsFiniteSet(Workers) /\ DOMAIN wrk = Workers BY BandNumbers DEF BandTypeOK
<1> DEFINE f == wrk
           g == wrk'
<1>2. g[w] = v /\ SameBut(f, g, Workers, w) BY <1>1 DEF SameBut
<1> HIDE DEF f, g
<1>3. /\ Cardinality(In(f, Workers, P)) \in Nat /\ Cardinality(In(g, Workers, P)) \in Nat
      /\ Cardinality(In(g, Workers, P)) + One(f[w], P)
           = Cardinality(In(f, Workers, P)) + One(g[w], P)
    BY <1>1, <1>2, MoveCounts
<1> QED BY <1>2, <1>3 DEF WrksIn, f, g

\* A step in which the word keeps up with what waits, runs or is placed.
LEMMA CountKept ==
    ASSUME BandTypeOK, Counted, finished' = finished, seal' = seal,
           count' \in Nat, Waits' \in Nat, ReqsIn(CountedPc)' \in Nat, WrksIn(BusyPc)' \in Nat,
           count' + Waits + ReqsIn(CountedPc) + WrksIn(BusyPc)
               >= count + Waits' + ReqsIn(CountedPc)' + WrksIn(BusyPc)'
    PROVE  Counted'
<1>1. PICK T : /\ SumOf(T)
               /\ count >= T[NumWorkers] + Waits + ReqsIn(CountedPc) + WrksIn(BusyPc)
               /\ \A s \in Sealers : seal[s].slot > 0 => seal[s].sum <= T[seal[s].slot - 1]
    BY DEF Counted, Waits, ReqsIn, WrksIn
<1>2. SumOf(T)' BY <1>1 DEF SumOf, Workers
<1>3. NumWorkers \in 0 .. NumWorkers BY BandNumbers
<1>4. T[NumWorkers] \in Nat BY <1>1, <1>3 DEF SumOf
<1>5. Waits \in Nat /\ ReqsIn(CountedPc) \in Nat /\ WrksIn(BusyPc) \in Nat /\ count \in Nat
    BY BandNumbers
<1>6. count' >= T[NumWorkers] + Waits' + ReqsIn(CountedPc)' + WrksIn(BusyPc)' BY <1>1, <1>4, <1>5
<1> QED BY <1>1, <1>2, <1>6 DEF Counted, Waits, ReqsIn, WrksIn

\* The runs of a cell are where they were.
LEMMA MarksKept ==
    ASSUME NEW c, MarkedOnce(c), queued'[c] = queued[c],
           \A i : AtEntry(c, i)' <=> AtEntry(c, i),
           \A r : AtReq(c, r)' <=> AtReq(c, r),
           \A w : AtWrk(c, w)' <=> AtWrk(c, w)
    PROVE  MarkedOnce(c)'
BY DEF MarkedOnce

\* A requester that moves, from and to a step at which it has no run, changes
\* no cell's runs.
LEMMA ReqApart ==
    ASSUME BandTypeOK, NEW r \in Requesters, NEW v, req' = [req EXCEPT ![r] = v],
           req[r].pc # "publish", v.pc # "publish", NEW c
    PROVE  \A x : AtReq(c, x)' <=> AtReq(c, x)
<1>1. DOMAIN req = Requesters BY DEF BandTypeOK
<1> SUFFICES ASSUME NEW x \in Requesters PROVE AtReq(c, x)' <=> AtReq(c, x) BY DEF AtReq
<1> DEFINE p == [pc |-> "publish", on |-> c]
<1>2. p.pc = "publish" OBVIOUS
<1> HIDE DEF p
<1>3. req[r] # p /\ v # p BY <1>2
<1>4. CASE x = r BY <1>1, <1>3, <1>4 DEF AtReq, p
<1>5. CASE x # r BY <1>1, <1>5 DEF AtReq
<1> QED BY <1>4, <1>5

\* The same of a worker.
LEMMA WrkApart ==
    ASSUME BandTypeOK, NEW w \in Workers, NEW v, wrk' = [wrk EXCEPT ![w] = v],
           wrk[w].pc # "first", v.pc # "first", NEW c
    PROVE  \A x : AtWrk(c, x)' <=> AtWrk(c, x)
<1>1. DOMAIN wrk = Workers BY DEF BandTypeOK
<1> SUFFICES ASSUME NEW x \in Workers PROVE AtWrk(c, x)' <=> AtWrk(c, x) BY DEF AtWrk, Workers
<1> DEFINE p == [pc |-> "first", on |-> c]
<1>2. p.pc = "first" OBVIOUS
<1> HIDE DEF p
<1>3. wrk[w] # p /\ v # p BY <1>2
<1>4. CASE x = w BY <1>1, <1>3, <1>4 DEF AtWrk, p, Workers
<1>5. CASE x # w BY <1>1, <1>5 DEF AtWrk, Workers
<1> QED BY <1>4, <1>5

\* The sealed stay drained when what there is to drain does not grow.
LEMMA DrainedKept ==
    ASSUME SealedIsDrained,
           band_state' = "STOPPED" /\ ~byOwn' => band_state = "STOPPED" /\ ~byOwn,
           band_state = "STOPPED" /\ ~byOwn /\ entries = <<>> /\ Busy = {} /\ Accepted = {} =>
               entries' = <<>> /\ Busy' = {} /\ Accepted' = {}
    PROVE  SealedIsDrained'
BY DEF SealedIsDrained

\* A requester's place.
LEMMA ReqFacts ==
    ASSUME BandTypeOK, NEW r \in Requesters
    PROVE  /\ req[r].pc \in {"idle", "admit", "refuse", "slot", "claim", "publish"} /\ req[r].on \in Target
           /\ req[r] = [pc |-> req[r].pc, on |-> req[r].on] /\ DOMAIN req = Requesters
BY DEF BandTypeOK

\* A requester moves between steps at which it has no run of a cell, and the
\* word follows.
LEMMA ReqGoes ==
    ASSUME BandInv, NEW r \in Requesters, NEW v, req' = [req EXCEPT ![r] = v], BandTypeOK',
           req[r].pc # "publish", v.pc # "publish",
           count' + One(req[r], CountedPc) >= count + One(v, CountedPc),
           used' + One(req[r], SlottedPc) = used + One(v, SlottedPc),
           v.pc \in {"slot", "claim"} => req[r].pc \in {"slot", "claim"}
                                          \/ ~(band_state = "STOPPED" /\ ~byOwn),
           UNCHANGED <<band_state, finished, entries, queued, wrk, seal, byOwn>>
    PROVE  BandInv'
<1>1. /\ BandTypeOK /\ Counted /\ SlotsOut /\ SealIdle /\ SealedIsDrained
      /\ \A c \in Cells : MarkedOnce(c)
    BY DEF BandInv
<1>2. One(req[r], CountedPc) \in Nat /\ One(v, CountedPc) \in Nat
      /\ One(req[r], SlottedPc) \in Nat /\ One(v, SlottedPc) \in Nat
    BY DEF One
<1>3. /\ ReqsIn(CountedPc) \in Nat /\ ReqsIn(CountedPc)' \in Nat
      /\ ReqsIn(CountedPc)' + One(req[r], CountedPc) = ReqsIn(CountedPc) + One(v, CountedPc)
    BY <1>1, ReqMoves
<1>4. /\ ReqsIn(SlottedPc) \in Nat /\ ReqsIn(SlottedPc)' \in Nat
      /\ ReqsIn(SlottedPc)' + One(req[r], SlottedPc) = ReqsIn(SlottedPc) + One(v, SlottedPc)
    BY <1>1, ReqMoves
<1>5. Waits \in Nat /\ WrksIn(BusyPc) \in Nat /\ count \in Nat BY <1>1, BandNumbers
<1>6. Waits' = Waits /\ WrksIn(BusyPc)' = WrksIn(BusyPc) BY DEF Waits, WrksIn, In, Workers
<1>7. count' \in Nat /\ used \in Nat /\ used' \in Nat BY <1>1, BandBounds DEF BandTypeOK
<1>8. Counted'
  <2>1. count' + Waits + ReqsIn(CountedPc) + WrksIn(BusyPc)
          >= count + Waits' + ReqsIn(CountedPc)' + WrksIn(BusyPc)'
      BY <1>2, <1>3, <1>5, <1>6, <1>7
  <2>2. Waits' \in Nat /\ WrksIn(BusyPc)' \in Nat BY <1>5, <1>6
  <2> QED BY <1>1, <1>3, <1>7, <2>1, <2>2, CountKept
<1>9. SlotsOut'
  <2>1. used = Waits + ReqsIn(SlottedPc) BY <1>1 DEF SlotsOut, Waits, ReqsIn
  <2>2. used' = Waits' + ReqsIn(SlottedPc)' BY <1>2, <1>4, <1>5, <1>6, <1>7, <2>1
  <2> QED BY <2>2 DEF SlotsOut, Waits, ReqsIn
<1>10. SealIdle' BY <1>1 DEF SealIdle, Workers
<1>11. SealedIsDrained'
  <2>1. Busy' = Busy BY DEF Busy, Workers
  <2>2. band_state = "STOPPED" /\ ~byOwn /\ Accepted = {} => Accepted' = {}
    <3> SUFFICES ASSUME band_state = "STOPPED", ~byOwn, Accepted = {}, NEW x \in Requesters,
                        req'[x].pc \in {"slot", "claim", "publish"}
                 PROVE  FALSE
        BY DEF Accepted
    <3>1. \A z \in Requesters : req[z].pc \notin {"slot", "claim", "publish"} BY DEF Accepted
    <3>2. CASE x = r
      <4>1. req'[x] = v BY <1>1, <3>2, ReqFacts
      <4> QED BY <3>1, <4>1
    <3>3. CASE x # r
      <4>1. req'[x] = req[x] BY <1>1, <3>3, ReqFacts
      <4> QED BY <3>1, <4>1
    <3> QED BY <3>2, <3>3
  <2> QED BY <1>1, <2>1, <2>2, DrainedKept
<1>12. ASSUME NEW c \in Cells PROVE MarkedOnce(c)'
  <2>1. \A x : AtReq(c, x)' <=> AtReq(c, x) BY <1>1, ReqApart
  <2>2. \A i : AtEntry(c, i)' <=> AtEntry(c, i) BY DEF AtEntry
  <2>3. \A w : AtWrk(c, w)' <=> AtWrk(c, w) BY DEF AtWrk, Workers
  <2> QED BY <1>1, <2>1, <2>2, <2>3, MarksKept
<1> QED BY <1>8, <1>9, <1>10, <1>11, <1>12 DEF BandInv

\* A requester, or a worker, that goes to another step for what it is on.
LEMMA NextPc ==
    ASSUME BandTypeOK, NEW p
    PROVE  /\ \A r \in Requesters :
                [req EXCEPT ![r].pc = p] = [req EXCEPT ![r] = [pc |-> p, on |-> req[r].on]]
           /\ \A w \in Workers :
                [wrk EXCEPT ![w].pc = p] = [wrk EXCEPT ![w] = [pc |-> p, on |-> wrk[w].on]]
<1> USE DEF BandTypeOK
<1>1. ASSUME NEW r \in Requesters
      PROVE  [req EXCEPT ![r].pc = p] = [req EXCEPT ![r] = [pc |-> p, on |-> req[r].on]]
  <2>1. [req[r] EXCEPT !.pc = p] = [pc |-> p, on |-> req[r].on] OBVIOUS
  <2> QED BY <2>1
<1>2. ASSUME NEW w \in Workers
      PROVE  [wrk EXCEPT ![w].pc = p] = [wrk EXCEPT ![w] = [pc |-> p, on |-> wrk[w].on]]
  <2>1. [wrk[w] EXCEPT !.pc = p] = [pc |-> p, on |-> wrk[w].on] OBVIOUS
  <2> QED BY <2>1
<1> QED BY <1>1, <1>2

\* What a requester's step leaves typed.
LEMMA ReqTyped ==
    ASSUME BandTypeOK, NEW r \in Requesters, NEW p, NEW t \in Target,
           p \in {"idle", "admit", "refuse", "slot", "claim", "publish"},
           req' = [req EXCEPT ![r] = [pc |-> p, on |-> t]],
           count' \in Nat, used' \in 0 .. Capacity, entries' \in Seq(Target),
           queued' \in [Cells -> BOOLEAN], wrote' \in [Cells -> Nat], requests' \in 0 .. MaxRequests,
           UNCHANGED <<band_state, band_down, finished, seen, wrk, seal, stop, byOwn, cycles>>
    PROVE  BandTypeOK'
<1>1. [pc |-> p, on |-> t]
        \in [pc : {"idle", "admit", "refuse", "slot", "claim", "publish"}, on : Target]
    OBVIOUS
<1>2. req' \in [Requesters -> [pc : {"idle", "admit", "refuse", "slot", "claim", "publish"}, on : Target]]
    BY <1>1 DEF BandTypeOK
<1> QED BY <1>2 DEF BandTypeOK, Target, Workers, Sealers, Stopper, BandStates

\* At least one is at the step of a requester or a worker that is there.
LEMMA SomeAt ==
    ASSUME BandTypeOK, NEW P
    PROVE  /\ \A r \in Requesters : req[r].pc \in P => ReqsIn(P) > 0
           /\ \A w \in Workers : wrk[w].pc \in P => WrksIn(P) > 0
<1>1. IsFiniteSet(Workers) BY BandNumbers
<1>2. IsFiniteSet(In(req, Requesters, P)) /\ IsFiniteSet(In(wrk, Workers, P))
    BY <1>1, BandBounds, FS_Subset DEF In
<1>3. ReqsIn(P) \in Nat /\ WrksIn(P) \in Nat BY BandNumbers
<1>4. ReqsIn(P) = 0 => In(req, Requesters, P) = {} BY <1>2, FS_EmptySet DEF ReqsIn
<1>5. WrksIn(P) = 0 => In(wrk, Workers, P) = {} BY <1>2, FS_EmptySet DEF WrksIn
<1>6. ASSUME NEW r \in Requesters, req[r].pc \in P PROVE ReqsIn(P) > 0
  <2>1. In(req, Requesters, P) # {} BY <1>6 DEF In
  <2> QED BY <1>3, <1>4, <2>1
<1>7. ASSUME NEW w \in Workers, wrk[w].pc \in P PROVE WrksIn(P) > 0
  <2>1. In(wrk, Workers, P) # {} BY <1>7 DEF In
  <2> QED BY <1>3, <1>5, <2>1
<1> QED BY <1>6, <1>7

\* The word is not below what it counts.
LEMMA CountBound ==
    ASSUME BandTypeOK, Counted
    PROVE  count >= Waits + ReqsIn(CountedPc) + WrksIn(BusyPc)
<1>1. PICK T : /\ SumOf(T)
               /\ count >= T[NumWorkers] + Waits + ReqsIn(CountedPc) + WrksIn(BusyPc)
    BY DEF Counted, Waits, ReqsIn, WrksIn
<1>2. NumWorkers \in 0 .. NumWorkers BY BandNumbers
<1>3. T[NumWorkers] \in Nat BY <1>1, <1>2 DEF SumOf
<1>4. Waits \in Nat /\ ReqsIn(CountedPc) \in Nat /\ WrksIn(BusyPc) \in Nat /\ count \in Nat
    BY BandNumbers
<1> QED BY <1>1, <1>3, <1>4

\* The steps of a requester up to its claim.
LEMMA WriteKept ==
    ASSUME BandInv, NEW r \in Requesters, NEW t \in Target, Write(r, t)
    PROVE  BandInv'
<1>1. BandTypeOK BY DEF BandInv
<1>2. req[r].pc = "idle" /\ req' = [req EXCEPT ![r] = [pc |-> "admit", on |-> t]]
    BY DEF Write, Idle
<1>3. UNCHANGED <<band_state, band_down, count, finished, entries, used, queued, seen, wrk, seal,
                  stop, byOwn, cycles>>
    BY DEF Write, word, stopVars
<1>4. wrote' \in [Cells -> Nat] BY <1>1 DEF Write, BandTypeOK
<1>5. requests' \in 0 .. MaxRequests BY <1>1, BandBounds DEF Write, BandTypeOK
<1>6. BandTypeOK'
  <2>1. /\ count' \in Nat /\ used' \in 0 .. Capacity /\ entries' \in Seq(Target)
        /\ queued' \in [Cells -> BOOLEAN]
      BY <1>1, <1>3 DEF BandTypeOK
  <2> QED BY <1>1, <1>2, <1>3, <1>4, <1>5, <2>1, ReqTyped
<1> DEFINE v == [pc |-> "admit", on |-> t]
<1>7. v.pc = "admit" OBVIOUS
<1>8. req' = [req EXCEPT ![r] = v] BY <1>2
<1> HIDE DEF v
<1>9. /\ One(req[r], CountedPc) = 0 /\ One(v, CountedPc) = 0
      /\ One(req[r], SlottedPc) = 0 /\ One(v, SlottedPc) = 0
    BY <1>2, <1>7 DEF One, CountedPc, SlottedPc
<1>10. /\ count' + One(req[r], CountedPc) >= count + One(v, CountedPc)
       /\ used' + One(req[r], SlottedPc) = used + One(v, SlottedPc)
    BY <1>1, <1>3, <1>9 DEF BandTypeOK
<1> QED BY <1>2, <1>3, <1>6, <1>7, <1>8, <1>10, ReqGoes

\* A requester goes from step to step, without a run of a cell.
LEMMA ReqSteps ==
    ASSUME BandInv, NEW r \in Requesters, NEW p, NEW t \in Target,
           p \in {"idle", "refuse", "slot", "claim"},
           req' = [req EXCEPT ![r] = [pc |-> p, on |-> t]], req[r].pc # "publish",
           count' \in Nat, used' \in 0 .. Capacity,
           count' + One(req[r], CountedPc) >= count + IF p = "idle" THEN 0 ELSE 1,
           used' + One(req[r], SlottedPc) = used + IF p = "claim" THEN 1 ELSE 0,
           p \in {"slot", "claim"} => req[r].pc = "slot" \/ band_state # "STOPPED",
           UNCHANGED <<band_state, band_down, finished, entries, queued, wrote, seen, wrk, seal,
                       stop, byOwn, requests, cycles>>
    PROVE  BandInv'
<1>1. BandTypeOK BY DEF BandInv
<1>2. BandTypeOK'
  <2>1. /\ wrote' \in [Cells -> Nat] /\ requests' \in 0 .. MaxRequests /\ entries' \in Seq(Target)
        /\ queued' \in [Cells -> BOOLEAN]
      BY <1>1 DEF BandTypeOK
  <2> QED BY <1>1, <2>1, ReqTyped
<1> DEFINE v == [pc |-> p, on |-> t]
<1>3. v.pc = p OBVIOUS
<1>4. req' = [req EXCEPT ![r] = v] OBVIOUS
<1> HIDE DEF v
<1>5. /\ One(v, CountedPc) = IF p = "idle" THEN 0 ELSE 1
      /\ One(v, SlottedPc) = IF p = "claim" THEN 1 ELSE 0
    BY <1>3 DEF One, CountedPc, SlottedPc
<1>6. /\ count' + One(req[r], CountedPc) >= count + One(v, CountedPc)
      /\ used' + One(req[r], SlottedPc) = used + One(v, SlottedPc)
    BY <1>5
<1> QED BY <1>2, <1>3, <1>4, <1>6, ReqGoes

\* A request is counted, or the count of one refused is given back.
LEMMA AdmitKept ==
    ASSUME BandInv, NEW r \in Requesters, admit(r) \/ unadmit(r)
    PROVE  BandInv'
<1>1. BandTypeOK /\ Counted BY DEF BandInv
<1>2. /\ req[r].on \in Target /\ count \in Nat /\ used \in 0 .. Capacity /\ used \in Nat
      /\ NoCell \in Target
    BY <1>1, ReqFacts DEF BandTypeOK, Target
<1>3. UNCHANGED <<band_state, band_down, finished, entries, used, queued, wrote, seen, wrk, seal,
                  stop, byOwn, requests, cycles>>
    BY DEF admit, unadmit, word, stopVars, callbackVars
<1>4. CASE admit(r)
  <2> DEFINE p == IF band_state \in {"INIT", "STOPPED"} \/ band_down THEN "refuse" ELSE "slot"
             t == req[r].on
  <2>1. p \in {"refuse", "slot"} /\ (p = "slot" => band_state # "STOPPED") OBVIOUS
  <2>2. req[r].pc = "admit" /\ req' = [req EXCEPT ![r].pc = p] /\ count' = count + 1
      BY <1>4 DEF admit
  <2> HIDE DEF p
  <2>3. req' = [req EXCEPT ![r] = [pc |-> p, on |-> t]] BY <1>1, <2>2, NextPc
  <2> HIDE DEF t
  <2>4. t \in Target BY <1>2 DEF t
  <2>5. One(req[r], CountedPc) = 0 /\ One(req[r], SlottedPc) = 0
      BY <2>2 DEF One, CountedPc, SlottedPc
  <2>6. /\ count' \in Nat /\ used' \in 0 .. Capacity
        /\ count' + One(req[r], CountedPc) >= count + IF p = "idle" THEN 0 ELSE 1
        /\ used' + One(req[r], SlottedPc) = used + IF p = "claim" THEN 1 ELSE 0
      BY <1>2, <1>3, <2>1, <2>2, <2>5
  <2> QED BY <1>3, <2>1, <2>2, <2>3, <2>4, <2>6, ReqSteps
<1>5. CASE unadmit(r)
  <2>1. req[r].pc = "refuse" /\ req' = [req EXCEPT ![r] = [pc |-> "idle", on |-> NoCell]]
        /\ count' = count - 1
      BY <1>5 DEF unadmit, Idle
  <2>2. One(req[r], CountedPc) = 1 /\ One(req[r], SlottedPc) = 0
      BY <2>1 DEF One, CountedPc, SlottedPc
  <2>3. count > 0
    <3>1. count >= Waits + ReqsIn(CountedPc) + WrksIn(BusyPc) BY <1>1, CountBound
    <3>2. "refuse" \in CountedPc BY DEF CountedPc
    <3>3. ReqsIn(CountedPc) > 0 BY <1>1, <2>1, <3>2, SomeAt
    <3>4. Waits \in Nat /\ ReqsIn(CountedPc) \in Nat /\ WrksIn(BusyPc) \in Nat
        BY <1>1, BandNumbers
    <3> QED BY <1>2, <3>1, <3>3, <3>4
  <2> DEFINE p == "idle"
  <2>4. /\ count' \in Nat /\ used' \in 0 .. Capacity
        /\ count' + One(req[r], CountedPc) >= count + IF p = "idle" THEN 0 ELSE 1
        /\ used' + One(req[r], SlottedPc) = used + IF p = "claim" THEN 1 ELSE 0
      BY <1>2, <1>3, <2>1, <2>2, <2>3
  <2>5. p \in {"idle", "refuse", "slot", "claim"} /\ p \notin {"slot", "claim"}
        /\ req' = [req EXCEPT ![r] = [pc |-> p, on |-> NoCell]]
      BY <2>1
  <2> HIDE DEF p
  <2> QED BY <1>2, <1>3, <2>1, <2>4, <2>5, ReqSteps
<1> QED BY <1>4, <1>5

\* A request takes a ring slot, or finds none.
LEMMA RingSlotKept ==
    ASSUME BandInv, NEW r \in Requesters, alloc_ring(r)
    PROVE  BandInv'
<1>1. BandTypeOK BY DEF BandInv
<1> DEFINE t == req[r].on
<1>2. /\ t \in Target /\ count \in Nat /\ used \in 0 .. Capacity /\ used \in Nat
      /\ Capacity \in Nat
    BY <1>1, ReqFacts, BandBounds DEF BandTypeOK
<1>3. UNCHANGED <<band_state, band_down, count, finished, entries, queued, wrote, seen, wrk, seal,
                  stop, byOwn, requests, cycles>>
    BY DEF alloc_ring, word, stopVars, callbackVars
<1>4. req[r].pc = "slot" BY DEF alloc_ring
<1>5. One(req[r], CountedPc) = 1 /\ One(req[r], SlottedPc) = 0
    BY <1>4 DEF One, CountedPc, SlottedPc
<1>6. count' = count BY <1>3
<1>7. CASE used < Capacity
  <2>1. used' = used + 1 /\ req' = [req EXCEPT ![r].pc = "claim"] BY <1>7 DEF alloc_ring
  <2> DEFINE p == "claim"
  <2>2. p \in {"idle", "refuse", "slot", "claim"} /\ req' = [req EXCEPT ![r] = [pc |-> p, on |-> t]]
      BY <1>1, <2>1, NextPc
  <2>3. /\ count' \in Nat /\ used' \in 0 .. Capacity
        /\ count' + One(req[r], CountedPc) >= count + IF p = "idle" THEN 0 ELSE 1
        /\ used' + One(req[r], SlottedPc) = used + IF p = "claim" THEN 1 ELSE 0
      BY <1>2, <1>5, <1>6, <1>7, <2>1
  <2> HIDE DEF t, p
  <2> QED BY <1>2, <1>3, <1>4, <2>2, <2>3, ReqSteps
<1>8. CASE ~(used < Capacity)
  <2>1. used' = used /\ req' = [req EXCEPT ![r].pc = "refuse"] BY <1>8 DEF alloc_ring
  <2> DEFINE p == "refuse"
  <2>2. p \in {"idle", "refuse", "slot", "claim"} /\ req' = [req EXCEPT ![r] = [pc |-> p, on |-> t]]
      BY <1>1, <2>1, NextPc
  <2>3. /\ count' \in Nat /\ used' \in 0 .. Capacity
        /\ count' + One(req[r], CountedPc) >= count + IF p = "idle" THEN 0 ELSE 1
        /\ used' + One(req[r], SlottedPc) = used + IF p = "claim" THEN 1 ELSE 0
      BY <1>2, <1>5, <1>6, <2>1
  <2> HIDE DEF t, p
  <2> QED BY <1>2, <1>3, <1>4, <2>2, <2>3, ReqSteps
<1> QED BY <1>7, <1>8

\* A claim that finds a run pending.
LEMMA ClaimRefused ==
    ASSUME BandInv, NEW r \in Requesters, claim(r), req[r].on \in Cells, queued[req[r].on]
    PROVE  BandInv'
<1>1. BandTypeOK /\ SlotsOut BY DEF BandInv
<1> DEFINE t == req[r].on
<1>2. /\ t \in Target /\ count \in Nat /\ used \in 0 .. Capacity /\ used \in Nat
      /\ Capacity \in Nat
    BY <1>1, ReqFacts, BandBounds DEF BandTypeOK
<1>3. UNCHANGED <<band_state, band_down, count, finished, entries, queued, wrote, seen, wrk, seal,
                  stop, byOwn, requests, cycles>>
    BY DEF claim, word, stopVars
<1>4. req[r].pc = "claim" /\ used' = used - 1 /\ req' = [req EXCEPT ![r].pc = "refuse"]
    BY DEF claim
<1>5. One(req[r], CountedPc) = 1 /\ One(req[r], SlottedPc) = 1
    BY <1>4 DEF One, CountedPc, SlottedPc
<1> DEFINE p == "refuse"
<1>6. p \in {"idle", "refuse", "slot", "claim"} /\ p \notin {"slot", "claim"}
    OBVIOUS
<1>7. req' = [req EXCEPT ![r] = [pc |-> p, on |-> t]] BY <1>1, <1>4, NextPc
<1>8. used > 0
  <2>1. used = Waits + ReqsIn(SlottedPc) BY <1>1 DEF SlotsOut, Waits, ReqsIn
  <2>2. "claim" \in SlottedPc BY DEF SlottedPc
  <2>3. ReqsIn(SlottedPc) > 0 BY <1>1, <1>4, <2>2, SomeAt
  <2>4. Waits \in Nat /\ ReqsIn(SlottedPc) \in Nat BY <1>1, BandNumbers
  <2> QED BY <2>1, <2>3, <2>4
<1>9. /\ count' \in Nat /\ used' \in 0 .. Capacity
      /\ count' + One(req[r], CountedPc) >= count + IF p = "idle" THEN 0 ELSE 1
      /\ used' + One(req[r], SlottedPc) = used + IF p = "claim" THEN 1 ELSE 0
    BY <1>2, <1>3, <1>4, <1>5, <1>8
<1> HIDE DEF t, p
<1> QED BY <1>2, <1>3, <1>4, <1>6, <1>7, <1>9, ReqSteps

\* One entry, one requester or one worker has the run of a marked cell; or none,
\* of a cell not marked.
LEMMA OneHolder ==
    ASSUME NEW c,
           \/ /\ \E i : \A j : AtEntry(c, j)' <=> j = i
              /\ \A r : ~AtReq(c, r)'
              /\ \A w : ~AtWrk(c, w)'
              /\ queued'[c]
           \/ /\ \E r : \A j : AtReq(c, j)' <=> j = r
              /\ \A i : ~AtEntry(c, i)'
              /\ \A w : ~AtWrk(c, w)'
              /\ queued'[c]
           \/ /\ \E w : \A j : AtWrk(c, j)' <=> j = w
              /\ \A i : ~AtEntry(c, i)'
              /\ \A r : ~AtReq(c, r)'
              /\ queued'[c]
           \/ /\ \A w : ~AtWrk(c, w)'
              /\ \A i : ~AtEntry(c, i)'
              /\ \A r : ~AtReq(c, r)'
              /\ ~queued'[c]
    PROVE  MarkedOnce(c)'
BY DEF MarkedOnce

\* Where the requesters are after one moved.
LEMMA ReqAt ==
    ASSUME BandTypeOK, NEW r \in Requesters, NEW v, req' = [req EXCEPT ![r] = v], NEW c
    PROVE  /\ \A x : x # r => (AtReq(c, x)' <=> AtReq(c, x))
           /\ AtReq(c, r)' <=> v = [pc |-> "publish", on |-> c]
<1>1. DOMAIN req = Requesters BY DEF BandTypeOK
<1>2. ASSUME NEW x, x # r PROVE AtReq(c, x)' <=> AtReq(c, x)
  <2>1. x \in Requesters => req'[x] = req[x] BY <1>1, <1>2
  <2> QED BY <2>1 DEF AtReq
<1>3. req'[r] = v BY <1>1
<1>4. AtReq(c, r)' <=> v = [pc |-> "publish", on |-> c] BY <1>3 DEF AtReq
<1> QED BY <1>2, <1>4

\* Where the workers are after one moved.
LEMMA WrkAt ==
    ASSUME BandTypeOK, NEW w \in Workers, NEW v, wrk' = [wrk EXCEPT ![w] = v], NEW c
    PROVE  /\ \A x : x # w => (AtWrk(c, x)' <=> AtWrk(c, x))
           /\ AtWrk(c, w)' <=> v = [pc |-> "first", on |-> c]
<1>1. DOMAIN wrk = Workers BY DEF BandTypeOK
<1>2. ASSUME NEW x, x # w PROVE AtWrk(c, x)' <=> AtWrk(c, x)
  <2>1. x \in Workers => wrk'[x] = wrk[x] BY <1>1, <1>2
  <2> QED BY <2>1 DEF AtWrk, Workers
<1>3. wrk'[w] = v BY <1>1
<1>4. AtWrk(c, w)' <=> v = [pc |-> "first", on |-> c] BY <1>3 DEF AtWrk, Workers
<1> QED BY <1>2, <1>4

\* A claim that marks its cell, or a closure's, which marks none.
LEMMA ClaimMade ==
    ASSUME BandInv, NEW r \in Requesters, claim(r), ~(req[r].on \in Cells /\ queued[req[r].on])
    PROVE  BandInv'
<1>1. /\ BandTypeOK /\ Counted /\ SlotsOut /\ SealIdle /\ SealedIsDrained
      /\ \A c \in Cells : MarkedOnce(c)
    BY DEF BandInv
<1> DEFINE t == req[r].on
           v == [pc |-> "publish", on |-> t]
<1>2. UNCHANGED <<band_state, band_down, count, finished, entries, used, wrote, seen, wrk, seal,
                  stop, byOwn, requests, cycles>>
    BY DEF claim, word, stopVars
<1>3. /\ req[r].pc = "claim" /\ req' = [req EXCEPT ![r].pc = "publish"]
      /\ queued' = [x \in Cells |-> x = t \/ queued[x]]
    BY DEF claim
<1>4. req' = [req EXCEPT ![r] = v] BY <1>1, <1>3, NextPc
<1>5. t \in Target /\ v.pc = "publish" /\ v.on = t BY <1>1, ReqFacts
<1>6. BandTypeOK'
  <2>1. /\ wrote' \in [Cells -> Nat] /\ requests' \in 0 .. MaxRequests /\ entries' \in Seq(Target)
        /\ count' \in Nat /\ used' \in 0 .. Capacity
      BY <1>1, <1>2 DEF BandTypeOK
  <2>2. queued' \in [Cells -> BOOLEAN] BY <1>1, <1>3 DEF BandTypeOK
  <2> HIDE DEF t
  <2> QED BY <1>1, <1>2, <1>4, <1>5, <2>1, <2>2, ReqTyped
<1>7. ~(t \in Cells /\ queued[t]) OBVIOUS
<1> HIDE DEF t, v
<1>8. /\ One(req[r], CountedPc) = 1 /\ One(v, CountedPc) = 1
      /\ One(req[r], SlottedPc) = 1 /\ One(v, SlottedPc) = 1
    BY <1>3, <1>5 DEF One, CountedPc, SlottedPc
<1>9. /\ ReqsIn(CountedPc) \in Nat /\ ReqsIn(CountedPc)' \in Nat
      /\ ReqsIn(CountedPc)' + One(req[r], CountedPc) = ReqsIn(CountedPc) + One(v, CountedPc)
    BY <1>1, <1>4, ReqMoves
<1>10. /\ ReqsIn(SlottedPc) \in Nat /\ ReqsIn(SlottedPc)' \in Nat
       /\ ReqsIn(SlottedPc)' + One(req[r], SlottedPc) = ReqsIn(SlottedPc) + One(v, SlottedPc)
    BY <1>1, <1>4, ReqMoves
<1>11. Waits \in Nat /\ WrksIn(BusyPc) \in Nat /\ count \in Nat BY <1>1, BandNumbers
<1>12. Waits' = Waits /\ WrksIn(BusyPc)' = WrksIn(BusyPc)
    BY <1>2 DEF Waits, WrksIn, In, Workers
<1>13. Counted'
  <2>1. /\ count' + Waits + ReqsIn(CountedPc) + WrksIn(BusyPc)
            >= count + Waits' + ReqsIn(CountedPc)' + WrksIn(BusyPc)'
        /\ count' \in Nat /\ Waits' \in Nat /\ WrksIn(BusyPc)' \in Nat
      BY <1>2, <1>8, <1>9, <1>11, <1>12
  <2> QED BY <1>1, <1>2, <1>9, <2>1, CountKept
<1>14. SlotsOut'
  <2>1. ReqsIn(SlottedPc)' = ReqsIn(SlottedPc) BY <1>8, <1>10
  <2> QED BY <1>1, <1>2, <2>1 DEF SlotsOut, ReqsIn
<1>15. SealIdle' BY <1>1, <1>2 DEF SealIdle, Workers
<1>16. SealedIsDrained'
  <2>1. Accepted # {} BY <1>3 DEF Accepted
  <2> QED BY <1>1, <1>2, <2>1 DEF SealedIsDrained
<1>17. ASSUME NEW c \in Cells PROVE MarkedOnce(c)'
  <2>1. /\ \A x : x # r => (AtReq(c, x)' <=> AtReq(c, x))
        /\ AtReq(c, r)' <=> v = [pc |-> "publish", on |-> c]
      BY <1>1, <1>4, ReqAt
  <2>2. \A i : AtEntry(c, i)' <=> AtEntry(c, i) BY <1>2 DEF AtEntry
  <2>3. \A w : AtWrk(c, w)' <=> AtWrk(c, w) BY <1>2 DEF AtWrk, Workers
  <2>4. ~AtReq(c, r)
    <3>1. [pc |-> "publish", on |-> c].pc = "publish" OBVIOUS
    <3> QED BY <1>3, <3>1 DEF AtReq
  <2>5. AtReq(c, r)' <=> t = c BY <1>5, <2>1 DEF v
  <2>6. queued'[c] <=> c = t \/ queued[c] BY <1>3
  <2>7. CASE t # c
    <3>1. queued'[c] = queued[c] BY <1>1, <1>6, <2>6, <2>7 DEF BandTypeOK
    <3>2. \A x : AtReq(c, x)' <=> AtReq(c, x) BY <2>1, <2>4, <2>5, <2>7
    <3> QED BY <1>1, <2>2, <2>3, <3>1, <3>2, MarksKept
  <2>8. CASE t = c
    <3>1. ~queued[c] BY <1>7, <2>8
    <3>2. /\ \A i : ~AtEntry(c, i)
          /\ \A x : ~AtReq(c, x)
          /\ \A w : ~AtWrk(c, w)
        BY <1>1, <3>1 DEF MarkedOnce
    <3>3. \A x : AtReq(c, x)' <=> x = r BY <2>1, <2>5, <2>8, <3>2
    <3> QED BY <2>2, <2>3, <2>6, <2>8, <3>2, <3>3, OneHolder
  <2> QED BY <2>7, <2>8
<1> QED BY <1>6, <1>13, <1>14, <1>15, <1>16, <1>17 DEF BandInv

\* The requester's run becomes an entry.
LEMMA PublishKept ==
    ASSUME BandInv, NEW r \in Requesters, publish(r)
    PROVE  BandInv'
<1>1. /\ BandTypeOK /\ Counted /\ SlotsOut /\ SealIdle /\ SealedIsDrained
      /\ \A c \in Cells : MarkedOnce(c)
    BY DEF BandInv
<1> DEFINE t == req[r].on
           v == [pc |-> "idle", on |-> NoCell]
           n == Len(entries) + 1
<1>2. UNCHANGED <<band_state, band_down, count, finished, used, queued, wrote, seen, wrk, seal,
                  stop, byOwn, requests, cycles>>
    BY DEF publish, word, stopVars, callbackVars
<1>3. /\ req[r].pc = "publish" /\ req' = [req EXCEPT ![r] = v]
      /\ entries' = Append(entries, t)
    BY DEF publish, Idle
<1>4. t \in Target /\ NoCell \in Target /\ v.pc = "idle" BY <1>1, ReqFacts DEF Target
<1>5. req[r] = [pc |-> "publish", on |-> t] BY <1>1, <1>3, ReqFacts
<1>6. entries \in Seq(Target) BY <1>1 DEF BandTypeOK
<1>7. /\ entries' \in Seq(Target) /\ Len(entries') = n /\ n - 1 = Len(entries) /\ n \in Nat
      /\ DOMAIN entries = 1 .. n - 1 /\ DOMAIN entries' = 1 .. n
      /\ \A i \in 1 .. n - 1 : entries'[i] = entries[i]
      /\ entries'[n] = t
  <2>1. Len(entries) \in Nat /\ n \in Nat BY <1>6, LenProperties
  <2>2. entries' \in Seq(Target) /\ Len(entries') = n BY <1>3, <1>4, <1>6, AppendProperties
  <2>3. DOMAIN entries = 1 .. Len(entries) /\ DOMAIN entries' = 1 .. n
      BY <1>6, <2>2, LenProperties
  <2>4. \A i \in 1 .. n : entries'[i] = IF i = n THEN t ELSE entries[i]
      BY <1>3, <1>4, <1>6, AppendProperties
  <2> HIDE DEF t
  <2> QED BY <2>1, <2>2, <2>3, <2>4
<1>8. BandTypeOK'
  <2>1. /\ wrote' \in [Cells -> Nat] /\ requests' \in 0 .. MaxRequests
        /\ count' \in Nat /\ used' \in 0 .. Capacity /\ queued' \in [Cells -> BOOLEAN]
      BY <1>1, <1>2 DEF BandTypeOK
  <2> HIDE DEF t
  <2> QED BY <1>1, <1>2, <1>3, <1>4, <1>7, <2>1, ReqTyped
<1> HIDE DEF t, v, n
<1>9. /\ One(req[r], CountedPc) = 1 /\ One(v, CountedPc) = 0
      /\ One(req[r], SlottedPc) = 1 /\ One(v, SlottedPc) = 0
    BY <1>3, <1>4 DEF One, CountedPc, SlottedPc
<1>10. /\ ReqsIn(CountedPc) \in Nat /\ ReqsIn(CountedPc)' \in Nat
       /\ ReqsIn(CountedPc)' + One(req[r], CountedPc) = ReqsIn(CountedPc) + One(v, CountedPc)
    BY <1>1, <1>3, ReqMoves
<1>11. /\ ReqsIn(SlottedPc) \in Nat /\ ReqsIn(SlottedPc)' \in Nat
       /\ ReqsIn(SlottedPc)' + One(req[r], SlottedPc) = ReqsIn(SlottedPc) + One(v, SlottedPc)
    BY <1>1, <1>3, ReqMoves
<1>12. Waits \in Nat /\ WrksIn(BusyPc) \in Nat /\ count \in Nat BY <1>1, BandNumbers
<1>13. Waits' = Waits + 1 /\ WrksIn(BusyPc)' = WrksIn(BusyPc)
  <2>1. Waits' = n BY <1>7 DEF Waits
  <2>2. Waits = n - 1 BY <1>7 DEF Waits
  <2> QED BY <1>2, <1>7, <2>1, <2>2 DEF WrksIn, In, Workers
<1>14. Counted'
  <2>1. /\ count' + Waits + ReqsIn(CountedPc) + WrksIn(BusyPc)
            >= count + Waits' + ReqsIn(CountedPc)' + WrksIn(BusyPc)'
        /\ count' \in Nat /\ Waits' \in Nat /\ WrksIn(BusyPc)' \in Nat
      BY <1>2, <1>9, <1>10, <1>12, <1>13
  <2> QED BY <1>1, <1>2, <1>10, <2>1, CountKept
<1>15. SlotsOut'
  <2>1. used = Waits + ReqsIn(SlottedPc) BY <1>1 DEF SlotsOut, Waits, ReqsIn
  <2>2. used' = Waits' + ReqsIn(SlottedPc)' BY <1>2, <1>9, <1>11, <1>12, <1>13, <2>1
  <2> QED BY <2>2 DEF SlotsOut, Waits, ReqsIn
<1>16. SealIdle' BY <1>1, <1>2 DEF SealIdle, Workers
<1>17. SealedIsDrained'
  <2>1. Accepted # {} BY <1>3 DEF Accepted
  <2> QED BY <1>1, <1>2, <2>1 DEF SealedIsDrained
<1>18. ASSUME NEW c \in Cells PROVE MarkedOnce(c)'
  <2>1. \A x : AtReq(c, x)' <=> x # r /\ AtReq(c, x)
    <3>1. /\ \A x : x # r => (AtReq(c, x)' <=> AtReq(c, x))
          /\ AtReq(c, r)' <=> v = [pc |-> "publish", on |-> c]
        BY <1>1, <1>3, ReqAt
    <3>2. [pc |-> "publish", on |-> c].pc = "publish" OBVIOUS
    <3>3. v # [pc |-> "publish", on |-> c] BY <1>4, <3>2
    <3> QED BY <3>1, <3>3
  <2>2. \A i : AtEntry(c, i)' <=> AtEntry(c, i) \/ (i = n /\ c = t)
    <3>1. ASSUME NEW i PROVE AtEntry(c, i)' <=> AtEntry(c, i) \/ (i = n /\ c = t)
      <4>1. CASE i = n
        <5>1. n \notin 1 .. n - 1 /\ n \in 1 .. n BY <1>7
        <5> QED BY <1>7, <4>1, <5>1 DEF AtEntry
      <4>2. CASE i # n
        <5>1. i \in 1 .. n <=> i \in 1 .. n - 1 BY <1>7, <4>2
        <5> QED BY <1>7, <4>2, <5>1 DEF AtEntry
      <4> QED BY <4>1, <4>2
    <3> QED BY <3>1
  <2>3. \A w : AtWrk(c, w)' <=> AtWrk(c, w) BY <1>2 DEF AtWrk, Workers
  <2>4. AtReq(c, r) <=> t = c BY <1>5 DEF AtReq
  <2>5. queued'[c] = queued[c] BY <1>2
  <2>6. CASE t # c
    <3>1. \A x : AtReq(c, x)' <=> AtReq(c, x) BY <2>1, <2>4, <2>6
    <3>2. \A i : AtEntry(c, i)' <=> AtEntry(c, i) BY <2>2, <2>6
    <3> QED BY <1>1, <2>3, <2>5, <3>1, <3>2, MarksKept
  <2>7. CASE t = c
    <3>1. /\ queued[c]
          /\ \A x : AtReq(c, x) => x = r
          /\ \A i : ~AtEntry(c, i)
          /\ \A w : ~AtWrk(c, w)
        BY <1>1, <2>4, <2>7 DEF MarkedOnce
    <3>2. \A x : ~AtReq(c, x)' BY <2>1, <3>1
    <3>3. \A i : AtEntry(c, i)' <=> i = n BY <2>2, <2>7, <3>1
    <3> QED BY <2>3, <2>5, <3>1, <3>2, <3>3, OneHolder
  <2> QED BY <2>6, <2>7
<1> QED BY <1>8, <1>14, <1>15, <1>16, <1>17, <1>18 DEF BandInv

\* Every step of a requester.
LEMMA RequesterKept ==
    ASSUME BandInv, NEW r \in Requesters, RequesterStep(r) \/ \E t \in Target : Write(r, t)
    PROVE  BandInv'
<1>1. ASSUME claim(r) PROVE BandInv'
  <2>1. CASE req[r].on \in Cells /\ queued[req[r].on] BY <1>1, <2>1, ClaimRefused
  <2>2. CASE ~(req[r].on \in Cells /\ queued[req[r].on]) BY <1>1, <2>2, ClaimMade
  <2> QED BY <2>1, <2>2
<1> QED BY <1>1, WriteKept, AdmitKept, RingSlotKept, PublishKept DEF RequesterStep

\* A worker's place.
LEMMA WrkFacts ==
    ASSUME BandTypeOK, NEW w \in Workers
    PROVE  /\ wrk[w].pc \in {"idle", "first", "second", "finish", "leave", "parked", "gone"}
           /\ wrk[w].on \in Target /\ wrk[w] = [pc |-> wrk[w].pc, on |-> wrk[w].on]
           /\ DOMAIN wrk = Workers
BY DEF BandTypeOK

\* What a worker's step leaves typed.
LEMMA WrkTyped ==
    ASSUME BandTypeOK, NEW w \in Workers, NEW v, wrk' = [wrk EXCEPT ![w] = v],
           v \in [pc : {"idle", "first", "second", "finish", "leave", "parked", "gone"}, on : Target],
           used' \in 0 .. Capacity, entries' \in Seq(Target), finished' \in [Workers -> Nat],
           queued' \in [Cells -> BOOLEAN], seen' \in [Cells -> Nat],
           UNCHANGED <<band_state, band_down, count, wrote, req, seal, stop, byOwn, requests, cycles>>
    PROVE  BandTypeOK'
<1> DEFINE R == [pc : {"idle", "first", "second", "finish", "leave", "parked", "gone"}, on : Target]
<1>2. wrk' \in [Workers -> R] BY DEF BandTypeOK
<1> QED BY <1>2 DEF BandTypeOK, Target, Workers, Sealers, Stopper, BandStates

\* A worker moves between steps at which it has no run of a cell.
LEMMA WrkGoes ==
    ASSUME BandInv, NEW w \in Workers, NEW v, wrk' = [wrk EXCEPT ![w] = v], BandTypeOK',
           wrk[w].pc # "first", v.pc # "first", Counted', wrk[w] # Idle \/ seal[w] = NoSeal,
           v.pc \in BusyPc => wrk[w].pc \in BusyPc,
           UNCHANGED <<band_state, entries, used, queued, req, seal, byOwn>>
    PROVE  BandInv'
<1>1. /\ BandTypeOK /\ Counted /\ SlotsOut /\ SealIdle /\ SealedIsDrained
      /\ \A c \in Cells : MarkedOnce(c)
    BY DEF BandInv
<1>2. DOMAIN wrk = Workers BY <1>1, WrkFacts
<1>3. wrk'[w] = v /\ \A x \in Workers : x # w => wrk'[x] = wrk[x] BY <1>2
<1>4. SlotsOut' BY <1>1 DEF SlotsOut, In
<1>5. SealIdle'
  <2>1. seal[w] = NoSeal BY <1>1 DEF SealIdle
  <2> SUFFICES ASSUME NEW x \in Workers, seal'[x] # NoSeal PROVE wrk'[x] = Idle
      BY DEF SealIdle, Workers, NoSeal, Idle
  <2>2. x # w BY <2>1
  <2> QED BY <1>1, <1>3, <2>2 DEF SealIdle
<1>6. SealedIsDrained'
  <2>1. Accepted' = Accepted BY DEF Accepted
  <2>2. Busy = {} => Busy' = {}
    <3> SUFFICES ASSUME Busy = {}, NEW x \in Workers, wrk'[x].pc \in BusyPc PROVE FALSE
        BY DEF Busy, BusyPc, Workers
    <3>1. \A z \in Workers : wrk[z].pc \notin BusyPc BY DEF Busy, BusyPc
    <3>2. CASE x = w BY <1>3, <3>1, <3>2
    <3>3. CASE x # w BY <1>3, <3>1, <3>3
    <3> QED BY <3>2, <3>3
  <2> QED BY <1>1, <2>1, <2>2, DrainedKept
<1>7. ASSUME NEW c \in Cells PROVE MarkedOnce(c)'
  <2>1. \A x : AtReq(c, x)' <=> AtReq(c, x) BY DEF AtReq
  <2>2. \A i : AtEntry(c, i)' <=> AtEntry(c, i) BY DEF AtEntry
  <2>3. \A x : AtWrk(c, x)' <=> AtWrk(c, x) BY <1>1, WrkApart
  <2> QED BY <1>1, <2>1, <2>2, <2>3, MarksKept
<1> QED BY <1>4, <1>5, <1>6, <1>7 DEF BandInv

\* The count of a worker that moves and has run no more.
LEMMA WrkCounted ==
    ASSUME BandTypeOK, Counted, NEW w \in Workers, NEW v, wrk' = [wrk EXCEPT ![w] = v],
           v.pc \in BusyPc => wrk[w].pc \in BusyPc,
           UNCHANGED <<count, entries, finished, req, seal>>
    PROVE  Counted'
<1>1. /\ WrksIn(BusyPc) \in Nat /\ WrksIn(BusyPc)' \in Nat
      /\ WrksIn(BusyPc)' + One(wrk[w], BusyPc) = WrksIn(BusyPc) + One(v, BusyPc)
    BY WrkMoves
<1>2. One(v, BusyPc) \in Nat /\ One(wrk[w], BusyPc) \in Nat
      /\ One(v, BusyPc) <= One(wrk[w], BusyPc)
    BY DEF One
<1>3. Waits \in Nat /\ ReqsIn(CountedPc) \in Nat /\ count \in Nat BY BandNumbers
<1>4. Waits' = Waits /\ ReqsIn(CountedPc)' = ReqsIn(CountedPc) BY DEF Waits, ReqsIn, In
<1>5. /\ count' + Waits + ReqsIn(CountedPc) + WrksIn(BusyPc)
            >= count + Waits' + ReqsIn(CountedPc)' + WrksIn(BusyPc)'
      /\ count' \in Nat /\ Waits' \in Nat /\ ReqsIn(CountedPc)' \in Nat
    BY <1>1, <1>2, <1>3, <1>4
<1> QED BY <1>1, <1>5, CountKept

\* A worker that goes from step to step.
LEMMA WrkSteps ==
    ASSUME BandInv, NEW w \in Workers, NEW p,
           p \in {"idle", "finish", "leave", "parked", "gone"},
           wrk' = [wrk EXCEPT ![w].pc = p], wrk[w].pc # "first",
           wrk[w] # Idle \/ seal[w] = NoSeal, p = "finish" => wrk[w].pc = "second",
           seen' \in [Cells -> Nat],
           UNCHANGED <<band_state, band_down, count, finished, entries, used, queued, wrote, req,
                       seal, stop, byOwn, requests, cycles>>
    PROVE  BandInv'
<1>1. BandTypeOK /\ Counted BY DEF BandInv
<1> DEFINE t == wrk[w].on
           v == [pc |-> p, on |-> t]
<1>2. wrk' = [wrk EXCEPT ![w] = v] BY <1>1, NextPc
<1>3. /\ v \in [pc : {"idle", "first", "second", "finish", "leave", "parked", "gone"}, on : Target]
      /\ v.pc = p
    BY <1>1, WrkFacts
<1> HIDE DEF v
<1>4. BandTypeOK'
  <2>1. /\ used' \in 0 .. Capacity /\ entries' \in Seq(Target) /\ finished' \in [Workers -> Nat]
        /\ queued' \in [Cells -> BOOLEAN]
      BY <1>1 DEF BandTypeOK
  <2> QED BY <1>1, <1>2, <1>3, <2>1, WrkTyped
<1>5. (v.pc \in BusyPc => wrk[w].pc \in BusyPc) /\ v.pc # "first" BY <1>3 DEF BusyPc
<1>6. Counted' BY <1>1, <1>2, <1>5, WrkCounted
<1> QED BY <1>2, <1>4, <1>5, <1>6, WrkGoes

\* A worker runs the body.
LEMMA BodyKept ==
    ASSUME BandInv, NEW w \in Workers, Run(w), Body(w, "second")
    PROVE  BandInv'
<1>1. BandTypeOK BY DEF BandInv
<1>2. UNCHANGED <<band_state, band_down, count, finished, entries, used, queued, wrote, req, seal,
                  stop, byOwn, requests, cycles>>
    BY DEF Run, Body, word, stopVars
<1>3. wrk[w].pc = "second" BY DEF Body
<1>4. wrk' = [wrk EXCEPT ![w].pc = "finish"] BY <1>3 DEF Run
<1>5. seen' \in [Cells -> Nat] BY <1>1 DEF Body, BandTypeOK
<1>6. wrk[w] # Idle BY <1>3 DEF Idle
<1> QED BY <1>2, <1>3, <1>4, <1>5, <1>6, WrkSteps

\* A worker parks, leaves, or is back.
LEMMA LeaveKept ==
    ASSUME BandInv, NEW w \in Workers, Leave(w) \/ Unpark(w)
    PROVE  BandInv'
<1>1. BandTypeOK BY DEF BandInv
<1>2. UNCHANGED <<band_state, band_down, count, finished, entries, used, queued, wrote, seen, req,
                  seal, stop, byOwn, requests, cycles>>
    BY DEF Leave, Unpark, word, stopVars, callbackVars
<1>3. wrk[w].pc \in {"leave", "parked"} BY DEF Leave, Unpark
<1>4. PICK p \in {"idle", "parked", "gone"} : wrk' = [wrk EXCEPT ![w].pc = p] BY DEF Leave, Unpark
<1>5. seen' \in [Cells -> Nat] BY <1>1, <1>2 DEF BandTypeOK
<1>6. wrk[w] # Idle BY <1>3 DEF Idle
<1> QED BY <1>2, <1>3, <1>4, <1>5, <1>6, WrkSteps

\* A worker that found the band empty, and not stopping.
LEMMA EmptyKept ==
    ASSUME BandInv, NEW w \in Workers, FoundEmpty(w), band_state # "STOPPING"
    PROVE  BandInv'
<1>1. BandTypeOK BY DEF BandInv
<1>2. UNCHANGED <<band_state, band_down, count, finished, entries, used, queued, wrote, seen, req,
                  seal, stop, byOwn, requests, cycles>>
    BY DEF FoundEmpty, word, stopVars, callbackVars
<1>3. wrk[w] = Idle /\ seal[w] = NoSeal /\ wrk' = [wrk EXCEPT ![w].pc = "leave"] BY DEF FoundEmpty
<1>4. wrk[w].pc = "idle" BY <1>3 DEF Idle
<1>5. seen' \in [Cells -> Nat] BY <1>1, <1>2 DEF BandTypeOK
<1> QED BY <1>2, <1>3, <1>4, <1>5, WrkSteps

\* What the first workers ran, after one of them ran one more.
LEMMA SumGrows ==
    ASSUME BandTypeOK, NEW T, SumOf(T), NEW w \in Workers,
           finished' = [finished EXCEPT ![w] = @ + 1]
    PROVE  \E U : /\ SumOf(U)' /\ U[NumWorkers] = T[NumWorkers] + 1
                  /\ \A n \in 0 .. NumWorkers : T[n] <= U[n]
<1>1. NumWorkers \in Nat /\ NumWorkers > 0 BY BandNumbers
<1>2. finished \in [Workers -> Nat] BY DEF BandTypeOK
<1>3. /\ T \in [0 .. NumWorkers -> Nat] /\ T[0] = 0
      /\ \A x \in Workers : T[x] = T[x - 1] + finished[x]
    BY DEF SumOf
<1> DEFINE U == [n \in 0 .. NumWorkers |-> IF n >= w THEN T[n] + 1 ELSE T[n]]
<1>4. w \in 1 .. NumWorkers BY DEF Workers
<1>5. U \in [0 .. NumWorkers -> Nat] /\ U[0] = 0
  <2>1. 0 \in 0 .. NumWorkers /\ ~(0 >= w) BY <1>1, <1>4
  <2> QED BY <1>3, <2>1
<1>6. ASSUME NEW x \in Workers PROVE U[x] = U[x - 1] + finished'[x]
  <2>1. x \in 1 .. NumWorkers /\ x \in 0 .. NumWorkers /\ x - 1 \in 0 .. NumWorkers
      BY <1>1, <1>6 DEF Workers
  <2>2. T[x] \in Nat /\ T[x - 1] \in Nat /\ finished[x] \in Nat BY <1>2, <1>3, <1>6, <2>1
  <2>3. finished'[x] = IF x = w THEN finished[x] + 1 ELSE finished[x] BY <1>2, <1>6
  <2>4. T[x] = T[x - 1] + finished[x] BY <1>3, <1>6
  <2>5. U[x] = (IF x >= w THEN T[x] + 1 ELSE T[x])
        /\ U[x - 1] = (IF x - 1 >= w THEN T[x - 1] + 1 ELSE T[x - 1])
      BY <2>1
  <2> HIDE DEF U
  <2>6. CASE x < w
    <3>1. ~(x >= w) /\ ~(x - 1 >= w) /\ x # w BY <1>4, <2>1, <2>6
    <3> QED BY <2>2, <2>3, <2>4, <2>5, <3>1
  <2>7. CASE x = w
    <3>1. x >= w /\ ~(x - 1 >= w) BY <1>4, <2>1, <2>7
    <3> QED BY <2>2, <2>3, <2>4, <2>5, <2>7, <3>1
  <2>8. CASE x > w
    <3>1. x >= w /\ x - 1 >= w /\ x # w BY <1>4, <2>1, <2>8
    <3> QED BY <2>2, <2>3, <2>4, <2>5, <3>1
  <2> QED BY <1>4, <2>1, <2>6, <2>7, <2>8
<1>7. SumOf(U)' BY <1>5, <1>6 DEF SumOf, Workers
<1>8. U[NumWorkers] = T[NumWorkers] + 1
  <2>1. NumWorkers \in 0 .. NumWorkers /\ NumWorkers >= w BY <1>1, <1>4
  <2> QED BY <2>1
<1>9. \A n \in 0 .. NumWorkers : T[n] <= U[n]
  <2> SUFFICES ASSUME NEW n \in 0 .. NumWorkers PROVE T[n] <= U[n] OBVIOUS
  <2>1. T[n] \in Nat BY <1>3
  <2> QED BY <2>1
<1> HIDE DEF U
<1> QED BY <1>7, <1>8, <1>9

\* A worker counts what it ran.
LEMMA FinishKept ==
    ASSUME BandInv, NEW w \in Workers, finish(w)
    PROVE  BandInv'
<1>1. BandTypeOK /\ Counted BY DEF BandInv
<1> DEFINE v == Idle
<1>2. UNCHANGED <<band_state, band_down, count, entries, used, queued, wrote, seen, req, seal,
                  stop, byOwn, requests, cycles>>
    BY DEF finish, word, stopVars, callbackVars
<1>3. /\ wrk[w].pc = "finish" /\ wrk' = [wrk EXCEPT ![w] = v]
      /\ finished' = [finished EXCEPT ![w] = @ + 1]
    BY DEF finish
<1>4. /\ v \in [pc : {"idle", "first", "second", "finish", "leave", "parked", "gone"}, on : Target]
      /\ v.pc = "idle" /\ wrk[w] # Idle
    BY <1>3 DEF Idle, Target
<1> HIDE DEF v
<1>5. BandTypeOK'
  <2>1. finished' \in [Workers -> Nat] BY <1>1, <1>3 DEF BandTypeOK
  <2>2. /\ used' \in 0 .. Capacity /\ entries' \in Seq(Target)
        /\ queued' \in [Cells -> BOOLEAN] /\ seen' \in [Cells -> Nat]
      BY <1>1, <1>2 DEF BandTypeOK
  <2> QED BY <1>1, <1>2, <1>3, <1>4, <2>1, <2>2, WrkTyped
<1>6. Counted'
  <2>1. PICK T : /\ SumOf(T)
                 /\ count >= T[NumWorkers] + Waits + ReqsIn(CountedPc) + WrksIn(BusyPc)
                 /\ \A s \in Sealers : seal[s].slot > 0 => seal[s].sum <= T[seal[s].slot - 1]
      BY <1>1 DEF Counted, Waits, ReqsIn, WrksIn
  <2>2. PICK U : /\ SumOf(U)' /\ U[NumWorkers] = T[NumWorkers] + 1
                 /\ \A n \in 0 .. NumWorkers : T[n] <= U[n]
      BY <1>1, <1>3, <2>1, SumGrows
  <2>3. /\ WrksIn(BusyPc) \in Nat /\ WrksIn(BusyPc)' \in Nat
        /\ WrksIn(BusyPc)' + One(wrk[w], BusyPc) = WrksIn(BusyPc) + One(v, BusyPc)
      BY <1>1, <1>3, WrkMoves
  <2>4. One(wrk[w], BusyPc) = 1 /\ One(v, BusyPc) = 0 BY <1>3, <1>4 DEF One, BusyPc
  <2>5. Waits' = Waits /\ ReqsIn(CountedPc)' = ReqsIn(CountedPc) BY <1>2 DEF Waits, ReqsIn, In
  <2>6. /\ Waits \in Nat /\ ReqsIn(CountedPc) \in Nat /\ count \in Nat
        /\ NumWorkers \in Nat /\ NumWorkers \in 0 .. NumWorkers
      BY <1>1, BandNumbers
  <2>7. T \in [0 .. NumWorkers -> Nat] /\ U \in [0 .. NumWorkers -> Nat]
      BY <2>1, <2>2 DEF SumOf
  <2>8. T[NumWorkers] \in Nat BY <2>6, <2>7
  <2>9. count' >= U[NumWorkers] + Waits' + ReqsIn(CountedPc)' + WrksIn(BusyPc)'
    <3>1. WrksIn(BusyPc) = WrksIn(BusyPc)' + 1 BY <2>3, <2>4
    <3> QED BY <1>2, <2>1, <2>2, <2>3, <2>5, <2>6, <2>8, <3>1
  <2>10. ASSUME NEW s \in Sealers, seal'[s].slot > 0 PROVE seal'[s].sum <= U[seal'[s].slot - 1]
    <3> DEFINE k == seal[s].slot - 1
               m == seal[s].sum
    <3>1. k \in 0 .. NumWorkers /\ m \in Nat BY <1>1, <1>2, <2>6, <2>10 DEF BandTypeOK
    <3>2. m <= T[k] BY <1>2, <2>1, <2>10
    <3>3. seal'[s].slot - 1 = k /\ seal'[s].sum = m BY <1>2
    <3> HIDE DEF k, m
    <3>4. T[k] <= U[k] /\ T[k] \in Nat /\ U[k] \in Nat BY <2>2, <2>7, <3>1
    <3>5. m <= U[k] BY <3>1, <3>2, <3>4
    <3> QED BY <3>3, <3>5
  <2>11. \A s \in Sealers : seal'[s].slot > 0 => seal'[s].sum <= U[seal'[s].slot - 1] BY <2>10
  <2> QED BY <2>2, <2>9, <2>11 DEF Counted, Waits, ReqsIn, WrksIn, Sealers, Workers
<1>7. v.pc # "first" /\ v.pc \notin BusyPc BY <1>4 DEF BusyPc
<1> QED BY <1>2, <1>3, <1>4, <1>5, <1>6, <1>7, WrkGoes

\* The worker with a cell's run clears its mark.
LEMMA UnarmKept ==
    ASSUME BandInv, NEW w \in Workers, Run(w), Unarm(w, "first")
    PROVE  BandInv'
<1>1. /\ BandTypeOK /\ Counted /\ SlotsOut /\ SealIdle /\ SealedIsDrained
      /\ \A c \in Cells : MarkedOnce(c)
    BY DEF BandInv
<1> DEFINE t == wrk[w].on
           v == [pc |-> "second", on |-> t]
<1>2. UNCHANGED <<band_state, band_down, count, finished, entries, used, wrote, seen, req, seal,
                  stop, byOwn, requests, cycles>>
    BY DEF Run, Unarm, word, stopVars
<1>3. wrk[w].pc = "first" /\ queued' = [c \in Cells |-> queued[c] /\ c # t] BY DEF Unarm
<1>4. wrk' = [wrk EXCEPT ![w].pc = "second"] BY <1>3 DEF Run
<1>5. wrk' = [wrk EXCEPT ![w] = v] BY <1>1, <1>4, NextPc
<1>6. /\ v \in [pc : {"idle", "first", "second", "finish", "leave", "parked", "gone"}, on : Target]
      /\ v.pc = "second"
    BY <1>1, WrkFacts
<1>7. wrk[w] = [pc |-> "first", on |-> t] /\ wrk[w] # Idle BY <1>1, <1>3, WrkFacts DEF Idle
<1> HIDE DEF v, t
<1>8. BandTypeOK'
  <2>1. /\ used' \in 0 .. Capacity /\ entries' \in Seq(Target) /\ finished' \in [Workers -> Nat]
        /\ seen' \in [Cells -> Nat]
      BY <1>1, <1>2 DEF BandTypeOK
  <2>2. queued' \in [Cells -> BOOLEAN] BY <1>1, <1>3 DEF BandTypeOK
  <2> QED BY <1>1, <1>2, <1>5, <1>6, <2>1, <2>2, WrkTyped
<1>9. v.pc \in BusyPc => wrk[w].pc \in BusyPc BY <1>3 DEF BusyPc
<1>10. Counted' BY <1>1, <1>2, <1>5, <1>9, WrkCounted
<1>11. SlotsOut' BY <1>1, <1>2 DEF SlotsOut, In
<1>12. SealIdle'
  <2>1. seal[w] = NoSeal BY <1>1, <1>7 DEF SealIdle
  <2> SUFFICES ASSUME NEW x \in Workers, seal'[x] # NoSeal PROVE wrk'[x] = Idle
      BY DEF SealIdle, Workers, NoSeal, Idle
  <2>2. x # w BY <1>2, <2>1
  <2>3. wrk'[x] = wrk[x] BY <1>1, <1>5, <2>2, WrkFacts
  <2> QED BY <1>1, <1>2, <2>3 DEF SealIdle
<1>13. SealedIsDrained'
  <2>1. Busy # {} BY <1>3 DEF Busy
  <2> QED BY <1>1, <1>2, <2>1 DEF SealedIsDrained
<1>14. ASSUME NEW c \in Cells PROVE MarkedOnce(c)'
  <2>1. \A x : AtWrk(c, x)' <=> x # w /\ AtWrk(c, x)
    <3>1. /\ \A x : x # w => (AtWrk(c, x)' <=> AtWrk(c, x))
          /\ AtWrk(c, w)' <=> v = [pc |-> "first", on |-> c]
        BY <1>1, <1>5, WrkAt
    <3>2. [pc |-> "first", on |-> c].pc = "first" OBVIOUS
    <3>3. v # [pc |-> "first", on |-> c] BY <1>6, <3>2
    <3> QED BY <3>1, <3>3
  <2>2. \A i : AtEntry(c, i)' <=> AtEntry(c, i) BY <1>2 DEF AtEntry
  <2>3. \A r : AtReq(c, r)' <=> AtReq(c, r) BY <1>2 DEF AtReq
  <2>4. AtWrk(c, w) <=> t = c BY <1>7 DEF AtWrk
  <2>5. queued'[c] <=> queued[c] /\ c # t BY <1>3
  <2>6. CASE t # c
    <3>1. queued'[c] = queued[c] BY <1>1, <1>8, <2>5, <2>6 DEF BandTypeOK
    <3>2. \A x : AtWrk(c, x)' <=> AtWrk(c, x) BY <2>1, <2>4, <2>6
    <3> QED BY <1>1, <2>2, <2>3, <3>1, <3>2, MarksKept
  <2>7. CASE t = c
    <3>1. /\ \A x : AtWrk(c, x) => x = w
          /\ \A i : ~AtEntry(c, i)
          /\ \A r : ~AtReq(c, r)
        BY <1>1, <2>4, <2>7 DEF MarkedOnce
    <3>2. \A x : ~AtWrk(c, x)' BY <2>1, <3>1
    <3> QED BY <2>2, <2>3, <2>5, <2>7, <3>1, <3>2, OneHolder
  <2> QED BY <2>6, <2>7
<1> QED BY <1>8, <1>10, <1>11, <1>12, <1>13, <1>14 DEF BandInv

\* The run of the first entry goes to a worker.
LEMMA TakeKept ==
    ASSUME BandInv, NEW w \in Workers, TakeEntry(w)
    PROVE  BandInv'
<1>1. /\ BandTypeOK /\ Counted /\ SlotsOut /\ SealIdle /\ SealedIsDrained
      /\ \A c \in Cells : MarkedOnce(c)
    BY DEF BandInv
<1> DEFINE t == Head(entries)
           p == IF t = NoCell THEN "second" ELSE "first"
           v == [pc |-> p, on |-> t]
           n == Len(entries) - 1
<1>2. UNCHANGED <<band_state, band_down, count, finished, queued, wrote, seen, req, seal,
                  stop, byOwn, requests, cycles>>
    BY DEF TakeEntry, word, stopVars, callbackVars
<1>3. /\ wrk[w] = Idle /\ seal[w] = NoSeal /\ entries # <<>> /\ wrk' = [wrk EXCEPT ![w] = v]
      /\ entries' = Tail(entries) /\ used' = used - 1
    BY DEF TakeEntry
<1>4. entries \in Seq(Target) BY <1>1 DEF BandTypeOK
<1>5. /\ t \in Target /\ entries' \in Seq(Target) /\ Len(entries') = n
      /\ n \in Nat /\ Len(entries) = n + 1 /\ entries[1] = t
      /\ DOMAIN entries = 1 .. n + 1 /\ DOMAIN entries' = 1 .. n
      /\ \A i \in 1 .. n : entries'[i] = entries[i + 1]
  <2>1. Len(entries) \in Nat /\ DOMAIN entries = 1 .. Len(entries) BY <1>4, LenProperties
  <2>2. Len(entries) # 0 BY <1>3, <1>4, EmptySeq
  <2>3. /\ Head(entries) \in Target /\ Tail(entries) \in Seq(Target)
      BY <1>3, <1>4, HeadTailProperties
  <2>4. /\ Len(Tail(entries)) = Len(entries) - 1
        /\ \A i \in 1 .. Len(Tail(entries)) : Tail(entries)[i] = entries[i + 1]
      BY <1>3, <1>4, HeadTailProperties
  <2>5. DOMAIN entries' = 1 .. n BY <1>3, <2>3, <2>4, LenProperties
  <2>6. entries[1] = t BY <1>3, <1>4
  <2> QED BY <1>3, <2>1, <2>2, <2>3, <2>4, <2>5, <2>6
<1>6. p \in {"first", "second"} /\ (p = "first" <=> t # NoCell) OBVIOUS
<1> HIDE DEF t, p
<1>7. /\ v \in [pc : {"idle", "first", "second", "finish", "leave", "parked", "gone"}, on : Target]
      /\ v.pc = p /\ wrk[w].pc = "idle"
    BY <1>3, <1>5, <1>6 DEF Idle
<1> HIDE DEF v, n
<1>8. used = Waits + ReqsIn(SlottedPc) BY <1>1 DEF SlotsOut, Waits, ReqsIn
<1>9. Waits \in Nat /\ ReqsIn(SlottedPc) \in Nat /\ Waits = n + 1 /\ Waits' = n
    BY <1>1, <1>5, BandNumbers DEF Waits
<1>10. used \in 0 .. Capacity /\ used' \in 0 .. Capacity /\ used \in Nat
  <2>1. used \in 0 .. Capacity /\ Capacity \in Nat BY <1>1, BandBounds DEF BandTypeOK
  <2> QED BY <1>3, <1>5, <1>8, <1>9, <2>1
<1>11. BandTypeOK'
  <2>1. /\ finished' \in [Workers -> Nat] /\ seen' \in [Cells -> Nat]
        /\ queued' \in [Cells -> BOOLEAN]
      BY <1>1, <1>2 DEF BandTypeOK
  <2> QED BY <1>1, <1>2, <1>3, <1>5, <1>7, <1>10, <2>1, WrkTyped
<1>12. Counted'
  <2>1. /\ WrksIn(BusyPc) \in Nat /\ WrksIn(BusyPc)' \in Nat
        /\ WrksIn(BusyPc)' + One(wrk[w], BusyPc) = WrksIn(BusyPc) + One(v, BusyPc)
      BY <1>1, <1>3, WrkMoves
  <2>2. One(wrk[w], BusyPc) = 0 /\ One(v, BusyPc) = 1 BY <1>6, <1>7 DEF One, BusyPc
  <2>3. ReqsIn(CountedPc)' = ReqsIn(CountedPc) BY <1>2 DEF ReqsIn, In
  <2>4. ReqsIn(CountedPc) \in Nat /\ count \in Nat BY <1>1, BandNumbers
  <2>5. /\ count' + Waits + ReqsIn(CountedPc) + WrksIn(BusyPc)
            >= count + Waits' + ReqsIn(CountedPc)' + WrksIn(BusyPc)'
        /\ count' \in Nat /\ Waits' \in Nat /\ ReqsIn(CountedPc)' \in Nat
      BY <1>2, <1>5, <1>9, <2>1, <2>2, <2>3, <2>4
  <2> QED BY <1>1, <1>2, <2>1, <2>5, CountKept
<1>13. SlotsOut'
  <2>1. ReqsIn(SlottedPc)' = ReqsIn(SlottedPc) BY <1>2 DEF ReqsIn, In
  <2>2. used' = Waits' + ReqsIn(SlottedPc)' BY <1>3, <1>5, <1>8, <1>9, <1>10, <2>1
  <2> QED BY <2>2 DEF SlotsOut, Waits, ReqsIn
<1>14. SealIdle'
  <2> SUFFICES ASSUME NEW x \in Workers, seal'[x] # NoSeal PROVE wrk'[x] = Idle
      BY DEF SealIdle, Workers, NoSeal, Idle
  <2>2. x # w BY <1>2, <1>3
  <2>3. wrk'[x] = wrk[x] BY <1>1, <1>3, <2>2, WrkFacts
  <2> QED BY <1>1, <1>2, <2>3 DEF SealIdle
<1>15. SealedIsDrained' BY <1>1, <1>2, <1>3 DEF SealedIsDrained
<1>16. ASSUME NEW c \in Cells PROVE MarkedOnce(c)'
  <2>1. /\ \A x : x # w => (AtWrk(c, x)' <=> AtWrk(c, x))
        /\ AtWrk(c, w)' <=> v = [pc |-> "first", on |-> c]
      BY <1>1, <1>3, WrkAt
  <2>2. ~AtWrk(c, w)
    <3>1. [pc |-> "first", on |-> c].pc = "first" OBVIOUS
    <3> QED BY <1>7, <3>1 DEF AtWrk
  <2>3. c # NoCell BY BandBounds
  <2>4. AtWrk(c, w)' <=> t = c BY <1>6, <2>1, <2>3 DEF v
  <2>5. \A r : AtReq(c, r)' <=> AtReq(c, r) BY <1>2 DEF AtReq
  <2>6. queued'[c] = queued[c] BY <1>2
  <2>7. \A i : AtEntry(c, i)' <=> i \in 1 .. n /\ entries[i + 1] = c BY <1>5 DEF AtEntry
  <2>8. \A i : AtEntry(c, i) <=> i \in 1 .. n + 1 /\ entries[i] = c BY <1>5 DEF AtEntry
  <2>9. \A i \in 1 .. n : i + 1 \in 1 .. n + 1 /\ i + 1 # 1 BY <1>5
  <2>10. CASE t # c
    <3>1. \A x : AtWrk(c, x)' <=> AtWrk(c, x) BY <2>1, <2>2, <2>4, <2>10
    <3>2. \A i : AtEntry(c, i)' => i \in Int /\ AtEntry(c, i + 1) BY <2>7, <2>8, <2>9
    <3>3. \A i : AtEntry(c, i) => i \in Int /\ AtEntry(c, i - 1)'
      <4> SUFFICES ASSUME NEW i, AtEntry(c, i) PROVE i \in Int /\ AtEntry(c, i - 1)' OBVIOUS
      <4>1. i \in 1 .. n + 1 /\ entries[i] = c BY <2>8
      <4>2. i # 1 BY <1>5, <2>10, <4>1
      <4>3. i - 1 \in 1 .. n /\ (i - 1) + 1 = i BY <1>5, <4>1, <4>2
      <4> QED BY <2>7, <4>1, <4>3
    <3>4. \A i, j : AtEntry(c, i)' /\ AtEntry(c, j)' => queued[c] /\ j = i
      <4> SUFFICES ASSUME NEW i, NEW j, AtEntry(c, i)', AtEntry(c, j)' PROVE queued[c] /\ j = i
          OBVIOUS
      <4>1. AtEntry(c, i + 1) /\ AtEntry(c, j + 1) /\ i \in Int /\ j \in Int BY <3>2
      <4>2. queued[c] /\ j + 1 = i + 1 BY <1>1, <4>1 DEF MarkedOnce
      <4> QED BY <4>1, <4>2
    <3>5. (\E i : AtEntry(c, i)') <=> (\E i : AtEntry(c, i)) BY <3>2, <3>3
    <3> QED BY <1>1, <2>5, <2>6, <3>1, <3>4, <3>5 DEF MarkedOnce
  <2>11. CASE t = c
    <3>1. AtEntry(c, 1)
      <4>1. 1 \in 1 .. n + 1 BY <1>5
      <4> QED BY <1>5, <2>8, <2>11, <4>1
    <3>2. /\ queued[c]
          /\ \A j : AtEntry(c, j) => j = 1
          /\ \A r : ~AtReq(c, r)
          /\ \A x : ~AtWrk(c, x)
        BY <1>1, <3>1 DEF MarkedOnce
    <3>3. \A i : ~AtEntry(c, i)' BY <2>7, <2>8, <2>9, <3>2
    <3>4. \A x : AtWrk(c, x)' <=> x = w BY <2>1, <2>4, <2>11, <3>2
    <3> QED BY <2>5, <2>6, <3>2, <3>3, <3>4, OneHolder
  <2> QED BY <2>10, <2>11
<1> QED BY <1>11, <1>12, <1>13, <1>14, <1>15, <1>16 DEF BandInv

\* Only a seal goes on, with a sum of no more than was run.
LEMMA SealGoes ==
    ASSUME BandInv, NEW s \in Sealers, NEW k \in 1 .. NumWorkers + 1, NEW m \in Nat,
           seal' = [seal EXCEPT ![s] = [slot |-> k, sum |-> m]],
           s \in Workers => wrk[s] = Idle,
           \A T : /\ SumOf(T)
                  /\ seal[s].slot > 0 => seal[s].sum <= T[seal[s].slot - 1]
                  => m <= T[k - 1],
           UNCHANGED <<band_state, band_down, count, finished, entries, used, queued, wrote, seen,
                       req, wrk, stop, byOwn, requests, cycles>>
    PROVE  BandInv'
<1>1. /\ BandTypeOK /\ Counted /\ SlotsOut /\ SealIdle /\ SealedIsDrained
      /\ \A c \in Cells : MarkedOnce(c)
    BY DEF BandInv
<1>2. seal \in [Sealers -> [slot : 0 .. NumWorkers + 1, sum : Nat]] BY <1>1 DEF BandTypeOK
<1>3. /\ seal'[s] = [slot |-> k, sum |-> m]
      /\ \A x \in Sealers : x # s => seal'[x] = seal[x]
    BY <1>2
<1>4. BandTypeOK'
  <2>1. [slot |-> k, sum |-> m] \in [slot : 0 .. NumWorkers + 1, sum : Nat] BY BandNumbers, <1>1
  <2>2. seal' \in [Sealers -> [slot : 0 .. NumWorkers + 1, sum : Nat]] BY <1>2, <2>1
  <2> QED BY <1>1, <2>2 DEF BandTypeOK, Target, Workers, Sealers, Stopper, BandStates
<1>5. Counted'
  <2>1. PICK T : /\ SumOf(T)
                 /\ count >= T[NumWorkers] + Waits + ReqsIn(CountedPc) + WrksIn(BusyPc)
                 /\ \A x \in Sealers : seal[x].slot > 0 => seal[x].sum <= T[seal[x].slot - 1]
      BY <1>1 DEF Counted, Waits, ReqsIn, WrksIn
  <2>2. SumOf(T)' BY <2>1 DEF SumOf, Workers
  <2>3. m <= T[k - 1] BY <2>1
  <2>4. ASSUME NEW x \in Sealers, seal'[x].slot > 0 PROVE seal'[x].sum <= T[seal'[x].slot - 1]
    <3>1. CASE x = s BY <1>3, <2>3, <3>1
    <3>2. CASE x # s BY <1>3, <2>1, <2>4, <3>2
    <3> QED BY <3>1, <3>2
  <2>5. \A x \in Sealers : seal'[x].slot > 0 => seal'[x].sum <= T[seal'[x].slot - 1] BY <2>4
  <2>6. count' >= T[NumWorkers] + Waits' + ReqsIn(CountedPc)' + WrksIn(BusyPc)'
      BY <2>1 DEF Waits, ReqsIn, WrksIn, In, Workers
  <2> QED BY <2>2, <2>5, <2>6 DEF Counted, Waits, ReqsIn, WrksIn, Sealers, Workers
<1>6. SlotsOut' BY <1>1 DEF SlotsOut, In
<1>7. SealIdle'
  <2> SUFFICES ASSUME NEW x \in Workers, seal'[x] # NoSeal PROVE wrk'[x] = Idle
      BY DEF SealIdle, Workers, NoSeal, Idle
  <2>1. CASE x = s BY <2>1
  <2>2. CASE x # s
    <3>1. x \in Sealers BY DEF Sealers
    <3> QED BY <1>1, <1>3, <2>2, <3>1 DEF SealIdle
  <2> QED BY <2>1, <2>2
<1>8. SealedIsDrained' BY <1>1 DEF SealedIsDrained, Busy, Accepted, Workers
<1>9. ASSUME NEW c \in Cells PROVE MarkedOnce(c)'
  <2>1. \A i : AtEntry(c, i)' <=> AtEntry(c, i) BY DEF AtEntry
  <2>2. \A r : AtReq(c, r)' <=> AtReq(c, r) BY DEF AtReq
  <2>3. \A w : AtWrk(c, w)' <=> AtWrk(c, w) BY DEF AtWrk, Workers
  <2> QED BY <1>1, <2>1, <2>2, <2>3, MarksKept
<1> QED BY <1>4, <1>5, <1>6, <1>7, <1>8, <1>9 DEF BandInv

\* A seal begins.
LEMMA SealStarts ==
    ASSUME BandInv, SealBegin \/ \E w \in Workers : FoundEmpty(w) /\ band_state = "STOPPING"
    PROVE  BandInv'
<1>1. BandTypeOK BY DEF BandInv
<1>2. UNCHANGED <<band_state, band_down, count, finished, entries, used, queued, wrote, seen,
                  req, wrk, stop, byOwn, requests, cycles>>
    BY DEF SealBegin, FoundEmpty, word, stopVars, callbackVars
<1>3. PICK s \in Sealers : /\ seal[s] = NoSeal /\ seal' = [seal EXCEPT ![s].slot = 1]
                           /\ s \in Workers => wrk[s] = Idle
  <2>1. ASSUME SealBegin
        PROVE  /\ Stopper \in Sealers /\ seal[Stopper] = NoSeal
               /\ seal' = [seal EXCEPT ![Stopper].slot = 1] /\ Stopper \notin Workers
      BY <2>1 DEF SealBegin, Sealers, Stopper, Workers
  <2>2. ASSUME NEW w \in Workers, FoundEmpty(w), band_state = "STOPPING"
        PROVE  /\ w \in Sealers /\ seal[w] = NoSeal /\ seal' = [seal EXCEPT ![w].slot = 1]
               /\ wrk[w] = Idle
      BY <2>2 DEF FoundEmpty, Sealers
  <2> QED BY <2>1, <2>2
<1>4. seal \in [Sealers -> [slot : 0 .. NumWorkers + 1, sum : Nat]] BY <1>1 DEF BandTypeOK
<1>5. [seal[s] EXCEPT !.slot = 1] = [slot |-> 1, sum |-> 0] BY <1>3 DEF NoSeal
<1>6. seal' = [seal EXCEPT ![s] = [slot |-> 1, sum |-> 0]] BY <1>3, <1>4, <1>5
<1>7. 1 \in 1 .. NumWorkers + 1 /\ 0 \in Nat BY <1>1, BandNumbers
<1> DEFINE k == 1
           m == 0
<1>8. \A T : SumOf(T) => m <= T[k - 1]
  <2> SUFFICES ASSUME NEW T, SumOf(T) PROVE 0 <= T[0] OBVIOUS
  <2> QED BY DEF SumOf
<1>9. k \in 1 .. NumWorkers + 1 /\ m \in Nat /\ seal' = [seal EXCEPT ![s] = [slot |-> k, sum |-> m]]
    BY <1>6, <1>7
<1> HIDE DEF k, m
<1> QED BY <1>2, <1>3, <1>8, <1>9, SealGoes

\* A seal adds a worker's count.
LEMMA SealSums ==
    ASSUME BandInv, NEW s \in Sealers, SealSum(s)
    PROVE  BandInv'
<1>1. BandTypeOK /\ SealIdle BY DEF BandInv
<1>2. UNCHANGED <<band_state, band_down, count, finished, entries, used, queued, wrote, seen,
                  req, wrk, stop, byOwn, requests, cycles>>
    BY DEF SealSum, word, stopVars, callbackVars
<1> DEFINE j == seal[s].slot
           k == j + 1
           m == seal[s].sum + finished[j]
<1>3. seal \in [Sealers -> [slot : 0 .. NumWorkers + 1, sum : Nat]] BY <1>1 DEF BandTypeOK
<1>4. j \in Workers /\ seal' = [seal EXCEPT ![s] = [slot |-> k, sum |-> m]] BY <1>3 DEF SealSum
<1>5. /\ j \in 1 .. NumWorkers /\ seal[s].sum \in Nat /\ finished[j] \in Nat
      /\ j \in 0 .. NumWorkers /\ j - 1 \in 0 .. NumWorkers /\ j > 0
  <2>1. NumWorkers \in Nat /\ j \in 1 .. NumWorkers BY <1>1, <1>4, BandNumbers DEF Workers
  <2> QED BY <1>1, <1>3, <1>4, <2>1 DEF BandTypeOK
<1>6. k \in 1 .. NumWorkers + 1 /\ m \in Nat /\ k - 1 = j
  <2>1. NumWorkers \in Nat BY <1>1, BandNumbers
  <2> HIDE DEF j
  <2> QED BY <1>5, <2>1
<1>7. s \in Workers => wrk[s] = Idle
  <2>1. NoSeal.slot = 0 BY DEF NoSeal
  <2>2. seal[s] # NoSeal BY <1>5, <2>1
  <2> QED BY <1>1, <2>2 DEF SealIdle
<1>8. ASSUME NEW T, SumOf(T), seal[s].slot > 0 => seal[s].sum <= T[seal[s].slot - 1]
      PROVE  m <= T[k - 1]
  <2>1. seal[s].sum <= T[j - 1] BY <1>5, <1>8
  <2>2. T[j] = T[j - 1] + finished[j] BY <1>4, <1>8 DEF SumOf
  <2>3. T[j - 1] \in Nat BY <1>5, <1>8 DEF SumOf
  <2> HIDE DEF j
  <2>4. m <= T[j] BY <1>5, <2>1, <2>2, <2>3
  <2> QED BY <1>6, <2>4
<1> HIDE DEF k, m
<1> QED BY <1>2, <1>4, <1>6, <1>7, <1>8, SealGoes

\* A word that counts no more than a seal's sum counts nothing that is yet to run.
LEMMA NothingLeft ==
    ASSUME BandTypeOK, Counted, NEW s \in Sealers, seal[s].slot = NumWorkers + 1, count = seal[s].sum
    PROVE  entries = <<>> /\ Busy = {} /\ Accepted = {}
<1>1. PICK T : /\ SumOf(T)
               /\ count >= T[NumWorkers] + Waits + ReqsIn(CountedPc) + WrksIn(BusyPc)
               /\ \A x \in Sealers : seal[x].slot > 0 => seal[x].sum <= T[seal[x].slot - 1]
    BY DEF Counted, Waits, ReqsIn, WrksIn
<1>2. /\ Waits \in Nat /\ ReqsIn(CountedPc) \in Nat /\ WrksIn(BusyPc) \in Nat /\ count \in Nat
      /\ NumWorkers \in Nat /\ NumWorkers > 0
    BY BandNumbers
<1>3. NumWorkers + 1 > 0 /\ (NumWorkers + 1) - 1 = NumWorkers /\ NumWorkers \in 0 .. NumWorkers
    BY <1>2
<1>4. seal[s].sum <= T[NumWorkers] BY <1>1, <1>3
<1>5. T[NumWorkers] \in Nat BY <1>1, <1>3 DEF SumOf
<1>6. count <= T[NumWorkers] BY <1>4
<1>7. Waits = 0 /\ ReqsIn(CountedPc) = 0 /\ WrksIn(BusyPc) = 0 BY <1>1, <1>2, <1>5, <1>6
<1>8. entries = <<>> BY <1>7, EmptySeq DEF Waits, BandTypeOK
<1>9. Busy = {}
  <2>1. \A w \in Workers : wrk[w].pc \notin BusyPc BY <1>7, SomeAt
  <2> QED BY <2>1 DEF Busy, BusyPc
<1>10. Accepted = {}
  <2>1. \A r \in Requesters : req[r].pc \notin CountedPc BY <1>7, SomeAt
  <2> QED BY <2>1 DEF Accepted, CountedPc
<1> QED BY <1>8, <1>9, <1>10

\* The CAS of a seal: it stops the band only when all that was counted was run.
LEMMA SealEnds ==
    ASSUME BandInv, NEW s \in Sealers, SealCas(s)
    PROVE  BandInv'
<1>1. /\ BandTypeOK /\ Counted /\ SlotsOut /\ SealIdle /\ SealedIsDrained
      /\ \A c \in Cells : MarkedOnce(c)
    BY DEF BandInv
<1>2. UNCHANGED <<band_down, count, finished, entries, used, queued, wrote, seen, req, stop,
                  cycles, requests>>
    BY DEF SealCas, callbackVars
<1> DEFINE L == [wrk[s] EXCEPT !.pc = "leave"]
<1>3. /\ seal[s].slot = NumWorkers + 1 /\ seal' = [seal EXCEPT ![s] = NoSeal]
      /\ band_state' = IF Drained(seal[s].sum) THEN "STOPPED" ELSE band_state
      /\ byOwn' = IF Drained(seal[s].sum) THEN FALSE ELSE byOwn
      /\ wrk' = [w \in Workers |-> IF w = s THEN L ELSE wrk[w]]
    BY DEF SealCas
<1>4. seal \in [Sealers -> [slot : 0 .. NumWorkers + 1, sum : Nat]] BY <1>1 DEF BandTypeOK
<1>5. seal'[s] = NoSeal /\ \A x \in Sealers : x # s => seal'[x] = seal[x] BY <1>3, <1>4
<1>6. s \in Workers => wrk[s] = Idle
  <2>1. NoSeal.slot = 0 /\ NumWorkers + 1 # 0 BY <1>1, BandNumbers DEF NoSeal
  <2>2. seal[s] # NoSeal BY <1>3, <2>1
  <2> QED BY <1>1, <2>2 DEF SealIdle
<1>7. s \in Workers => L = [pc |-> "leave", on |-> NoCell] BY <1>6 DEF Idle
<1>8. s \in Workers => wrk[s].pc = "idle" /\ L.pc = "leave" BY <1>6, <1>7 DEF Idle
<1> HIDE DEF L
<1>9. \A w \in Workers : wrk'[w] = IF w = s THEN L ELSE wrk[w] BY <1>3
<1>10. BandTypeOK'
  <2> DEFINE R == [pc : {"idle", "first", "second", "finish", "leave", "parked", "gone"}, on : Target]
  <2>1. s \in Workers => L \in R BY <1>7 DEF Target
  <2>2. wrk \in [Workers -> R] BY <1>1 DEF BandTypeOK
  <2> HIDE DEF R
  <2>3. wrk' \in [Workers -> R] BY <1>3, <2>1, <2>2
  <2>4. NoSeal \in [slot : 0 .. NumWorkers + 1, sum : Nat] BY <1>1, BandNumbers DEF NoSeal
  <2>5. seal' \in [Sealers -> [slot : 0 .. NumWorkers + 1, sum : Nat]] BY <1>3, <1>4, <2>4
  <2>6. band_state' \in BandStates /\ byOwn' \in BOOLEAN BY <1>1, <1>3 DEF BandTypeOK, BandStates
  <2> QED BY <1>1, <1>2, <2>3, <2>5, <2>6 DEF BandTypeOK, R, Target, Workers, Sealers, Stopper, BandStates
<1>11. In(wrk, Workers, BusyPc)' = In(wrk, Workers, BusyPc)
  <2>1. \A w \in Workers : wrk'[w].pc \in BusyPc <=> wrk[w].pc \in BusyPc
    <3> SUFFICES ASSUME NEW w \in Workers PROVE wrk'[w].pc \in BusyPc <=> wrk[w].pc \in BusyPc
        OBVIOUS
    <3>1. CASE w = s
      <4>1. wrk'[w].pc = "leave" /\ wrk[w].pc = "idle" BY <1>8, <1>9, <3>1
      <4> QED BY <4>1 DEF BusyPc
    <3>2. CASE w # s BY <1>9, <3>2
    <3> QED BY <3>1, <3>2
  <2> QED BY <2>1 DEF In, Workers, BusyPc
<1>12. Counted'
  <2>1. PICK T : /\ SumOf(T)
                 /\ count >= T[NumWorkers] + Waits + ReqsIn(CountedPc) + WrksIn(BusyPc)
                 /\ \A x \in Sealers : seal[x].slot > 0 => seal[x].sum <= T[seal[x].slot - 1]
      BY <1>1 DEF Counted, Waits, ReqsIn, WrksIn
  <2>2. SumOf(T)' BY <1>2, <2>1 DEF SumOf, Workers
  <2>3. ASSUME NEW x \in Sealers, seal'[x].slot > 0 PROVE seal'[x].sum <= T[seal'[x].slot - 1]
    <3>1. CASE x = s BY <1>5, <2>3, <3>1 DEF NoSeal
    <3>2. CASE x # s BY <1>5, <2>1, <2>3, <3>2
    <3> QED BY <3>1, <3>2
  <2>4. \A x \in Sealers : seal'[x].slot > 0 => seal'[x].sum <= T[seal'[x].slot - 1] BY <2>3
  <2>5. count' >= T[NumWorkers] + Waits' + ReqsIn(CountedPc)' + WrksIn(BusyPc)'
    <3>1. WrksIn(BusyPc)' = WrksIn(BusyPc) BY <1>11 DEF WrksIn
    <3>2. Waits' = Waits /\ ReqsIn(CountedPc)' = ReqsIn(CountedPc) BY <1>2 DEF Waits, ReqsIn, In
    <3> QED BY <1>2, <2>1, <3>1, <3>2
  <2> QED BY <2>2, <2>4, <2>5 DEF Counted, Waits, ReqsIn, WrksIn, Sealers, Workers
<1>13. SlotsOut' BY <1>1, <1>2 DEF SlotsOut, In
<1>14. SealIdle'
  <2> SUFFICES ASSUME NEW x \in Workers, seal'[x] # NoSeal PROVE wrk'[x] = Idle
      BY DEF SealIdle, Workers, NoSeal, Idle
  <2>1. x # s /\ x \in Sealers BY <1>5 DEF Sealers
  <2> QED BY <1>1, <1>5, <1>9, <2>1 DEF SealIdle
<1>15. SealedIsDrained'
  <2>1. Busy' = Busy BY <1>11 DEF Busy, In, BusyPc, Workers
  <2>2. Accepted' = Accepted BY <1>2 DEF Accepted
  <2>3. CASE Drained(seal[s].sum)
    <3>1. count = seal[s].sum BY <2>3 DEF Drained
    <3>2. entries = <<>> /\ Busy = {} /\ Accepted = {} BY <1>1, <1>3, <3>1, NothingLeft
    <3> QED BY <1>2, <2>1, <2>2, <3>2 DEF SealedIsDrained
  <2>4. CASE ~Drained(seal[s].sum)
    <3>1. band_state' = band_state /\ byOwn' = byOwn BY <1>3, <2>4
    <3> QED BY <1>1, <1>2, <2>1, <2>2, <3>1 DEF SealedIsDrained
  <2> QED BY <2>3, <2>4
<1>16. ASSUME NEW c \in Cells PROVE MarkedOnce(c)'
  <2>1. \A i : AtEntry(c, i)' <=> AtEntry(c, i) BY <1>2 DEF AtEntry
  <2>2. \A r : AtReq(c, r)' <=> AtReq(c, r) BY <1>2 DEF AtReq
  <2>3. ASSUME NEW w \in Workers PROVE AtWrk(c, w)' <=> AtWrk(c, w)
    <3> DEFINE f == [pc |-> "first", on |-> c]
    <3>1. f.pc = "first" OBVIOUS
    <3> HIDE DEF f
    <3>2. CASE w = s
      <4>1. wrk'[w] # f /\ wrk[w] # f BY <1>8, <1>9, <3>1, <3>2
      <4> QED BY <4>1 DEF AtWrk, f
    <3>3. CASE w # s BY <1>9, <3>3 DEF AtWrk, Workers
    <3> QED BY <3>2, <3>3
  <2>4. \A w : AtWrk(c, w)' <=> AtWrk(c, w)
    <3>1. \A w : AtWrk(c, w) => w \in Workers BY DEF AtWrk
    <3>2. \A w : AtWrk(c, w)' => w \in Workers BY DEF AtWrk, Workers
    <3> QED BY <2>3, <3>1, <3>2
  <2>5. queued'[c] = queued[c] BY <1>2
  <2> QED BY <1>1, <2>1, <2>2, <2>4, <2>5, MarksKept
<1> QED BY <1>10, <1>12, <1>13, <1>14, <1>15, <1>16 DEF BandInv

\* The steps that move the band from state to state.
LEMMA StateKept ==
    ASSUME BandInv,
           arm \/ StopBegin \/ StopReturn \/ cleanup \/ Shutdown \/ \E w \in Workers : OwnStop(w)
    PROVE  BandInv'
<1>1. /\ BandTypeOK /\ Counted /\ SlotsOut /\ SealIdle /\ SealedIsDrained
      /\ \A c \in Cells : MarkedOnce(c)
    BY DEF BandInv
<1>2. UNCHANGED <<count, finished, entries, used, queued, wrote, seen, req, wrk, seal, requests>>
    BY DEF arm, StopBegin, StopReturn, cleanup, Shutdown, OwnStop, word, callbackVars, stopVars
<1>3. /\ band_state' \in BandStates /\ band_down' \in BOOLEAN /\ byOwn' \in BOOLEAN
      /\ stop' \in {"no", "polling"}
    BY <1>1 DEF arm, StopBegin, StopReturn, cleanup, Shutdown, OwnStop, word, stopVars,
                BandTypeOK, BandStates
<1>4. cycles' \in 0 .. MaxCycles
  <2>1. cycles \in 0 .. MaxCycles /\ MaxCycles \in Nat BY <1>1, BandBounds DEF BandTypeOK
  <2>2. cycles' = cycles \/ (cycles < MaxCycles /\ cycles' = cycles + 1)
      BY DEF arm, StopBegin, StopReturn, cleanup, Shutdown, OwnStop, stopVars
  <2> QED BY <2>1, <2>2
<1>5. BandTypeOK'
    BY <1>1, <1>2, <1>3, <1>4 DEF BandTypeOK, Target, Workers, Sealers, Stopper, BandStates
<1>6. band_state' = "STOPPED" /\ ~byOwn' => band_state = "STOPPED" /\ ~byOwn
    BY DEF arm, StopBegin, StopReturn, cleanup, Shutdown, OwnStop, word, stopVars
<1>7. Counted' BY <1>1, <1>2 DEF Counted, SumOf, In, Workers, Sealers
<1>8. SlotsOut' BY <1>1, <1>2 DEF SlotsOut, In
<1>9. SealIdle' BY <1>1, <1>2 DEF SealIdle, Workers, NoSeal, Idle
<1>10. SealedIsDrained'
  <2>1. Busy' = Busy /\ Accepted' = Accepted /\ entries' = entries
      BY <1>2 DEF Busy, Accepted, Workers
  <2> QED BY <1>1, <1>6, <2>1 DEF SealedIsDrained
<1>11. ASSUME NEW c \in Cells PROVE MarkedOnce(c)'
  <2>1. \A i : AtEntry(c, i)' <=> AtEntry(c, i) BY <1>2 DEF AtEntry
  <2>2. \A r : AtReq(c, r)' <=> AtReq(c, r) BY <1>2 DEF AtReq
  <2>3. \A w : AtWrk(c, w)' <=> AtWrk(c, w) BY <1>2 DEF AtWrk, Workers
  <2>4. queued'[c] = queued[c] BY <1>2
  <2> QED BY <1>1, <2>1, <2>2, <2>3, <2>4, MarksKept
<1> QED BY <1>5, <1>7, <1>8, <1>9, <1>10, <1>11 DEF BandInv

\* What is left of a shut-down band's queue is dropped, and its cells' marks.
LEMMA DropKept ==
    ASSUME BandInv, DropQueue
    PROVE  BandInv'
<1>1. /\ BandTypeOK /\ Counted /\ SlotsOut /\ SealIdle /\ SealedIsDrained
      /\ \A c \in Cells : MarkedOnce(c)
    BY DEF BandInv
<1>2. UNCHANGED <<band_state, band_down, count, finished, wrote, seen, req, wrk, seal, stop, byOwn,
                  cycles, requests>>
    BY DEF DropQueue, word, stopVars
<1>3. /\ entries # <<>> /\ entries' = <<>> /\ used' = 0
      /\ queued' = [c \in Cells |-> queued[c] /\ \A i \in DOMAIN entries : entries[i] # c]
      /\ \A w \in Workers : wrk[w].pc = "gone"
      /\ \A r \in Requesters : req[r].pc = "idle"
    BY DEF DropQueue, Idle
<1>4. BandTypeOK'
  <2>1. queued' \in [Cells -> BOOLEAN] BY <1>1, <1>3 DEF BandTypeOK
  <2>2. entries' \in Seq(Target) /\ used' \in 0 .. Capacity BY <1>3, BandBounds
  <2> QED BY <1>1, <1>2, <2>1, <2>2 DEF BandTypeOK, Target, Workers, Sealers, Stopper, BandStates
<1>5. Waits' = 0 BY <1>3 DEF Waits
<1>6. Counted'
  <2>1. Waits \in Nat /\ ReqsIn(CountedPc) \in Nat /\ WrksIn(BusyPc) \in Nat /\ count \in Nat
      BY <1>1, BandNumbers
  <2>2. ReqsIn(CountedPc)' = ReqsIn(CountedPc) /\ WrksIn(BusyPc)' = WrksIn(BusyPc)
      BY <1>2 DEF ReqsIn, WrksIn, In, Workers
  <2>3. /\ count' + Waits + ReqsIn(CountedPc) + WrksIn(BusyPc)
            >= count + Waits' + ReqsIn(CountedPc)' + WrksIn(BusyPc)'
        /\ count' \in Nat /\ Waits' \in Nat /\ ReqsIn(CountedPc)' \in Nat /\ WrksIn(BusyPc)' \in Nat
      BY <1>2, <1>5, <2>1, <2>2
  <2> QED BY <1>1, <1>2, <2>3, CountKept
<1>7. SlotsOut'
  <2>1. In(req, Requesters, SlottedPc)' = {} BY <1>2, <1>3 DEF In, SlottedPc
  <2>2. ReqsIn(SlottedPc)' = 0 BY <2>1, FS_EmptySet DEF ReqsIn
  <2>3. used' = Waits' + ReqsIn(SlottedPc)' BY <1>3, <1>5, <2>2
  <2> QED BY <2>3 DEF SlotsOut, Waits, ReqsIn
<1>8. SealIdle' BY <1>1, <1>2 DEF SealIdle, Workers, NoSeal, Idle
<1>9. SealedIsDrained' BY <1>1, <1>2, <1>3 DEF SealedIsDrained
<1>10. ASSUME NEW c \in Cells PROVE MarkedOnce(c)'
  <2>1. \A i : ~AtEntry(c, i)'
    <3>1. DOMAIN entries' = {} BY <1>3
    <3> QED BY <3>1 DEF AtEntry
  <2>2. [pc |-> "publish", on |-> c].pc = "publish" /\ [pc |-> "first", on |-> c].pc = "first" OBVIOUS
  <2>3. \A r : ~AtReq(c, r) BY <1>3, <2>2 DEF AtReq
  <2>4. \A w : ~AtWrk(c, w) BY <1>3, <2>2 DEF AtWrk
  <2>5. \A r : ~AtReq(c, r)' BY <1>2, <2>3 DEF AtReq
  <2>6. \A w : ~AtWrk(c, w)' BY <1>2, <2>4 DEF AtWrk, Workers
  <2>7. queued[c] => \E i : AtEntry(c, i) BY <1>1, <2>3, <2>4 DEF MarkedOnce
  <2>8. ~queued'[c] BY <1>3, <2>7 DEF AtEntry
  <2> QED BY <2>1, <2>5, <2>6, <2>8, OneHolder
<1> QED BY <1>4, <1>6, <1>7, <1>8, <1>9, <1>10 DEF BandInv

\* Before the first request.
LEMMA BandStarts ==
    ASSUME BandInit
    PROVE  BandInv
<1>1. NumWorkers \in Nat /\ NumWorkers > 0 /\ Capacity \in Nat /\ MaxRequests \in Nat /\ MaxCycles \in Nat
    BY BandBounds
<1>2. /\ Idle \in [pc : {"idle", "admit", "refuse", "slot", "claim", "publish"}, on : Target]
      /\ Idle \in [pc : {"idle", "first", "second", "finish", "leave", "parked", "gone"}, on : Target]
      /\ NoSeal \in [slot : 0 .. NumWorkers + 1, sum : Nat]
      /\ Idle.pc = "idle" /\ NoSeal.slot = 0
    BY <1>1 DEF Idle, NoSeal, Target
<1>3. BandTypeOK
  <2> DEFINE Q == [pc : {"idle", "admit", "refuse", "slot", "claim", "publish"}, on : Target]
             R == [pc : {"idle", "first", "second", "finish", "leave", "parked", "gone"}, on : Target]
             S == [slot : 0 .. NumWorkers + 1, sum : Nat]
  <2>1. Idle \in Q /\ Idle \in R /\ NoSeal \in S BY <1>2
  <2> HIDE DEF Q, R, S
  <2>2. req \in [Requesters -> Q] /\ wrk \in [Workers -> R] /\ seal \in [Sealers -> S]
      BY <2>1 DEF BandInit
  <2>3. /\ finished \in [Workers -> Nat] /\ queued \in [Cells -> BOOLEAN]
        /\ wrote \in [Cells -> Nat] /\ seen \in [Cells -> Nat]
      BY DEF BandInit
  <2>4. /\ band_state \in BandStates /\ stop \in {"no", "polling"}
        /\ band_down \in BOOLEAN /\ byOwn \in BOOLEAN
      BY DEF BandInit, BandStates
  <2>5. /\ count \in Nat /\ used \in 0 .. Capacity
        /\ requests \in 0 .. MaxRequests /\ cycles \in 0 .. MaxCycles
      BY <1>1 DEF BandInit
  <2>6. entries \in Seq(Target) BY DEF BandInit
  <2> QED BY <2>2, <2>3, <2>4, <2>5, <2>6 DEF BandTypeOK, Q, R, S
<1>4. /\ In(req, Requesters, CountedPc) = {} /\ In(req, Requesters, SlottedPc) = {}
      /\ In(wrk, Workers, BusyPc) = {}
    BY <1>2 DEF BandInit, In, CountedPc, SlottedPc, BusyPc
<1>5. Cardinality({}) = 0 BY FS_EmptySet
<1>6. Len(entries) = 0 /\ used = 0 /\ count = 0 BY DEF BandInit
<1>7. Counted
  <2> DEFINE T == [n \in 0 .. NumWorkers |-> 0]
  <2>1. \A w \in Workers : w \in 0 .. NumWorkers /\ w - 1 \in 0 .. NumWorkers BY <1>1 DEF Workers
  <2>2. SumOf(T) BY <1>1, <2>1 DEF SumOf, BandInit
  <2>3. T[NumWorkers] = 0 BY <1>1
  <2>4. \A s \in Sealers : ~(seal[s].slot > 0) BY <1>2 DEF BandInit
  <2> HIDE DEF T
  <2>5. count >= T[NumWorkers] + Len(entries) + Cardinality(In(req, Requesters, CountedPc))
                 + Cardinality(In(wrk, Workers, BusyPc))
      BY <1>4, <1>5, <1>6, <2>3
  <2> QED BY <2>2, <2>4, <2>5 DEF Counted
<1>8. SlotsOut BY <1>4, <1>5, <1>6 DEF SlotsOut
<1>9. SealIdle BY DEF SealIdle, BandInit
<1>10. SealedIsDrained BY DEF SealedIsDrained, BandInit
<1>11. ASSUME NEW c \in Cells PROVE MarkedOnce(c)
  <2>1. \A i : ~AtEntry(c, i) BY DEF AtEntry, BandInit
  <2>2. [pc |-> "publish", on |-> c].pc = "publish" /\ [pc |-> "first", on |-> c].pc = "first" OBVIOUS
  <2>3. \A r : ~AtReq(c, r) BY <1>2, <2>2 DEF AtReq, BandInit
  <2>4. \A w : ~AtWrk(c, w) BY <1>2, <2>2 DEF AtWrk, BandInit
  <2>5. ~queued[c] BY DEF BandInit
  <2> QED BY <2>1, <2>3, <2>4, <2>5 DEF MarkedOnce
<1> QED BY <1>3, <1>7, <1>8, <1>9, <1>10, <1>11 DEF BandInv

\* What the word counts, the slots out, the marks of the cells and the seals
\* under way agree, whatever the requesters, the workers, callbackStop and the
\* pool's shutdown do, and in whatever order.
THEOREM BandInvariant == BandSpec => []BandInv
<1>1. BandInit => BandInv BY BandStarts
<1>2. BandInv /\ [BandNext]_bandVars => BandInv'
  <2> SUFFICES ASSUME BandInv, [BandNext]_bandVars PROVE BandInv' OBVIOUS
  <2>1. ASSUME NEW w \in Workers, BandWorkerStep(w) PROVE BandInv'
    <3>1. ASSUME Run(w) PROVE BandInv'
      <4>1. Unarm(w, "first") \/ Body(w, "second") BY <3>1 DEF Run, RunEntry
      <4> QED BY <3>1, <4>1, UnarmKept, BodyKept
    <3>2. ASSUME FoundEmpty(w) PROVE BandInv'
      <4>1. CASE band_state = "STOPPING" BY <3>2, <4>1, SealStarts
      <4>2. CASE band_state # "STOPPING" BY <3>2, <4>2, EmptyKept
      <4> QED BY <4>1, <4>2
    <3>3. w \in Sealers BY DEF Sealers
    <3> QED BY <2>1, <3>1, <3>2, <3>3, TakeKept, FinishKept, SealSums, SealEnds, LeaveKept
        DEF BandWorkerStep, SealStep
  <2>2. ASSUME StopperStep PROVE BandInv'
    <3>1. Stopper \in Sealers BY DEF Sealers
    <3> QED BY <2>2, <3>1, SealStarts, SealSums, SealEnds, StateKept DEF StopperStep, SealStep
  <2>3. CASE BandNext
      BY <2>1, <2>2, <2>3, RequesterKept, StateKept, DropKept DEF BandNext
  <2>4. CASE UNCHANGED bandVars
    <3>1. UNCHANGED <<band_state, band_down, count, finished, entries, used, queued, wrote, seen,
                      req, wrk, seal, stop, byOwn, requests, cycles>>
        BY <2>4 DEF bandVars
    <3>2. /\ BandTypeOK /\ Counted /\ SlotsOut /\ SealIdle /\ SealedIsDrained
          /\ \A c \in Cells : MarkedOnce(c)
        BY DEF BandInv
    <3>3. BandTypeOK' BY <3>1, <3>2 DEF BandTypeOK, Target, Workers, Sealers, Stopper, BandStates
    <3>4. Counted' BY <3>1, <3>2 DEF Counted, SumOf, In, Workers, Sealers
    <3>5. SlotsOut' /\ SealIdle' BY <3>1, <3>2 DEF SlotsOut, In, SealIdle, Workers, NoSeal, Idle
    <3>6. SealedIsDrained' BY <3>1, <3>2 DEF SealedIsDrained, Busy, Accepted, Workers
    <3>7. ASSUME NEW c \in Cells PROVE MarkedOnce(c)'
      <4>1. \A i : AtEntry(c, i)' <=> AtEntry(c, i) BY <3>1 DEF AtEntry
      <4>2. \A r : AtReq(c, r)' <=> AtReq(c, r) BY <3>1 DEF AtReq
      <4>3. \A w : AtWrk(c, w)' <=> AtWrk(c, w) BY <3>1 DEF AtWrk, Workers
      <4>4. queued'[c] = queued[c] BY <3>1
      <4> QED BY <3>2, <4>1, <4>2, <4>3, <4>4, MarksKept
    <3> QED BY <3>3, <3>4, <3>5, <3>6, <3>7 DEF BandInv
  <2> QED BY <2>3, <2>4
<1> QED BY <1>1, <1>2, PTL DEF BandSpec

\* callbackStop drains, and cells are run: a band sealed, and not stopped by one of
\* its own callbacks, has nothing queued, running or let in, and a cell marked queued
\* has one run coming, through any number of stops, restarts and shutdowns.
THEOREM BandsSealed == BandSpec => []BandSealed
<1>1. BandInv => BandSealed
  <2> SUFFICES ASSUME BandInv PROVE BandSealed OBVIOUS
  <2>1. BandTypeOK /\ SealedIsDrained /\ \A c \in Cells : MarkedOnce(c) BY DEF BandInv
  <2>2. ArmedHasRun
    <3> SUFFICES ASSUME NEW c \in Cells, queued[c]
                 PROVE  \/ \E i \in DOMAIN entries : entries[i] = c
                        \/ \E r \in Requesters : req[r] = [pc |-> "publish", on |-> c]
                        \/ \E w \in Workers : wrk[w] = [pc |-> "first", on |-> c]
        BY DEF ArmedHasRun
    <3>1. (\E i : AtEntry(c, i)) \/ (\E r : AtReq(c, r)) \/ (\E w : AtWrk(c, w))
        BY <2>1 DEF MarkedOnce
    <3> QED BY <3>1 DEF AtEntry, AtReq, AtWrk
  <2>3. QueuedOnce
    <3> SUFFICES ASSUME NEW c \in Cells
                 PROVE  Cardinality({i \in DOMAIN entries : entries[i] = c})
                          + Cardinality({r \in Requesters : req[r] = [pc |-> "publish", on |-> c]}) <= 1
        BY DEF QueuedOnce
    <3> DEFINE E == {i \in DOMAIN entries : entries[i] = c}
               R == {r \in Requesters : req[r] = [pc |-> "publish", on |-> c]}
    <3>1. \A i : i \in E <=> AtEntry(c, i) BY DEF AtEntry
    <3>2. \A r : r \in R <=> AtReq(c, r) BY DEF AtReq
    <3> HIDE DEF E, R
    <3>3. /\ \A x, y \in E : x = y
          /\ \A x, y \in R : x = y
          /\ E = {} \/ R = {}
        BY <2>1, <3>1, <3>2 DEF MarkedOnce
    <3>4. Cardinality(E) = (IF E = {} THEN 0 ELSE 1) /\ Cardinality(R) = (IF R = {} THEN 0 ELSE 1)
        BY <3>3, NoneOrOne
    <3>5. Cardinality(E) + Cardinality(R) <= 1 BY <3>3, <3>4
    <3> QED BY <3>5 DEF E, R
  <2> QED BY <2>1, <2>2, <2>3 DEF BandSealed
<1> QED BY <1>1, BandInvariant, PTL
=============================================================================
