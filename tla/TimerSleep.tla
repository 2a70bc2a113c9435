----------------------------- MODULE TimerSleep -----------------------------
(***************************************************************************)
(* The delayed-callback timer (runtime/background/delayed_timer.rs) and    *)
(* the sleeps armed on it (timer_sleep.rs): one thread serves a queue of   *)
(* deadlines; a sleep owns the entry it files, its callback marks a cell   *)
(* shared with it, and a reset leaves the old cell to whoever holds it.    *)
(*                                                                         *)
(* The clock is a counter, read again wherever the code reads it.  A cell  *)
(* is named by its sleep and how often that has been reset.                *)
(***************************************************************************)
EXTENDS Integers, Sequences, FiniteSets

CONSTANTS
    Sleeps,     \* the Sleep futures, each polled by a task of its own
    Requests,   \* the callbackRequestDelayed calls, each on its own thread
    Horizon,    \* the latest deadline asked for
    MaxResets,  \* how often one sleep is reset
    MayShutDown \* whether the timer is dropped

ASSUME BoundsAssumption == /\ Horizon \in Nat \ {0} /\ MaxResets \in Nat
                           /\ Sleeps \cap Requests = {}

VARIABLES
    now,
    queue, next_seq, shutdown,      \* TimerState
    announced, token,               \* the Event: SLEEPING stored; an unpark left
    tpc, earliest, taken,           \* timer_loop: its step, its sample, the entry popped
    deadline, gen, armed, entry,    \* each Sleep
    fired, waker,                   \* the cells marked and those that hold a waker
    pc, delay, woken                \* each caller: its step, its delay or stamp, its wake

vars == <<now, queue, next_seq, shutdown, announced, token, tpc, earliest, taken,
          deadline, gen, armed, entry, fired, waker, pc, delay, woken>>

eventVars == <<announced, token>>
timerVars == <<tpc, earliest, taken>>
queueVars == <<queue, next_seq, shutdown>>
sleepVars == <<deadline, gen, armed, entry>>
cellVars == <<fired, waker>>
callVars == <<pc, delay, woken>>

Callers == Sleeps \cup Requests
Never == -1
Cell(s) == <<s, gen[s]>>

Init ==
    /\ now = 0
    /\ queue = {} /\ next_seq = 0 /\ shutdown = FALSE
    /\ announced = FALSE /\ token = FALSE
    /\ tpc = "loop" /\ earliest = Never /\ taken = {}
    /\ deadline \in [Sleeps -> 0 .. Horizon]
    /\ gen = [s \in Sleeps |-> 0] /\ armed = [s \in Sleeps |-> FALSE]
    /\ entry = [s \in Sleeps |-> {}]
    /\ fired = {} /\ waker = {}
    /\ pc = [c \in Callers |-> "new"]
    /\ delay = [c \in Callers |-> 0] /\ woken = [s \in Sleeps |-> FALSE]

-----------------------------------------------------------------------------
\* Time passes; past the horizon only while something still waits for it.
Tick ==
    /\ now < Horizon \/ \E e \in queue : e.at > now
    /\ now' = now + 1
    /\ UNCHANGED <<queueVars, eventVars, timerVars, sleepVars, cellVars, callVars>>

\* `WakeKey`: by deadline, then by submission.
Before(e, f) == e.at < f.at \/ (e.at = f.at /\ e.seq < f.seq)
First == CHOOSE e \in queue : \A f \in queue \ {e} : Before(e, f)
FirstDeadline == IF queue = {} THEN Never ELSE First.at

\* `Event::signal`, and `wake`: an announced waiter is unparked.
signal == token' = (token \/ announced)

\* `Inner::schedule`: the deadline is stamped before the lock, the entry is
\* filed under it, the signal follows.  A timer that has stopped drops it.
Stamp(c) ==
    /\ pc[c] = "stamp"
    /\ delay' = [delay EXCEPT ![c] = now + @]
    /\ pc' = [pc EXCEPT ![c] = "file"]
    /\ UNCHANGED <<now, queueVars, eventVars, timerVars, sleepVars, cellVars, woken>>

inner_schedule(c, owner) ==
    /\ pc[c] = "file"
    /\ IF shutdown
       THEN pc' = [pc EXCEPT ![c] = "wait"] /\ UNCHANGED <<queue, next_seq>>
       ELSE /\ queue' = queue \cup {[at |-> delay[c], seq |-> next_seq, owner |-> owner]}
            /\ next_seq' = next_seq + 1
            /\ pc' = [pc EXCEPT ![c] = "signal"]
    /\ delay' = [delay EXCEPT ![c] = 0]

Signal(c) ==
    /\ pc[c] = "signal"
    /\ signal
    /\ pc' = [pc EXCEPT ![c] = "wait"]
    /\ UNCHANGED <<now, queueVars, announced, timerVars, sleepVars, cellVars, delay, woken>>

\* `Inner::cancel`: by key; one already popped is left alone.
cancel(keys) == queue' = {e \in queue : e.seq \notin keys}

\* `TimerHandle::schedule`: callbackRequestDelayed, nobody keeps the key.
RequestDelayed(q) ==
    /\ pc[q] = "new"
    /\ \E d \in 0 .. Horizon : delay' = [delay EXCEPT ![q] = d]
    /\ pc' = [pc EXCEPT ![q] = "stamp"]
    /\ UNCHANGED <<now, queueVars, eventVars, timerVars, sleepVars, cellVars, woken>>

FileRequest(q) ==
    /\ inner_schedule(q, <<q>>)
    /\ UNCHANGED <<now, shutdown, eventVars, timerVars, sleepVars, cellVars, woken>>

-----------------------------------------------------------------------------
\* `timer_loop`: one sample of the queue decides what comes next.
Sample ==
    /\ tpc = "loop"
    /\ \/ /\ shutdown
          /\ tpc' = "gone"
          /\ UNCHANGED <<queue, earliest, taken>>
       \/ /\ ~shutdown /\ queue # {} /\ First.at <= now
          /\ taken' = {First}
          /\ queue' = queue \ {First}
          /\ tpc' = "fire"
          /\ UNCHANGED earliest
       \/ /\ ~shutdown /\ (queue = {} \/ FirstDeadline > now)
          /\ earliest' = FirstDeadline
          /\ tpc' = "announce"
          /\ UNCHANGED <<queue, taken>>
    /\ UNCHANGED <<now, next_seq, shutdown, eventVars, sleepVars, cellVars, callVars>>

\* The entry runs: a sleep's callback here, marking its cell and waking the
\* task, a delayed request on its band (which drops it when full).
Fire ==
    /\ tpc = "fire"
    /\ LET marked == {e.owner : e \in {e \in taken : Len(e.owner) = 2}} IN
       /\ fired' = fired \cup (marked \cap {Cell(s) : s \in Sleeps})
       /\ waker' = waker \ marked
       /\ woken' = [s \in Sleeps |-> woken[s] \/ \E o \in marked \cap waker : o[1] = s]
    /\ pc' = [c \in Callers |-> IF \E e \in taken : e.owner = <<c>> THEN "done" ELSE pc[c]]
    /\ taken' = {}
    /\ tpc' = "loop"
    /\ UNCHANGED <<now, queueVars, eventVars, earliest, sleepVars, delay>>

\* `wait_until`, with the sampled deadline when there was one.
Announce ==
    /\ tpc = "announce"
    /\ announced' = TRUE
    /\ tpc' = "check"
    /\ UNCHANGED <<now, queueVars, token, earliest, taken, sleepVars, cellVars, callVars>>

Changed == shutdown \/ FirstDeadline # earliest

Check ==
    /\ tpc = "check"
    /\ LET leave == Changed \/ (earliest # Never /\ now > earliest) IN
       /\ announced' = ~leave
       /\ tpc' = IF leave THEN "loop" ELSE "parked"
       /\ earliest' = IF leave THEN Never ELSE earliest
    /\ UNCHANGED <<now, queueVars, token, taken, sleepVars, cellVars, callVars>>

Unparked ==
    /\ tpc = "parked" /\ token
    /\ token' = FALSE
    /\ tpc' = "announce"
    /\ UNCHANGED <<now, queueVars, announced, earliest, taken, sleepVars, cellVars, callVars>>

\* The park runs out; at the deadline itself the loop's next test lets it by.
TimedOut ==
    /\ tpc = "parked" /\ earliest # Never /\ now >= earliest
    /\ announced' = FALSE
    /\ tpc' = "loop"
    /\ earliest' = Never
    /\ UNCHANGED <<now, queueVars, token, taken, sleepVars, cellVars, callVars>>

\* The timer is dropped: the flag, then the wake.
ShutDown ==
    /\ MayShutDown /\ ~shutdown
    /\ shutdown' = TRUE
    /\ signal
    /\ UNCHANGED <<now, queue, next_seq, announced, timerVars, sleepVars, cellVars, callVars>>

-----------------------------------------------------------------------------
\* `Sleep::poll` under the cell's lock: marked, lapsed, or the waker stored.
\* The first poll of a lapsed sleep yields once.
Poll(s) ==
    /\ pc[s] \in {"new", "wait"}
    /\ \/ /\ Cell(s) \in fired
          /\ pc' = [pc EXCEPT ![s] = "done"]
          /\ woken' = [woken EXCEPT ![s] = FALSE]
          /\ UNCHANGED <<fired, waker, armed>>
       \/ /\ Cell(s) \notin fired /\ now >= deadline[s]
          /\ fired' = fired \cup {Cell(s)}
          /\ armed' = [armed EXCEPT ![s] = TRUE]
          /\ pc' = [pc EXCEPT ![s] = IF armed[s] THEN "done" ELSE "wait"]
          /\ woken' = [woken EXCEPT ![s] = ~armed[s]]
          /\ UNCHANGED waker
       \/ /\ Cell(s) \notin fired /\ now < deadline[s]
          /\ waker' = waker \cup {Cell(s)}
          /\ pc' = [pc EXCEPT ![s] = IF armed[s] THEN "wait" ELSE "delay"]
          /\ woken' = [woken EXCEPT ![s] = FALSE]
          /\ UNCHANGED <<fired, armed>>
    /\ UNCHANGED <<now, queueVars, eventVars, timerVars, deadline, gen, entry, delay>>

\* `saturating_duration_since`: what is left by now.
Delay(s) ==
    /\ pc[s] = "delay"
    /\ delay' = [delay EXCEPT ![s] = IF deadline[s] > now THEN deadline[s] - now ELSE 0]
    /\ pc' = [pc EXCEPT ![s] = "stamp"]
    /\ UNCHANGED <<now, queueVars, eventVars, timerVars, sleepVars, cellVars, woken>>

\* The key is kept, and whatever came of it the sleep is armed.
Arm(s) ==
    /\ inner_schedule(s, Cell(s))
    /\ entry' = [entry EXCEPT ![s] = IF shutdown THEN {} ELSE {next_seq}]
    /\ armed' = [armed EXCEPT ![s] = TRUE]
    /\ UNCHANGED <<now, shutdown, eventVars, timerVars, deadline, gen, cellVars, woken>>

\* `Sleep::reset`, by its owner between polls; an interval resets to a whole
\* period on, past or not.
Between(s) == pc[s] \in {"new", "wait", "done"}

\* The old cell goes with its last holder, which may be a callback.
Freed(s) == {Cell(s)} \ {e.owner : e \in taken}

\* Mutant of reset: the sleep keeps the cell of its old deadline.
reset_SameCell(s) ==
    /\ Between(s) /\ gen[s] < MaxResets
    /\ cancel(entry[s])
    /\ entry' = [entry EXCEPT ![s] = {}]
    /\ fired' = fired \ {Cell(s)}
    /\ waker' = waker \ {Cell(s)}
    /\ \E d \in 0 .. Horizon : deadline' = [deadline EXCEPT ![s] = d]
    /\ armed' = [armed EXCEPT ![s] = FALSE]
    /\ pc' = [pc EXCEPT ![s] = "new"]
    /\ UNCHANGED <<now, next_seq, shutdown, eventVars, timerVars, gen, delay, woken>>

reset(s) ==
    /\ Between(s) /\ gen[s] < MaxResets
    /\ cancel(entry[s])
    /\ entry' = [entry EXCEPT ![s] = {}]
    /\ gen' = [gen EXCEPT ![s] = @ + 1]
    /\ \E d \in 0 .. Horizon : deadline' = [deadline EXCEPT ![s] = d]
    /\ armed' = [armed EXCEPT ![s] = FALSE]
    /\ fired' = fired \ Freed(s) /\ waker' = waker \ Freed(s)
    /\ pc' = [pc EXCEPT ![s] = "new"]
    /\ UNCHANGED <<now, next_seq, shutdown, eventVars, timerVars, delay, woken>>

\* The sleep is dropped: the entry given back, then the waker cleared.
Drop(s) ==
    /\ Between(s)
    /\ cancel(entry[s])
    /\ entry' = [entry EXCEPT ![s] = {}]
    /\ pc' = [pc EXCEPT ![s] = "dropping"]
    /\ UNCHANGED <<now, next_seq, shutdown, eventVars, timerVars, deadline, gen, armed, cellVars, delay, woken>>

ClearWaker(s) ==
    /\ pc[s] = "dropping"
    /\ waker' = waker \ {Cell(s)}
    /\ pc' = [pc EXCEPT ![s] = "dropped"]
    /\ UNCHANGED <<now, queueVars, eventVars, timerVars, sleepVars, fired, delay, woken>>

-----------------------------------------------------------------------------
TimerStep == Sample \/ Fire \/ Announce \/ Check \/ Unparked \/ TimedOut
PollStep(s) == Delay(s) \/ Stamp(s) \/ Arm(s) \/ Signal(s) \/ ClearWaker(s)
RequestStep(q) == Stamp(q) \/ FileRequest(q) \/ Signal(q)

Next ==
    \/ Tick \/ TimerStep \/ ShutDown
    \/ \E s \in Sleeps : Poll(s) \/ PollStep(s) \/ reset(s) \/ Drop(s)
    \/ \E q \in Requests : RequestDelayed(q) \/ RequestStep(q)

Spec == Init /\ [][Next]_vars

-----------------------------------------------------------------------------
Steps == {"new", "delay", "stamp", "file", "signal", "wait", "done", "dropping", "dropped"}

TypeOK ==
    /\ now \in Nat /\ next_seq \in Nat
    /\ \A e, f \in queue \cup taken : e.seq = f.seq => e = f
    /\ Cardinality(taken) <= 1 /\ (taken # {}) = (tpc = "fire")
    /\ pc \in [Callers -> Steps]
    /\ \A s \in Sleeps : Cardinality(entry[s]) <= 1
    /\ fired \cup waker \subseteq Sleeps \X (0 .. MaxResets)

\* No sleep completes before its deadline: its cell is marked only when the
\* clock has reached it, callbacks of deadlines since reset included.
NotEarly == \A s \in Sleeps : Cell(s) \in fired => now >= deadline[s]

\* What the queue retains is owned: each entry of a sleep is the one that
\* sleep holds the key of.  A reset or dropped sleep leaves none behind.
EntriesOwned == \A e \in queue : Len(e.owner) = 2 =>
    LET s == e.owner[1] IN e.owner = Cell(s) /\ entry[s] = {e.seq}

\* The timer never sleeps past the nearest deadline: if it is parked with no
\* unpark on its way, nothing queued is sooner than what it sleeps to.
NoOversleep == (tpc = "parked" /\ ~token /\ \A c \in Callers : pc[c] # "signal") =>
    \A e \in queue : earliest # Never /\ earliest <= e.at

\* No sleep ends before its deadline and no dropped or reset one leaves its entry
\* with the timer, which never waits past the earliest of them (`DelayedTimer`).
TimersKept == TypeOK /\ NotEarly /\ EntriesOwned /\ NoOversleep

\* Everything has come to rest: all the time there is has passed, the timer
\* thread sleeps or has left, every call begun has returned, every task woken
\* has polled.
AtRest == ~ENABLED (\/ Tick \/ TimerStep
                    \/ \E s \in Sleeps : PollStep(s) \/ (woken[s] /\ Poll(s))
                    \/ \E q \in Requests : RequestStep(q))

\* Then no sleep polled still waits and no delayed request still has to reach
\* its band, and the thread of a dropped timer, which a join waits for, is gone.
NoneSleepOn == AtRest => IF shutdown THEN tpc = "gone" ELSE \A c \in Callers : pc[c] # "wait"
=============================================================================
