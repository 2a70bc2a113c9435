----------------------------- MODULE FutureTask -----------------------------
(***************************************************************************)
(* One task of the future executor (runtime/background/future_exec.rs): a  *)
(* future polled by band workers, re-queued by the wakers it hands out,    *)
(* aborted through its handle and joined through its slot.                 *)
(*                                                                         *)
(* Each compare-exchange is one step (a failed one only reads again), and  *)
(* so is each lock section.  The band is the abstract one of Band, with    *)
(* its shutdown test and its push kept apart.                              *)
(***************************************************************************)
EXTENDS Integers, FiniteSets

CONSTANTS
    Pollers,    \* the band workers that may poll the task
    Sources,    \* what the future may wait for, each holding a waker of it
    MaxWaits    \* how often the future waits for one source

Spawner == "spawner"    \* spawn_task, or the timer that owns the delayed task
Aborter == "aborter"
Threads == Pollers \cup Sources \cup {Spawner, Aborter}

ASSUME TaskBounds ==
    /\ Spawner \notin Pollers \cup Sources /\ Aborter \notin Pollers \cup Sources
    /\ Pollers \cap Sources = {} /\ Pollers # {}

VARIABLES
    state, future,          \* the Task: its state; its future "here", "out" or "gone"
    ring, down,             \* its entries on the band; the band's shutdown
    fpc,                     \* each thread's step
    held, waits,            \* the sources that hold a waker; how often each was waited for
    abort,                  \* Control
    finalized, result, join_waker, wake_join,  \* Slot, and a joiner's wake under way
    jpc,                    \* the joiner
    released,               \* the task has been dropped
    owed,                   \* history: a wake since the future's last poll began
    late                    \* history: the last entry was pushed on a band shut down

taskVars == <<state, future, ring, down, fpc, held, waits, abort, finalized, result,
          join_waker, wake_join, jpc, released, owed, late>>

pollVars == <<state, future>>
slotVars == <<finalized, result, join_waker, wake_join>>
envVars == <<held, waits, abort, jpc, released, late>>

\* `new_task`: claimed SCHEDULED, so the spawn is the first schedule, or the
\* timer makes it (`spawn_future_after`).
TaskInit ==
    /\ state = "SCHEDULED" /\ future = "here"
    /\ ring = 0 /\ down = FALSE
    /\ \E first \in {"timer", "enqueue"} :
            fpc = [t \in Threads |-> IF t = Spawner THEN first ELSE "idle"]
    /\ held = {} /\ waits = [s \in Sources |-> 0]
    /\ abort = FALSE
    /\ finalized = FALSE /\ result = "none" /\ join_waker = FALSE /\ wake_join = FALSE
    /\ jpc = "idle" /\ released = FALSE /\ owed = TRUE /\ late = FALSE

Goto(t, step) == fpc' = [fpc EXCEPT ![t] = step]

-----------------------------------------------------------------------------
\* `Shared::finalize`: the first outcome wins; the joiner is woken after.
finalize(r) ==
    IF finalized THEN UNCHANGED slotVars
    ELSE /\ finalized' = TRUE /\ result' = r
         /\ join_waker' = FALSE /\ wake_join' = (wake_join \/ join_waker)

\* `Schedulable::schedule`: claim, defer to the poll in flight, or join one.
schedule(t) ==
    /\ fpc[t] = "schedule"
    /\ \/ /\ state = "IDLE"
          /\ state' = "SCHEDULED"
          /\ Goto(t, "enqueue")
       \/ /\ state = "RUNNING"
          /\ state' = "RUNNING_NOTIFIED"
          /\ Goto(t, "idle")
       \/ /\ state \in {"SCHEDULED", "RUNNING_NOTIFIED", "DONE"}
          /\ UNCHANGED state
          /\ Goto(t, "idle")
    /\ UNCHANGED <<future, ring, down, slotVars, envVars, owed>>

\* `enqueue`: a band that has shut down drops the entry, else it is pushed,
\* `schedule_task`'s test and push being two steps the shutdown may fall between.
Enqueue(t) ==
    /\ fpc[t] = "enqueue"
    /\ Goto(t, IF down THEN "unrun" ELSE "push")
    /\ UNCHANGED <<pollVars, ring, down, slotVars, envVars, owed>>

Push(t) ==
    /\ fpc[t] = "push"
    /\ ring' = ring + 1
    /\ late' = down
    /\ Goto(t, "idle")
    /\ UNCHANGED <<pollVars, down, slotVars, held, waits, abort, jpc, released, owed>>

\* `cancel_unrun`: done, the future dropped, the handle resolved.
Unrun(t) ==
    /\ fpc[t] = "unrun"
    /\ state' = "DONE"
    /\ Goto(t, "unrun_future")
    /\ UNCHANGED <<future, ring, down, slotVars, envVars, owed>>

UnrunFuture(t) ==
    /\ fpc[t] = "unrun_future"
    /\ future' = "gone"
    /\ Goto(t, "cancelled")
    /\ UNCHANGED <<state, ring, down, slotVars, envVars, owed>>

\* The outcome of a poll or a cancel is published.
Outcome == [cancelled |-> "cancelled", ready |-> "ok", panic |-> "panicked"]

Publish(t) ==
    /\ fpc[t] \in DOMAIN Outcome
    /\ finalize(Outcome[fpc[t]])
    /\ Goto(t, "idle")
    /\ UNCHANGED <<pollVars, ring, down, envVars, owed>>

-----------------------------------------------------------------------------
\* `poll_once`: a worker pops the entry and claims the poll.
Claim(w) ==
    /\ fpc[w] = "idle" /\ ring > 0
    /\ ring' = ring - 1
    /\ IF state = "SCHEDULED"
       THEN state' = "RUNNING" /\ Goto(w, "take")
       ELSE UNCHANGED state /\ Goto(w, "idle")
    /\ UNCHANGED <<future, down, slotVars, envVars, owed>>

Take(w) ==
    /\ fpc[w] = "take"
    /\ IF future = "here"
       THEN future' = "out" /\ Goto(w, "look") /\ UNCHANGED state
       ELSE state' = "DONE" /\ Goto(w, "idle") /\ UNCHANGED future
    /\ UNCHANGED <<ring, down, slotVars, envVars, owed>>

\* An abort is seen here, before the poll: the future is dropped.
Look(w) ==
    /\ fpc[w] = "look"
    /\ IF abort
       THEN future' = "gone" /\ Goto(w, "done_cancelled") /\ UNCHANGED owed
       ELSE Goto(w, "poll") /\ owed' = FALSE /\ UNCHANGED future
    /\ UNCHANGED <<state, ring, down, slotVars, envVars>>

\* The future waits for a source, completes, panics, or is pending.
Await(w, s) ==
    /\ fpc[w] = "poll" /\ s \notin held /\ fpc[s] = "idle" /\ waits[s] < MaxWaits
    /\ held' = held \cup {s}
    /\ waits' = [waits EXCEPT ![s] = @ + 1]
    /\ UNCHANGED <<pollVars, ring, down, fpc, slotVars, abort, jpc, released, owed, late>>

Complete(w) ==
    /\ fpc[w] = "poll"
    /\ future' = "gone"
    /\ \E how \in {"done_ready", "done_panic"} : Goto(w, how)
    /\ UNCHANGED <<state, ring, down, slotVars, envVars, owed>>

Done(w) ==
    /\ fpc[w] \in {"done_cancelled", "done_ready", "done_panic"}
    /\ state' = "DONE"
    /\ Goto(w, CASE fpc[w] = "done_cancelled" -> "cancelled"
                 [] fpc[w] = "done_ready" -> "ready"
                 [] fpc[w] = "done_panic" -> "panic")
    /\ UNCHANGED <<future, ring, down, slotVars, envVars, owed>>

PutBack(w) ==
    /\ fpc[w] = "poll"
    /\ future' = "here"
    /\ Goto(w, "release")
    /\ UNCHANGED <<state, ring, down, slotVars, envVars, owed>>

\* Mutant of Release: IDLE is stored over a wake that landed.
Release_Stores(w) ==
    /\ fpc[w] = "release"
    /\ state' = "IDLE"
    /\ Goto(w, "idle")
    /\ UNCHANGED <<future, ring, down, slotVars, envVars, owed>>

\* RUNNING to IDLE, unless a wake landed: then the swap to SCHEDULED follows.
Release(w) ==
    /\ fpc[w] = "release"
    /\ IF state = "RUNNING"
       THEN state' = "IDLE" /\ Goto(w, "idle")
       ELSE Goto(w, "again") /\ UNCHANGED state
    /\ UNCHANGED <<future, ring, down, slotVars, envVars, owed>>

Again(w) ==
    /\ fpc[w] = "again"
    /\ state' = "SCHEDULED"
    /\ Goto(w, "enqueue")
    /\ UNCHANGED <<future, ring, down, slotVars, envVars, owed>>

\* `drain_band`: a worker that finds its shut-down band empty leaves.
LeaveBand(w) ==
    /\ fpc[w] = "idle" /\ ring = 0 /\ down
    /\ Goto(w, "left")
    /\ UNCHANGED <<pollVars, ring, down, slotVars, envVars, owed>>

-----------------------------------------------------------------------------
\* A source wakes the task, giving its waker up, or drops it.
Wake(s) ==
    /\ s \in held
    /\ held' = held \ {s}
    /\ Goto(s, "schedule")
    /\ owed' = TRUE
    /\ UNCHANGED <<pollVars, ring, down, slotVars, waits, abort, jpc, released, late>>

DropWaker(s) ==
    /\ s \in held
    /\ held' = held \ {s}
    /\ UNCHANGED <<pollVars, ring, down, fpc, slotVars, waits, abort, jpc, released, owed, late>>

\* The timer fires and enqueues, or is shut down and drops the task.
TimerFires ==
    /\ fpc[Spawner] = "timer"
    /\ \E step \in {"enqueue", "dropped"} : Goto(Spawner, step)
    /\ UNCHANGED <<pollVars, ring, down, slotVars, envVars, owed>>

\* `request_abort`: the flag, then the task, if it still is there, scheduled.
Abort ==
    /\ ~abort /\ fpc[Aborter] = "idle"
    /\ abort' = TRUE
    /\ Goto(Aborter, "upgrade")
    /\ UNCHANGED <<pollVars, ring, down, slotVars, held, waits, jpc, released, owed, late>>

Upgrade ==
    /\ fpc[Aborter] = "upgrade"
    /\ Goto(Aborter, IF released THEN "idle" ELSE "schedule")
    /\ UNCHANGED <<pollVars, ring, down, slotVars, envVars, owed>>

ShutDownBand ==
    /\ ~down
    /\ down' = TRUE
    /\ UNCHANGED <<pollVars, ring, fpc, slotVars, envVars, owed>>

\* The task is dropped with its last holder: an entry, a waker, a thread.
\* Its own drop resolves the handle, and the future goes with it.
Unreachable ==
    /\ ring = 0 /\ held = {}
    /\ \A t \in Threads : fpc[t] \in {"idle", "left", "upgrade", "dropped"}

DropTask ==
    /\ Unreachable /\ ~released
    /\ released' = TRUE
    /\ finalize("cancelled")
    /\ future' = "gone"
    /\ UNCHANGED <<state, ring, down, fpc, held, waits, abort, jpc, owed, late>>

\* `JoinFuture::poll`: take the result, or leave the waker.
JoinPoll ==
    /\ jpc \in {"idle", "woken"}
    /\ IF finalized
       THEN jpc' = "joined" /\ UNCHANGED join_waker
       ELSE jpc' = "waiting" /\ join_waker' = TRUE
    /\ UNCHANGED <<pollVars, ring, down, fpc, held, waits, abort, finalized, result, wake_join, released, owed, late>>

WakeJoiner ==
    /\ wake_join
    /\ wake_join' = FALSE
    /\ jpc' = "woken"
    /\ UNCHANGED <<pollVars, ring, down, fpc, held, waits, abort, finalized, result, join_waker, released, owed, late>>

-----------------------------------------------------------------------------
ThreadStep(t) == schedule(t) \/ Enqueue(t) \/ Push(t) \/ Unrun(t) \/ UnrunFuture(t) \/ Publish(t)
WorkerStep(w) == Claim(w) \/ Take(w) \/ Look(w) \/ Done(w) \/ Release(w) \/ Again(w) \/ LeaveBand(w)
PollEnd(w) == Complete(w) \/ PutBack(w)

TaskNext ==
    \/ \E t \in Threads : ThreadStep(t)
    \/ \E w \in Pollers : WorkerStep(w) \/ PollEnd(w) \/ \E s \in Sources : Await(w, s)
    \/ \E s \in Sources : Wake(s) \/ DropWaker(s)
    \/ TimerFires \/ Abort \/ Upgrade \/ ShutDownBand \/ DropTask \/ JoinPoll \/ WakeJoiner

TaskSpec == TaskInit /\ [][TaskNext]_taskVars

-----------------------------------------------------------------------------
States == {"IDLE", "SCHEDULED", "RUNNING", "RUNNING_NOTIFIED", "DONE"}
Polling(w) == fpc[w] \in {"take", "look", "poll", "done_cancelled", "done_ready", "done_panic",
                          "release", "again"}

TaskTypeOK ==
    /\ state \in States /\ future \in {"here", "out", "gone"}
    /\ ring \in {0, 1}
    /\ result \in {"none", "ok", "panicked", "cancelled"} /\ finalized = (result # "none")
    /\ held \subseteq Sources
    /\ \A s \in held : fpc[s] = "idle"

\* An entry on a ring that no worker is left to take it from.
Stranded == ring > 0 /\ \A w \in Pollers : fpc[w] = "left"

\* The places a task may be queued in or polled from.
Claims ==
    ring + Cardinality({t \in Threads : fpc[t] \in {"timer", "enqueue", "push", "unrun"}})
         + Cardinality({w \in Pollers : Polling(w)})

\* One claim at a time: a SCHEDULED task is in exactly one place, unless its
\* timer dropped it; a running one has exactly one worker.  That place polls or
\* cancels it.  The exception is an entry whose push comes after the shutdown
\* and its test before (`schedule_task`): the workers may have left by then.
OneClaim ==
    /\ Claims <= 1
    /\ state = "SCHEDULED" /\ ~released /\ fpc[Spawner] # "dropped" => Claims = 1
    /\ state \in {"RUNNING", "RUNNING_NOTIFIED"} => \E w \in Pollers : Polling(w)
    /\ Stranded => down /\ late

\* A worker that has claimed the poll finds the future in its place.
FutureThere == \A w \in Pollers : fpc[w] = "take" => future = "here"

\* No wake is lost, but with a stranded entry: once its schedule is through, a
\* poll or a cancel is on its way that begins after it, or the task is done or
\* dropped.
NoLostWake ==
    owed /\ ~Stranded =>
        \/ state \in {"SCHEDULED", "RUNNING_NOTIFIED", "DONE"} \/ released
        \/ \E s \in Sources : fpc[s] = "schedule"
        \/ \E w \in Pollers : fpc[w] \in {"take", "look", "done_cancelled"}

\* A task has one place that will poll or cancel it and no wake of it is lost,
\* with its band shut down under it too, unless the shutdown fell between
\* `schedule_task`'s test and its push; who claims its poll finds the future.
TasksClaimed == TaskTypeOK /\ OneClaim /\ FutureThere /\ NoLostWake

\* The first outcome stands, whatever drops and cancels come after it.
OutcomeStands == [][finalized => result' = result]_taskVars

\* Everything has come to rest: no thread has a step left, the future is not
\* being polled, no drop or wake of the joiner is under way.
TaskAtRest == ~ENABLED (\/ \E t \in Threads : ThreadStep(t)
                        \/ \E w \in Pollers : WorkerStep(w) \/ PollEnd(w)
                        \/ TimerFires \/ Upgrade \/ DropTask \/ WakeJoiner
                        \/ jpc = "woken" /\ JoinPoll)

\* Then a task aborted, woken, or that nothing can wake again, has ended, with
\* its band shut down or not, and the joiner of an ended task has heard of it.
\* A stranded entry is the exception: its handle does not resolve.
HandleResolved ==
    TaskAtRest => /\ (abort \/ owed \/ held = {}) /\ ~Stranded => finalized
                  /\ finalized => jpc # "waiting"
=============================================================================
