------------------------------ MODULE ScanOnce ------------------------------
(***************************************************************************)
(* The scanOnce ring and its worker (runtime/background/scan_once.rs): a   *)
(* bounded queue drained by one thread, which the first request starts and *)
(* a stop drains, joins and leaves to the next request to start again.     *)
(*                                                                         *)
(* Each worker sleeps on the event that was current when it was started;   *)
(* a stop makes a new one.  Both are numbered.  The event is the Event of  *)
(* BandQueue, with its announce, check and park kept apart.                *)
(***************************************************************************)
EXTENDS Integers, Sequences, SequencesExt, FiniteSets

CONSTANTS
    Requests,   \* the scanOnce requests made, each on a thread of its own
    Capacity,
    MaxStops,   \* how often scanStop is called
    Stoppers    \* the requests whose tail may itself call stop

MaxWorkers == Cardinality(Requests) + 1
Workers == 1 .. MaxWorkers
Events == 0 .. MaxStops + Cardinality(Stoppers)
NoWorker == 0
ScanStop == -1                  \* the thread that calls scanStop
Callers == {ScanStop} \cup Workers

Bounds == Capacity \in Nat \ {0}

VARIABLES
    queue, shutdown, wake,      \* OnceState: ring, flag, the current event
    slot, started,              \* the worker in the slot; how many were started
    rpc, ev,                    \* each request's step and the event it will signal
    wpc, bound, running, token, \* each worker's step, its event, the tail it runs, its unpark
    announced,                  \* the events whose waiter has announced itself
    spc, joining, stops,        \* each stop: its step and the worker it joins; how many
    behind,                     \* the requests a whole stop went past between their two sections
    own, crossed                \* history: the workers whose tail called stop; two stops met

vars == <<queue, shutdown, wake, slot, started, rpc, ev, wpc, bound, running, token,
          announced, spc, joining, stops, behind, own, crossed>>

stateVars == <<queue, shutdown, wake>>
workerVars == <<wpc, bound, running, token, announced>>
stopVars == <<spc, joining, stops, own, crossed>>

Init ==
    /\ queue = <<>> /\ shutdown = FALSE /\ wake = 0
    /\ slot = NoWorker /\ started = 0
    /\ rpc = [r \in Requests |-> "new"] /\ ev = [r \in Requests |-> 0]
    /\ wpc = [w \in Workers |-> "none"] /\ bound = [w \in Workers |-> 0]
    /\ running = [w \in Workers |-> {}] /\ token = [e \in Events |-> FALSE]
    /\ announced = {}
    /\ spc = [c \in Callers |-> "idle"] /\ joining = [c \in Callers |-> NoWorker] /\ stops = 0
    /\ behind = {} /\ own = {} /\ crossed = FALSE

-----------------------------------------------------------------------------
\* `Event::signal`, and `wake` for the stop: an announced waiter is unparked.
signal(e) ==
    token' = IF e \in announced THEN [token EXCEPT ![e] = TRUE] ELSE token

\* `ensure_worker`: under the slot's lock and the state's.
Started ==
    /\ started' = started + 1
    /\ slot' = started + 1
    /\ wpc' = [wpc EXCEPT ![started + 1] = "loop"]
    /\ bound' = [bound EXCEPT ![started + 1] = wake]

ensure_worker(r) ==
    /\ rpc[r] = "new"
    /\ rpc' = [rpc EXCEPT ![r] = "push"]
    /\ IF slot = NoWorker /\ ~shutdown THEN Started
       ELSE UNCHANGED <<started, slot, wpc, bound>>
    /\ UNCHANGED <<stateVars, ev, running, token, announced, stopVars, behind>>

\* `scan_once`: the push, dropped while stopping and refused when full; the
\* signal follows outside the lock.
scan_once(r) ==
    /\ rpc[r] = "push"
    /\ \/ /\ shutdown
          /\ rpc' = [rpc EXCEPT ![r] = "dropped"]
          /\ UNCHANGED <<queue, ev>>
       \/ /\ ~shutdown /\ Len(queue) >= Capacity
          /\ rpc' = [rpc EXCEPT ![r] = "overflow"]
          /\ ev' = [ev EXCEPT ![r] = wake]
          /\ UNCHANGED queue
       \/ /\ ~shutdown /\ Len(queue) < Capacity
          /\ queue' = Append(queue, r)
          /\ rpc' = [rpc EXCEPT ![r] = "signal"]
          /\ ev' = [ev EXCEPT ![r] = wake]
    /\ UNCHANGED <<shutdown, wake, slot, started, workerVars, stopVars, behind>>

Signal(r) ==
    /\ rpc[r] \in {"signal", "overflow"}
    /\ signal(ev[r])
    /\ rpc' = [rpc EXCEPT ![r] = IF @ = "signal" THEN "accepted" ELSE "refused"]
    /\ UNCHANGED <<stateVars, slot, started, ev, wpc, bound, running, announced, stopVars, behind>>

-----------------------------------------------------------------------------
\* `once_loop`: one entry, the way out, or the wait.
Loop(w) ==
    /\ wpc[w] = "loop"
    /\ IF queue # <<>>
       THEN /\ running' = [running EXCEPT ![w] = {Head(queue)}]
            /\ queue' = Tail(queue)
            /\ wpc' = [wpc EXCEPT ![w] = "run"]
       ELSE /\ wpc' = [wpc EXCEPT ![w] = IF shutdown THEN "exited" ELSE "announce"]
            /\ UNCHANGED <<running, queue>>
    /\ UNCHANGED <<shutdown, wake, slot, started, rpc, ev, bound, token, announced, stopVars, behind>>

\* The tail; one that panics is abandoned and the loop goes on.
Run(w) ==
    /\ wpc[w] = "run" /\ spc[w] = "idle"
    /\ running' = [running EXCEPT ![w] = {}]
    /\ wpc' = [wpc EXCEPT ![w] = "loop"]
    /\ UNCHANGED <<stateVars, slot, started, rpc, ev, bound, token, announced, stopVars, behind>>

Announce(w) ==
    /\ wpc[w] = "announce"
    /\ announced' = announced \cup {bound[w]}
    /\ wpc' = [wpc EXCEPT ![w] = "check"]
    /\ UNCHANGED <<stateVars, slot, started, rpc, ev, bound, running, token, stopVars, behind>>

\* Mutant of Check: only the stop is looked at before the park.
Check_Shutdown(w) ==
    /\ wpc[w] = "check"
    /\ IF shutdown
       THEN /\ announced' = announced \ {bound[w]}
            /\ wpc' = [wpc EXCEPT ![w] = "loop"]
       ELSE /\ wpc' = [wpc EXCEPT ![w] = "parked"]
            /\ UNCHANGED announced
    /\ UNCHANGED <<stateVars, slot, started, rpc, ev, bound, running, token, stopVars, behind>>

Check(w) ==
    /\ wpc[w] = "check"
    /\ IF queue # <<>> \/ shutdown
       THEN /\ announced' = announced \ {bound[w]}
            /\ wpc' = [wpc EXCEPT ![w] = "loop"]
       ELSE /\ wpc' = [wpc EXCEPT ![w] = "parked"]
            /\ UNCHANGED announced
    /\ UNCHANGED <<stateVars, slot, started, rpc, ev, bound, running, token, stopVars, behind>>

Unparked(w) ==
    /\ wpc[w] = "parked" /\ token[bound[w]]
    /\ token' = [token EXCEPT ![bound[w]] = FALSE]
    /\ wpc' = [wpc EXCEPT ![w] = "announce"]
    /\ UNCHANGED <<stateVars, slot, started, rpc, ev, bound, running, announced, stopVars, behind>>

-----------------------------------------------------------------------------
\* `stop`: flag and wake, take the handle, join outside the lock, reopen.
\* scanStop calls it, or a tail on a worker, once.
MayStop(c) ==
    IF c = ScanStop
    THEN stops < MaxStops /\ UNCHANGED running
    ELSE /\ wpc[c] = "run" /\ running[c] \cap Stoppers # {}
         /\ running' = [running EXCEPT ![c] = {}]

\* A stop meets another one, which has not returned, or was a tail's own and
\* left its worker, still running, to see the flag.  The later of the two may
\* then reopen the queue before that worker has seen it.
Meets(c) == \/ \E d \in Callers \ {c} : spc[d] # "idle"
            \/ \E w \in own : wpc[w] # "exited"

ShutDown(c) ==
    /\ spc[c] = "idle"
    /\ MayStop(c)
    /\ stops' = stops + (IF c = ScanStop THEN 1 ELSE 0)
    /\ shutdown' = TRUE
    /\ signal(wake)
    /\ spc' = [spc EXCEPT ![c] = "take"]
    /\ own' = own \cup ({c} \cap Workers)
    /\ crossed' = (crossed \/ Meets(c))
    /\ UNCHANGED <<queue, wake, slot, started, rpc, ev, wpc, bound, announced, joining, behind>>

\* A tail that finds its own worker leaves the flag set and joins nobody.
Take(c) ==
    /\ spc[c] = "take"
    /\ slot' = NoWorker
    /\ IF slot = c
       THEN spc' = [spc EXCEPT ![c] = "idle"] /\ UNCHANGED joining
       ELSE /\ spc' = [spc EXCEPT ![c] = "join"]
            /\ joining' = [joining EXCEPT ![c] = slot]
    /\ UNCHANGED <<stateVars, started, rpc, ev, workerVars, stops, behind, own, crossed>>

Joined(c) == joining[c] \in {NoWorker} \cup {w \in Workers : wpc[w] = "exited"}

Join(c) ==
    /\ spc[c] = "join" /\ Joined(c)
    /\ joining' = [joining EXCEPT ![c] = NoWorker]
    /\ spc' = [spc EXCEPT ![c] = "reopen"]
    /\ UNCHANGED <<stateVars, slot, started, rpc, ev, workerVars, stops, behind, own, crossed>>

Reopen(c) ==
    /\ spc[c] = "reopen"
    /\ shutdown' = FALSE
    /\ wake' = wake + 1
    /\ behind' = behind \cup {r \in Requests : rpc[r] = "push"}
    /\ spc' = [spc EXCEPT ![c] = "idle"]
    /\ UNCHANGED <<queue, slot, started, rpc, ev, workerVars, joining, stops, own, crossed>>

RequestStep(r) == ensure_worker(r) \/ scan_once(r) \/ Signal(r)
WorkerStep(w) == Loop(w) \/ Run(w) \/ Announce(w) \/ Check(w) \/ Unparked(w)
StopStep(c) == Take(c) \/ Join(c) \/ Reopen(c)

Next ==
    \/ \E r \in Requests : RequestStep(r)
    \/ \E w \in Workers : WorkerStep(w)
    \/ \E c \in Callers : ShutDown(c) \/ StopStep(c)

Spec == Init /\ [][Next]_vars

-----------------------------------------------------------------------------
TypeOK ==
    /\ Range(queue) \subseteq Requests /\ Len(queue) <= Capacity
    /\ shutdown \in BOOLEAN /\ wake \in Events
    /\ slot \in Workers \cup {NoWorker} /\ started \in 0 .. MaxWorkers
    /\ \A r \in Requests : rpc[r] \in {"new", "push", "signal", "overflow", "accepted", "refused", "dropped"}
    /\ \A w \in Workers : wpc[w] \in {"none", "loop", "run", "announce", "check", "parked", "exited"}

Alive == {w \in Workers : wpc[w] \notin {"none", "exited"}}

\* Records are processed one at a time: there is no second worker while one
\* lives, whatever requests and stops are under way, unless two stops met.  Then
\* the ones left over are workers whose tail called stop, that missed the flag.
OneWorker == \/ Cardinality(Alive) <= 1
             \/ crossed /\ Cardinality(Alive \ own) <= 1

\* The worker in the slot is never one that has gone, or is going without a
\* stop to take it: later requests would rely on a dead thread.
SlotAlive == slot # NoWorker => slot \in Alive \/ \E c \in Callers : spc[c] # "idle"

\* Everything has come to rest: requests, worker and stops have no step left.
AtRest == ~ENABLED (\/ \E r \in Requests : scan_once(r) \/ Signal(r)
                    \/ \E w \in Workers : WorkerStep(w)
                    \/ \E c \in Callers : StopStep(c))

\* Then, if no two stops met, every request accepted has run, one that a whole
\* stop went past while it was between its two critical sections excepted, and
\* every stop returned: its worker drained the ring, saw the flag and exited.
\* Where a tail's own stop met another one, a join may wait for ever.
AllRunAndStopped ==
    AtRest /\ ~crossed => Range(queue) \subseteq behind /\ \A c \in Callers : spc[c] = "idle"
=============================================================================
