----------------------------- MODULE MCRuntime -----------------------------
(***************************************************************************)
(* The runtime beneath the server: the delayed timer, the stopping of a    *)
(* callback band, a future's task, the scanOnce worker.  Here they share   *)
(* no state, so one of them moves in a behaviour and the others stay as    *)
(* they start.                                                             *)
(***************************************************************************)
EXTENDS TimerSleep, FutureTask, BandStop, TLC

CONSTANTS s1, q1, q2, w1, w2, src1, src2

OneSleep == {s1}
OneRequest == {q1}
TwoPollers == {w1, w2}
TwoSources == {src1, src2}

VARIABLES moving, o_queue,
          o_shutdown, o_wake, o_slot, o_started, o_rpc, o_ev, o_wpc, o_bound, o_running,
          o_token, o_announced, o_spc, o_joining, o_stops, o_behind, o_own,
          o_crossed

onceVars == <<
    o_queue, o_shutdown, o_wake, o_slot, o_started, o_rpc, o_ev, o_wpc, o_bound,
    o_running, o_token, o_announced, o_spc, o_joining, o_stops, o_behind, o_own, o_crossed>>

Once == INSTANCE ScanOnce WITH
    Requests <- {q1, q2}, Capacity <- 1, MaxStops <- 2, Stoppers <- {q1, q2},
    queue <- o_queue, shutdown <- o_shutdown, wake <- o_wake, slot <- o_slot,
    started <- o_started, rpc <- o_rpc, ev <- o_ev, wpc <- o_wpc, bound <- o_bound,
    running <- o_running, token <- o_token, announced <- o_announced, spc <- o_spc,
    joining <- o_joining, stops <- o_stops, behind <- o_behind, own <- o_own,
    crossed <- o_crossed

ASSUME Once!Bounds

MCInit ==
    /\ Init /\ BandInit /\ Once!Init /\ TaskInit
    /\ moving \in {"timer", "band", "once", "task"}
    /\ moving = "timer" \/ \A s \in Sleeps : deadline[s] = 0
    /\ moving # "task" => fpc[Spawner] = "timer"

\* With a delayed request the timer is not dropped and everything is due soon.
Requested == \E q \in Requests : pc[q] # "new"
DueSoon == /\ \A s \in Sleeps : deadline[s] <= 1
           /\ \A c \in Callers : delay[c] <= 1 \/ delay[c] <= now
TimerNext == Next /\ (Requested' => ~shutdown' /\ DueSoon')

\* The request that may find the ring full meets one stop, from outside.
FullAlone == requests' = MaxRequests => cycles' <= 2 /\ ~band_down' /\ ~byOwn'

MCNext ==
    /\ UNCHANGED moving
    /\ \/ moving = "timer" /\ TimerNext /\ UNCHANGED <<bandVars, taskVars, onceVars>>
       \/ moving = "band" /\ BandNext /\ FullAlone /\ UNCHANGED <<vars, taskVars, onceVars>>
       \/ moving = "task" /\ TaskNext /\ UNCHANGED <<vars, bandVars, onceVars>>
       \/ moving = "once" /\ Once!Next /\ UNCHANGED <<vars, bandVars, taskVars>>

MCSpec == /\ MCInit /\ [][MCNext]_<<moving, vars, bandVars, taskVars, onceVars>>
          /\ moving = "band" => BandFairness

-----------------------------------------------------------------------------
\* A request of a cell, coalesced or not, is seen by a run that begins after it;
\* callbackStop returns though requests go on; a task's first outcome stands.
PromisesKept == SeenAfterAccepted /\ StopReturns /\ OutcomeStands

\* There is one scanOnce worker, and the one in the slot lives unless a stop is
\* taking it.  When all is at rest: no sleep and no delayed request waits for the
\* timer; a task aborted, woken or that nothing can wake has ended and its joiner
\* knows, its band shut down or not; scanOnce's accepted requests have run, if no
\* whole stop went past them, and every stop, scanStop's or a tail's own, has
\* returned.  Two exceptions are the code's: an entry stranded by a shutdown
\* between its test and its push, and a tail's own stop that meets another stop.
RuntimeSettled ==
    /\ Once!TypeOK /\ Once!OneWorker /\ Once!SlotAlive /\ Once!AllRunAndStopped
    /\ moving = "timer" => NoneSleepOn
    /\ HandleResolved
=============================================================================
