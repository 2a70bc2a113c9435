---------------------------- MODULE MCBandQueue ----------------------------
(***************************************************************************)
(* Bands that share nothing, of which one moves in a behaviour: a small    *)
(* one with two workers; one large enough to give its nodes back in        *)
(* batches of two; one whose run queue grows; one whose ring fills while   *)
(* two threads compete for the slots given back.                           *)
(***************************************************************************)
EXTENDS BandQueue, TLC

CONSTANTS r1, r2

OneRequester == {r1}
OddTasks == {e \in 1 .. MaxRequests : e % 2 = 1}

VARIABLES moving, broot, blink, bvalue, bused, bchunks, bgrower, bsleepers, bevent, btoken,
          bpc, breg, bat, breturns, bshutdown, btoWake, bissued, bran

otherVars == <<broot, blink, bvalue, bused, bchunks, bgrower, bsleepers, bevent, btoken,
               bpc, breg, bat, breturns, bshutdown, btoWake, bissued, bran>>

Batch == INSTANCE BandQueue WITH
    RingSlots <- 8, ChunkLen <- 0, MaxChunks <- 0, TaskEntries <- {}, MaxRequests <- 3,
    CanShutDown <- FALSE,
    root <- broot, link <- blink, value <- bvalue, ring_used <- bused, chunks <- bchunks,
    grower <- bgrower, sleepers <- bsleepers, event <- bevent, token <- btoken, pc <- bpc,
    reg <- breg, at <- bat, returns <- breturns, shutdown <- bshutdown, toWake <- btoWake,
    issued <- bissued, ran <- bran

Grow == INSTANCE BandQueue WITH
    RingSlots <- 0, ChunkLen <- 1, MaxChunks <- 2, TaskEntries <- {1, 2}, MaxRequests <- 2,
    CanShutDown <- FALSE, Requesters <- {r1, r2},
    root <- broot, link <- blink, value <- bvalue, ring_used <- bused, chunks <- bchunks,
    grower <- bgrower, sleepers <- bsleepers, event <- bevent, token <- btoken, pc <- bpc,
    reg <- breg, at <- bat, returns <- breturns, shutdown <- bshutdown, toWake <- btoWake,
    issued <- bissued, ran <- bran

Full == INSTANCE BandQueue WITH
    RingSlots <- 2, ChunkLen <- 0, MaxChunks <- 0, TaskEntries <- {}, MaxRequests <- 3,
    CanShutDown <- FALSE, Requesters <- {r1, r2},
    root <- broot, link <- blink, value <- bvalue, ring_used <- bused, chunks <- bchunks,
    grower <- bgrower, sleepers <- bsleepers, event <- bevent, token <- btoken, pc <- bpc,
    reg <- breg, at <- bat, returns <- breturns, shutdown <- bshutdown, toWake <- btoWake,
    issued <- bissued, ran <- bran

MCInit == /\ Init
          /\ \/ moving = "grow" /\ Grow!Init
             \/ moving = "full" /\ Full!Init
             \/ moving \in {"small", "batch"} /\ Batch!Init

\* The second worker is not scheduled; nor the first, once it has nothing to run.
OneWorker == bpc'[2] = "pop_into"
OneTurn == OneWorker /\ bpc'[1] # "announce"

\* The small band is shut down early or not at all.
MCNext ==
    /\ UNCHANGED moving
    /\ \/ moving = "small" /\ Next /\ (shutdown' => issued' <= 1) /\ UNCHANGED otherVars
       \/ moving = "batch" /\ Batch!Next /\ OneWorker /\ UNCHANGED vars
       \/ moving = "grow" /\ Grow!Next /\ OneTurn /\ UNCHANGED vars
       \/ moving = "full" /\ Full!Next /\ OneTurn /\ UNCHANGED vars

MCSpec == MCInit /\ [][MCNext]_<<moving, vars, otherVars>> /\ (moving = "small" => Fairness)

\* In each of them every node is in one place: whatever pops and pushes race,
\* batches of nodes are given back, or chunks of them are added.  So the depth
\* that callbackQueueStatus reads is one the ring can have, and entries waiting
\* on the way to a worker keep the order of their submission.
AllAccounted ==
    /\ TypeOK /\ NodesAccounted /\ DepthInRange /\ SubmissionOrder
    /\ moving = "batch" => Batch!NodesAccounted /\ Batch!DepthInRange /\ Batch!SubmissionOrder
    /\ moving = "grow" => Grow!NodesAccounted
    /\ moving = "full" => Full!NodesAccounted /\ Full!DepthInRange
=============================================================================
