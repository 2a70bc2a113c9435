------------------------------ MODULE BandStop ------------------------------
(***************************************************************************)
(* callbackInit, callbackStop, callbackCleanup and shutdown of one band    *)
(* against its requests: the word that counts every request and holds the  *)
(* state it was counted in, the workers' own counts of what they ran, the  *)
(* seal that compares the two, and the re-armable callback cells.          *)
(*                                                                         *)
(* The band's queue is a sequence here: BandQueue shows what it promises.  *)
(***************************************************************************)
EXTENDS Integers, Sequences, FiniteSets

CONSTANTS
    Requesters, Cells,      \* threads that request, the cells they request
    NumWorkers, Capacity,   \* of the band
    MaxRequests, MaxCycles, \* bounds: requests, init/stop/cleanup transitions
    NoCell

ASSUME BandBounds ==
    /\ {NumWorkers, Capacity} \subseteq Nat \ {0}
    /\ {MaxRequests, MaxCycles} \subseteq Nat
    /\ NoCell \notin Cells /\ IsFiniteSet(Requesters)

Workers == 1 .. NumWorkers
Stopper == 0                            \* the thread inside callbackStop
Sealers == Workers \cup {Stopper}
Target == Cells \cup {NoCell}           \* a cell, or a closure
BandStates == {"RUN", "STOPPING", "INIT", "STOPPED"}

VARIABLES
    band_state, band_down, count,   \* the word: band_state, SHUTDOWN, requests counted
    finished,               \* each worker's count of the requests it ran
    entries, used,          \* the queue's entries; ring slots out
    queued,                 \* CallbackCell::queued
    wrote, seen,            \* what requesters wrote for a cell, what its body saw
    req,                    \* each requester: [pc, on]
    wrk,                    \* each worker: [pc, on]
    seal,                   \* a seal under way: [slot, sum]; slot 0 when none
    stop,                   \* callbackStop: "no", "polling"
    byOwn,                  \* the last stop came from a callback of this band
    requests, cycles

word == <<band_state, band_down, count>>
callbackVars == <<queued, wrote, seen>>
stopVars == <<stop, byOwn, cycles>>
bandVars == <<band_state, band_down, count, finished, entries, used, queued, wrote, seen,
              req, wrk, seal, stop, byOwn, requests, cycles>>

Idle == [pc |-> "idle", on |-> NoCell]
NoSeal == [slot |-> 0, sum |-> 0]

BandInit ==
    /\ band_state = "INIT" /\ band_down = FALSE /\ count = 0
    /\ finished = [w \in Workers |-> 0]
    /\ entries = <<>> /\ used = 0
    /\ queued = [c \in Cells |-> FALSE]
    /\ wrote = [c \in Cells |-> 0] /\ seen = [c \in Cells |-> 0]
    /\ req = [r \in Requesters |-> Idle] /\ wrk = [w \in Workers |-> Idle]
    /\ seal = [s \in Sealers |-> NoSeal]
    /\ stop = "no" /\ byOwn = FALSE /\ requests = 0 /\ cycles = 0

-----------------------------------------------------------------------------
(* Requests.                                                               *)

\* What the requester publishes for the cell's body, before it requests.
Write(r, t) ==
    /\ req[r] = Idle /\ requests < MaxRequests
    /\ requests' = requests + 1
    /\ wrote' = [c \in Cells |-> IF c = t THEN wrote[c] + 1 ELSE wrote[c]]
    /\ req' = [req EXCEPT ![r] = [pc |-> "admit", on |-> t]]
    /\ UNCHANGED <<word, finished, entries, used, queued, seen, wrk, seal, stopVars>>

\* admit: one fetch_add counts the request and reads the state it was counted in.
admit(r) ==
    /\ req[r].pc = "admit"
    /\ count' = count + 1
    /\ req' = [req EXCEPT ![r].pc = IF band_state \in {"INIT", "STOPPED"} \/ band_down
                                    THEN "refuse" ELSE "slot"]
    /\ UNCHANGED <<band_state, band_down, finished, entries, used, callbackVars, wrk, seal, stopVars, requests>>

\* unadmit, of a request refused, not placed, or taken by a run already pending.
unadmit(r) ==
    /\ req[r].pc = "refuse"
    /\ count' = count - 1 /\ req' = [req EXCEPT ![r] = Idle]
    /\ UNCHANGED <<band_state, band_down, finished, entries, used, callbackVars, wrk, seal, stopVars, requests>>

\* push_ring, push_ring_claimed: the slot.
alloc_ring(r) ==
    /\ req[r].pc = "slot"
    /\ IF used < Capacity
       THEN used' = used + 1 /\ req' = [req EXCEPT ![r].pc = "claim"]
       ELSE req' = [req EXCEPT ![r].pc = "refuse"] /\ UNCHANGED used
    /\ UNCHANGED <<word, finished, entries, callbackVars, wrk, seal, stopVars, requests>>

\* The claim of request_cell: a swap, and the slot given back if it is pending.
claim(r) ==
    /\ req[r].pc = "claim"
    /\ LET c == req[r].on IN
       IF c \in Cells /\ queued[c]
       THEN /\ used' = used - 1 /\ req' = [req EXCEPT ![r].pc = "refuse"]
            /\ UNCHANGED queued
       ELSE /\ queued' = [x \in Cells |-> x = c \/ queued[x]]
            /\ req' = [req EXCEPT ![r].pc = "publish"] /\ UNCHANGED used
    /\ UNCHANGED <<word, finished, entries, wrote, seen, wrk, seal, stopVars, requests>>

publish(r) ==
    /\ req[r].pc = "publish"
    /\ entries' = Append(entries, req[r].on) /\ req' = [req EXCEPT ![r] = Idle]
    /\ UNCHANGED <<word, finished, used, callbackVars, wrk, seal, stopVars, requests>>

-----------------------------------------------------------------------------
(* Workers: drain_band.                                                    *)

TakeEntry(w) ==
    /\ wrk[w] = Idle /\ seal[w] = NoSeal /\ entries # <<>>
    /\ wrk' = [wrk EXCEPT ![w] = [pc |-> IF Head(entries) = NoCell THEN "second" ELSE "first",
                                  on |-> Head(entries)]]
    /\ entries' = Tail(entries) /\ used' = used - 1
    /\ UNCHANGED <<word, finished, callbackVars, req, seal, stopVars, requests>>

Unarm(w, step) ==
    /\ wrk[w].pc = step
    /\ queued' = [c \in Cells |-> queued[c] /\ c # wrk[w].on] /\ UNCHANGED seen

\* The body reads what was written for it.
Body(w, step) ==
    /\ wrk[w].pc = step
    /\ seen' = [c \in Cells |-> IF c = wrk[w].on THEN wrote[c] ELSE seen[c]]
    /\ UNCHANGED queued

\* Mutant of RunEntry: the body runs before the cell is idle again.
RunEntry_BodyFirst(w) == Body(w, "first") \/ Unarm(w, "second")

\* CellEntry::run: idle, then the body.  A closure has its body only.
RunEntry(w) == Unarm(w, "first") \/ Body(w, "second")

Run(w) ==
    /\ RunEntry(w)
    /\ wrk' = [wrk EXCEPT ![w].pc = IF @ = "first" THEN "second" ELSE "finish"]
    /\ UNCHANGED <<word, finished, entries, used, wrote, req, seal, stopVars, requests>>

\* A callback calls callbackStop: its own band cannot be waited for.  The state
\* passes through STOPPING to STOPPED in one step here: in between, a request is
\* let in as it is just before, and no seal succeeds, this callback being counted
\* and not finished.
OwnStop(w) ==
    /\ wrk[w].pc = "finish" /\ band_state = "RUN" /\ stop = "no" /\ cycles < MaxCycles
    /\ band_state' = "STOPPED" /\ byOwn' = TRUE /\ cycles' = cycles + 1
    /\ UNCHANGED <<band_down, count, finished, entries, used, callbackVars, req, wrk, seal, stop, requests>>

finish(w) ==
    /\ wrk[w].pc = "finish"
    /\ finished' = [finished EXCEPT ![w] = @ + 1]
    /\ wrk' = [wrk EXCEPT ![w] = Idle]
    /\ UNCHANGED <<word, entries, used, callbackVars, req, seal, stopVars, requests>>

-----------------------------------------------------------------------------
(* seal, by a worker that found the band empty or by callbackStop's poll:  *)
(* the state, each worker's count in turn, and a CAS on the whole word.    *)

SealBegin ==
    /\ stop = "polling" /\ seal[Stopper] = NoSeal /\ band_state = "STOPPING"
    /\ seal' = [seal EXCEPT ![Stopper].slot = 1]
    /\ UNCHANGED <<word, finished, entries, used, callbackVars, req, wrk, stopVars, requests>>

\* A worker with nothing to take seals a stopping band, then leaves or parks.
FoundEmpty(w) ==
    /\ wrk[w] = Idle /\ seal[w] = NoSeal /\ entries = <<>>
    /\ IF band_state = "STOPPING"
       THEN seal' = [seal EXCEPT ![w].slot = 1] /\ UNCHANGED wrk
       ELSE wrk' = [wrk EXCEPT ![w].pc = "leave"] /\ UNCHANGED seal
    /\ UNCHANGED <<word, finished, entries, used, callbackVars, req, stopVars, requests>>

SealSum(s) ==
    /\ seal[s].slot \in Workers
    /\ seal' = [seal EXCEPT ![s] = [slot |-> @.slot + 1, sum |-> @.sum + finished[@.slot]]]
    /\ UNCHANGED <<word, finished, entries, used, callbackVars, req, wrk, stopVars, requests>>

\* Mutant of Drained: a queue found empty is taken for a drained band.
Drained_Empty(sum) == entries = <<>>

\* The word counts as many requests as were run.
Drained(sum) == band_state = "STOPPING" /\ count = sum

SealCas(s) ==
    /\ seal[s].slot = NumWorkers + 1
    /\ band_state' = IF Drained(seal[s].sum) THEN "STOPPED" ELSE band_state
    /\ byOwn' = IF Drained(seal[s].sum) THEN FALSE ELSE byOwn
    /\ seal' = [seal EXCEPT ![s] = NoSeal]
    /\ wrk' = [w \in Workers |-> IF w = s THEN [wrk[w] EXCEPT !.pc = "leave"] ELSE wrk[w]]
    /\ UNCHANGED <<band_down, count, finished, entries, used, callbackVars, req, stop, cycles, requests>>

-----------------------------------------------------------------------------
(* The pool's states.  One thread at a time initialises, stops and cleans  *)
(* up, a callback that stops its own band excepted.                        *)

arm ==
    /\ band_state = "INIT" /\ stop = "no" /\ cycles < MaxCycles
    /\ band_state' = "RUN" /\ cycles' = cycles + 1
    /\ UNCHANGED <<band_down, count, finished, entries, used, callbackVars, req, wrk, seal, stop, byOwn, requests>>

StopBegin ==
    /\ band_state = "RUN" /\ stop = "no" /\ cycles < MaxCycles
    /\ band_state' = "STOPPING" /\ stop' = "polling" /\ cycles' = cycles + 1
    /\ UNCHANGED <<band_down, count, finished, entries, used, callbackVars, req, wrk, seal, byOwn, requests>>

\* The poll that finds the band sealed, by itself or by a worker.
StopReturn ==
    /\ stop = "polling" /\ seal[Stopper] = NoSeal /\ band_state = "STOPPED"
    /\ stop' = "no"
    /\ UNCHANGED <<word, finished, entries, used, callbackVars, req, wrk, seal, byOwn, cycles, requests>>

cleanup ==
    /\ band_state = "STOPPED" /\ stop = "no" /\ cycles < MaxCycles
    /\ band_state' = "INIT" /\ cycles' = cycles + 1
    /\ UNCHANGED <<band_down, count, finished, entries, used, callbackVars, req, wrk, seal, stop, byOwn, requests>>

\* request_shutdown, when the pool is dropped or a worker's loop died.
Shutdown ==
    /\ ~band_down /\ stop = "no" /\ band_down' = TRUE
    /\ UNCHANGED <<band_state, count, finished, entries, used, callbackVars, req, wrk, seal, stopVars, requests>>

Leave(w) ==
    /\ wrk[w].pc = "leave"
    /\ wrk' = [wrk EXCEPT ![w].pc = IF band_down THEN "gone" ELSE "parked"]
    /\ UNCHANGED <<word, finished, entries, used, callbackVars, req, seal, stopVars, requests>>

\* park_until returns once there is an entry or the band is told to exit.
Unpark(w) ==
    /\ wrk[w].pc = "parked" /\ (entries # <<>> \/ band_down)
    /\ wrk' = [wrk EXCEPT ![w].pc = "idle"]
    /\ UNCHANGED <<word, finished, entries, used, callbackVars, req, seal, stopVars, requests>>

\* The last owner of the queue drops what is left in it, which puts a cell
\* back to idle.
DropQueue ==
    /\ band_down /\ entries # <<>>
    /\ \A w \in Workers : wrk[w].pc = "gone"
    /\ \A r \in Requesters : req[r] = Idle
    /\ queued' = [c \in Cells |-> queued[c] /\ \A i \in DOMAIN entries : entries[i] # c]
    /\ entries' = <<>> /\ used' = 0
    /\ UNCHANGED <<word, finished, wrote, seen, req, wrk, seal, stopVars, requests>>

-----------------------------------------------------------------------------
RequesterStep(r) == admit(r) \/ unadmit(r) \/ alloc_ring(r) \/ claim(r) \/ publish(r)
SealStep(s) == SealSum(s) \/ SealCas(s)
BandWorkerStep(w) ==
    TakeEntry(w) \/ Run(w) \/ finish(w) \/ FoundEmpty(w) \/ SealStep(w) \/ Leave(w) \/ Unpark(w)
StopperStep == SealBegin \/ SealStep(Stopper) \/ StopReturn

BandNext ==
    \/ \E r \in Requesters : RequesterStep(r) \/ \E t \in Target : Write(r, t)
    \/ \E w \in Workers : BandWorkerStep(w) \/ OwnStop(w)
    \/ StopperStep \/ arm \/ StopBegin \/ cleanup \/ Shutdown \/ DropQueue

BandSpec == BandInit /\ [][BandNext]_bandVars

\* Threads run; callbackStop keeps polling.
BandFairness ==
    /\ \A r \in Requesters : WF_bandVars(RequesterStep(r))
    /\ \A w \in Workers : WF_bandVars(BandWorkerStep(w))
    /\ WF_bandVars(StopperStep)

BandTypeOK ==
    /\ band_state \in BandStates /\ band_down \in BOOLEAN /\ count \in Nat
    /\ finished \in [Workers -> Nat]
    /\ entries \in Seq(Target) /\ used \in 0 .. Capacity
    /\ queued \in [Cells -> BOOLEAN] /\ {wrote, seen} \subseteq [Cells -> Nat]
    /\ req \in [Requesters -> [pc : {"idle", "admit", "refuse", "slot", "claim", "publish"},
                               on : Target]]
    /\ wrk \in [Workers -> [pc : {"idle", "first", "second", "finish", "leave", "parked", "gone"}, on : Target]]
    /\ seal \in [Sealers -> [slot : 0 .. NumWorkers + 1, sum : Nat]]
    /\ stop \in {"no", "polling"} /\ byOwn \in BOOLEAN
    /\ requests \in 0 .. MaxRequests /\ cycles \in 0 .. MaxCycles

Accepted == {r \in Requesters : req[r].pc \in {"slot", "claim", "publish"}}
Busy == {w \in Workers : wrk[w].pc \in {"first", "second", "finish"}}

\* callbackStop drains: a band that was sealed, and not stopped by one of its
\* own callbacks, has nothing queued, nothing running, and no requester that
\* was let in and has yet to push.
SealedIsDrained ==
    (band_state = "STOPPED" /\ ~byOwn) => entries = <<>> /\ Busy = {} /\ Accepted = {}

\* A cell marked queued has a run coming: an entry, a requester about to push
\* it, or a worker about to clear the mark.  Otherwise every later request
\* would be taken by a run that never comes.
ArmedHasRun ==
    \A c \in Cells : queued[c] =>
        \/ \E i \in DOMAIN entries : entries[i] = c
        \/ \E r \in Requesters : req[r] = [pc |-> "publish", on |-> c]
        \/ \E w \in Workers : wrk[w] = [pc |-> "first", on |-> c]

\* A cell is queued at most once at a time.
QueuedOnce ==
    \A c \in Cells :
        Cardinality({i \in DOMAIN entries : entries[i] = c})
            + Cardinality({r \in Requesters : req[r] = [pc |-> "publish", on |-> c]}) <= 1

\* A band sealed by callbackStop has nothing queued, running or let in; a cell
\* marked queued has one run coming, through stops and restarts of its band.
BandSealed == BandTypeOK /\ SealedIsDrained /\ ArmedHasRun /\ QueuedOnce

\* A request that was accepted, coalesced or not, is seen by a run of the body
\* that begins after what the requester wrote.
SeenAfterAccepted ==
    \A c \in Cells, r \in Requesters :
        (req[r] = [pc |-> "claim", on |-> c]) ~> (band_down \/ seen[c] = wrote[c])

\* callbackStop returns, requests going on or not.
StopReturns == (stop = "polling") ~> (stop = "no" \/ band_down)
=============================================================================
