----------------------------- MODULE EventReader -----------------------------
(***************************************************************************)
(* Monitors read one by one: a task that owns several EventReaders of one  *)
(* shared queue (EvQue) polls each in turn, or tries one without           *)
(* suspending, and sleeps when none has anything.  A reader takes its own  *)
(* oldest entry from wherever it is in the ring.                           *)
(*                                                                         *)
(* Unlike the circuit consumer (EventUser), a reader's poll takes the      *)
(* queue's lock only: it holds it while pc is "take" or "park".            *)
(***************************************************************************)
EXTENDS EvQue, Sequences, TLC

CONSTANTS Producers, MaxAttach, MaxPosts, MaxToggles

ASSUME RunAssumption == {MaxAttach, MaxPosts, MaxToggles} \subseteq Nat

VARIABLES
    q, flow_on, parked,         \* the queue, EVENTS_OFF, ppendsem
    pc, k, want, notified,      \* the task: the reader it polls, or takes for
    bursts, wakesOwed, releasing,
    mons, posts, toggles

vars == <<q, flow_on, parked, pc, k, want, notified, bursts, wakesOwed,
          releasing, mons, posts, toggles>>
taskVars == <<pc, k, want>>

Monitor == [id : AttachId, sink : BOOLEAN, reader : BOOLEAN, eof : BOOLEAN,
            posted : Nat, seen : Nat]

TypeOK ==
    /\ q \in QueInner
    /\ flow_on \in BOOLEAN /\ parked \in BOOLEAN /\ notified \in BOOLEAN
    /\ pc \in {"idle", "poll", "take", "park"}
    /\ mons \in Seq(Monitor)
    /\ k \in 1 .. (Len(mons) + 1) /\ want \in 0 .. Len(mons)
    /\ bursts \in [Producers -> {"posting", "chained", "waking"}]
    /\ wakesOwed \in 0 .. 1 /\ releasing \in BOOLEAN
    /\ posts \in Nat /\ toggles \in Nat

Init ==
    /\ q = NewQue /\ flow_on = FALSE /\ parked = FALSE
    /\ pc = "poll" /\ k = 1 /\ want = 0 /\ notified = FALSE
    /\ bursts = [p \in Producers |-> "posting"]
    /\ wakesOwed = 0 /\ releasing = FALSE
    /\ mons = <<>> /\ posts = 0 /\ toggles = 0

QueLocked == pc \in {"take", "park"}

wake_readers ==
    /\ notified' = (notified \/ parked)
    /\ parked' = FALSE

Sub(m) == q.subs[mons[m].id.slot]

-----------------------------------------------------------------------------
(* Attach, close, flow control and producers, as in EventUser.             *)

\* The task attaches the readers it owns, between two polls.
Attach ==
    /\ pc = "poll" /\ Len(mons) < MaxAttach /\ CanAttach(q)
    /\ \E slot \in q.free :
        /\ q' = try_attach(q, Len(mons) + 1, slot, "Val")
        /\ mons' = Append(mons, [id |-> [gen |-> Len(mons) + 1, slot |-> slot],
                                 sink |-> TRUE, reader |-> TRUE, eof |-> FALSE,
                                 posted |-> 0, seen |-> 0])
    /\ UNCHANGED <<flow_on, parked, notified, bursts, wakesOwed, releasing, posts, toggles, taskVars>>

CloseProducer(m) ==
    /\ ~QueLocked /\ wakesOwed = 0 /\ mons[m].sink
    /\ mons' = [mons EXCEPT ![m].sink = FALSE]
    /\ IF Live(q, mons[m].id)
       THEN q' = close_producer(q, mons[m].id) /\ wakesOwed' = 1
       ELSE UNCHANGED <<q, wakesOwed>>
    /\ UNCHANGED <<flow_on, parked, notified, bursts, releasing, posts, toggles, taskVars>>

\* The task drops a reader it owns, between two polls.
CloseReader(m) ==
    /\ pc = "poll" /\ wakesOwed = 0 /\ mons[m].reader
    /\ mons' = [mons EXCEPT ![m].reader = FALSE]
    /\ IF Live(q, mons[m].id)
       THEN q' = close_reader(q, mons[m].id) /\ wakesOwed' = 1
       ELSE UNCHANGED <<q, wakesOwed>>
    /\ UNCHANGED <<flow_on, parked, notified, bursts, releasing, posts, toggles, taskVars>>

OwedWake ==
    /\ wakesOwed = 1 /\ wakesOwed' = 0
    /\ wake_readers
    /\ UNCHANGED <<q, flow_on, bursts, releasing, mons, posts, toggles, taskVars>>

flow_ctrl_on ==
    /\ ~releasing /\ ~flow_on /\ toggles < MaxToggles
    /\ flow_on' = TRUE /\ toggles' = toggles + 1
    /\ UNCHANGED <<q, parked, notified, bursts, wakesOwed, releasing, mons, posts, taskVars>>

flow_ctrl_off ==
    /\ ~releasing /\ flow_on
    /\ flow_on' = FALSE /\ releasing' = TRUE
    /\ UNCHANGED <<q, parked, notified, bursts, wakesOwed, mons, posts, toggles, taskVars>>

\* The chain lock is free whatever a reader does, and no queue lock is taken.
FlowReleased ==
    /\ releasing /\ releasing' = FALSE
    /\ wake_readers
    /\ UNCHANGED <<q, flow_on, bursts, wakesOwed, mons, posts, toggles, taskVars>>

Post(p, m) ==
    LET id == mons[m].id
        log == [data |-> "Val", value |-> mons[m].posted + 1, mask |-> Classes]
    IN  /\ posts < MaxPosts /\ bursts[p] # "waking" /\ ~QueLocked
        /\ PostOutcome(q, flow_on, id, log) # "Closed"
        /\ posts' = posts + 1
        /\ q' = post(q, flow_on, id, log)
        /\ bursts' = IF Chains(q, flow_on, id, log) THEN [bursts EXCEPT ![p] = "chained"] ELSE bursts
        /\ mons' = [mons EXCEPT ![m].posted = @ + 1]
        /\ UNCHANGED <<flow_on, parked, notified, wakesOwed, releasing, toggles, taskVars>>

wake_chain(p) ==
    /\ bursts[p] = "chained" /\ ~QueLocked
    /\ q' = [q EXCEPT !.in_burst = FALSE]
    /\ bursts' = [bursts EXCEPT ![p] = "waking"]
    /\ UNCHANGED <<flow_on, parked, notified, wakesOwed, releasing, mons, posts, toggles, taskVars>>

BurstWake(p) ==
    /\ bursts[p] = "waking"
    /\ bursts' = [bursts EXCEPT ![p] = "posting"]
    /\ wake_readers
    /\ UNCHANGED <<q, flow_on, wakesOwed, releasing, mons, posts, toggles, taskVars>>

-----------------------------------------------------------------------------
(* The task.                                                               *)

Resume ==
    /\ pc = "idle" /\ notified
    /\ pc' = "poll" /\ notified' = FALSE
    /\ UNCHANGED <<q, flow_on, parked, k, want, bursts, wakesOwed, releasing, mons, posts, toggles>>

Polled(m) == pc = "poll" /\ m = k /\ mons[m].reader /\ ~mons[m].eof

\* poll_recv of the reader whose turn it is, or try_recv of any: the gate is
\* passed and take_for begins.
BeginTake(m) ==
    /\ pc = "poll" /\ mons[m].reader
    /\ Sub(m).npend > 0 /\ may_drain(q, flow_on)
    /\ q' = [q EXCEPT !.draining = TRUE]
    /\ pc' = "take" /\ want' = m
    /\ UNCHANGED <<flow_on, parked, notified, k, bursts, wakesOwed, releasing, mons, posts, toggles>>

\* take_for drops the cancelled entries at the head.
Purge ==
    /\ pc = "take" /\ ~HeadLive(q)
    /\ q' = advance(q)
    /\ UNCHANGED <<flow_on, parked, notified, bursts, wakesOwed, releasing, mons, posts, toggles, taskVars>>

\* The age of monitor m's oldest entry.
Oldest(m) ==
    LET ages == {Age(q, p) : p \in EntriesOf(q, mons[m].id)}
    IN  CHOOSE a \in ages : \A b \in ages : a <= b

\* take_for brings the reader's oldest entry to the head and retires it.
take_for ==
    /\ pc = "take" /\ HeadLive(q)
    /\ LET q1 == ToHead(q, Oldest(want))
       IN  /\ q' = advance(q1)
           /\ mons' = [mons EXCEPT ![want].seen = HeadEntry(q1).log.value]
    /\ pc' = "poll" /\ want' = 0 /\ k' = 1
    /\ UNCHANGED <<flow_on, parked, notified, bursts, wakesOwed, releasing, posts, toggles>>

\* The end of the stream: the producer is gone and nothing is queued.
EndOfStream(m) ==
    /\ Polled(m) /\ Sub(m).npend = 0 /\ producer_gone(Sub(m))
    /\ mons' = [mons EXCEPT ![m].eof = TRUE]
    /\ k' = 1
    /\ UNCHANGED <<q, flow_on, parked, notified, pc, want, bursts, wakesOwed, releasing, posts, toggles>>

\* Nothing to take, or withheld by EVENTS_OFF.
PollNothing(m) ==
    /\ Polled(m)
    /\ \/ Sub(m).npend > 0 /\ ~may_drain(q, flow_on)
       \/ Sub(m).npend = 0 /\ ~producer_gone(Sub(m))
    /\ pc' = "park"
    /\ UNCHANGED <<q, flow_on, parked, notified, k, want, bursts, wakesOwed, releasing, mons, posts, toggles>>

\* On to the next reader, or to sleep after the last.
NextReader ==
    IF k < Len(mons) THEN k' = k + 1 /\ pc' = "poll" ELSE k' = 1 /\ pc' = "idle"

Park ==
    /\ pc = "park"
    /\ parked' = TRUE
    /\ NextReader
    /\ UNCHANGED <<q, flow_on, notified, want, bursts, wakesOwed, releasing, mons, posts, toggles>>

\* A reader that ended or was dropped is passed over.
SkipReader ==
    /\ pc = "poll" /\ k \in DOMAIN mons /\ (mons[k].eof \/ ~mons[k].reader)
    /\ NextReader
    /\ UNCHANGED <<q, flow_on, parked, notified, want, bursts, wakesOwed, releasing, mons, posts, toggles>>

Task == \/ Resume \/ Purge \/ take_for \/ Park \/ SkipReader
        \/ \E m \in DOMAIN mons : BeginTake(m) \/ EndOfStream(m) \/ PollNothing(m)

Next == \/ Attach \/ OwedWake \/ flow_ctrl_on \/ flow_ctrl_off \/ FlowReleased
        \/ \E m \in DOMAIN mons : CloseProducer(m) \/ CloseReader(m)
        \/ \E p \in Producers : wake_chain(p) \/ BurstWake(p)
                                \/ \E m \in DOMAIN mons : Post(p, m)
        \/ Task

Spec == Init /\ [][Next]_vars

-----------------------------------------------------------------------------
(* Properties.                                                             *)

\* take_for's swaps and the newest-entry marks it moves with them: the ring
\* stays sound when an entry is taken from the middle.
RotatedRingSound == RingOK(q) /\ SlotsOK(q)

\* Each reader gets its own monitor's values in the order posted, whichever
\* reader takes first, the newest is never lost, and the end of the stream
\* comes after the last of them.
ReaderInOrder ==
    \A m \in DOMAIN mons :
        LET own == EntriesOf(q, mons[m].id)
        IN  /\ \A p, r \in own : Age(q, p) < Age(q, r) => q.ring[p].log.value < q.ring[r].log.value
            /\ \A p \in own : q.ring[p].log.value > mons[m].seen
            /\ mons[m].reader /\ mons[m].posted > mons[m].seen =>
                    \E p \in own : q.ring[p].log.value = mons[m].posted
            /\ mons[m].eof => own = {} /\ mons[m].seen = mons[m].posted

\* With readers that take entries from behind the head, the ring's counters and
\* marks stay exact and each monitor's entries stay in order (`take_for`).
ReadersSound == TypeOK /\ RotatedRingSound /\ ReaderInOrder

WakeOwed == wakesOwed = 1 \/ releasing \/ q.in_burst \/ \E p \in Producers : bursts[p] = "waking"
Readable(m) == /\ mons[m].reader /\ ~mons[m].eof
               /\ \/ Sub(m).npend > 0 /\ may_drain(q, flow_on)
                  \/ Sub(m).npend = 0 /\ producer_gone(Sub(m))

\* EvQue::poll_next, "a post landing between the check and the Pending return
\* finds it parked" (event_queue.rs:1007-1009), and an entry withheld by
\* EVENTS_OFF "is released by the same wake_readers call flow_ctrl_off makes"
\* (:1015-1016): a task asleep while one of its readers has something is owed
\* a wake.
ReaderWoken ==
    (pc = "idle" /\ ~notified /\ \E m \in DOMAIN mons : Readable(m)) => parked /\ WakeOwed

\* The same for a circuit with one monitor and no flow control, where the code
\* keeps what those comments say.
AloneWoken == toggles = 0 /\ Len(mons) = 1 => ReaderWoken
=============================================================================
