------------------------------ MODULE EventUser ------------------------------
(***************************************************************************)
(* A circuit's event_user: the chain of monitor queues (EvQue), the        *)
(* EVENTS_OFF flag, the replies owed to the client, and the one consumer   *)
(* task that delivers them.  Producers (record threads) post in bursts     *)
(* whose queues are woken when the burst drops; the dispatch thread        *)
(* attaches and cancels monitors, toggles flow control and posts replies.  *)
(*                                                                         *)
(* Locks.  Every action is one locked section, or one access made outside  *)
(* any lock.  The consumer's poll holds the chain lock while pc is "walk", *)
(* "drain" or "park", and the lock of queue `at' in the last two, so the   *)
(* actions of others that need those locks are disabled there.             *)
(***************************************************************************)
EXTENDS EvQue, Sequences, TLC

CONSTANTS Producers,      \* threads that post, each holding one burst at a time
          Forms,          \* the ways monitors hold values, see MonForm
          Masks,          \* the class sets posts carry
          MaxAttach, MaxPosts, MaxReplies, MaxToggles,  \* bounds of a run
          Ops,            \* which of "close", "cancel", "exit" a run includes
          MaxCallers      \* threads at once between a close or a reply and its wake

\* How a monitor's posts arrive: its slot's kind, and what its posts carry (a
\* filter of the monitor makes every log of it an owned copy, or none).
MonForm == [kind : LogKind, data : LogData]

ASSUME RunAssumption ==
    /\ Forms \subseteq MonForm
    /\ Masks \subseteq (SUBSET Classes)
    /\ {MaxAttach, MaxPosts, MaxReplies, MaxToggles, MaxCallers} \subseteq Nat

VARIABLES
    \* FlowCtrl and QueChain
    ques, flow_on, parked, reading, replies, closed,
    \* the consumer task: its place in poll_next, the queues already passed in
    \* this poll, whether the executor has it scheduled
    pc, step, notified,
    \* bursts, and wakes their callers still owe after an unlock
    bursts, wakesOwed, releasing,
    \* the sinks and readers handed out, in attach order, and bounds' counters
    mons, posts, toggles, replied,
    \* history: queues this poll found withheld by EVENTS_OFF
    withheld

consumerVars == <<pc, step, reading, withheld>>
wakeVars == <<parked, notified>>
vars == <<ques, flow_on, parked, reading, replies, closed, pc, step, notified,
          bursts, wakesOwed, releasing, mons, posts, toggles, replied, withheld>>

\* The producer and consumer halves of a subscription, and the history the
\* properties speak of: the newest accepted post, the newest post a delivery
\* covered, the classes accepted and not delivered, the ends reported.  A
\* by-reference entry's field is read after its take, so what reaches the
\* client covers every post made before the take, and perhaps later ones.
Monitor == [que : Nat \ {0}, id : AttachId, data : LogData,
            sink : BOOLEAN, reader : BOOLEAN,
            posted : Nat, seen : Nat, owed : SUBSET Classes, ended : Nat]

\* An owed reply: the entries it waits for, and the history of what was posted
\* before it.  A burst: where its drop is, and the queues it chained.
OwedReply(D) == [ahead : UNION {[S -> Nat] : S \in SUBSET D}, needs : Seq(Nat)]
PostBurst(D) == [phase : {"posting", "dropping", "waking"}, chain : Seq(D)]

TypeOK ==
    /\ ques \in Seq(QueInner)
    /\ flow_on \in BOOLEAN /\ parked \in BOOLEAN /\ closed \in BOOLEAN
    /\ reading \in DOMAIN ques
    /\ replies \in Seq(OwedReply(DOMAIN ques))
    /\ pc \in {"idle", "poll", "walk", "drain", "park", "gone"}
    /\ step \in 0 .. (Len(ques) - 1)
    /\ notified \in BOOLEAN
    /\ bursts \in [Producers -> PostBurst(DOMAIN ques)]
    /\ wakesOwed \in Nat /\ releasing \in BOOLEAN
    /\ mons \in Seq(Monitor)
    /\ \A m \in DOMAIN mons : mons[m].que \in DOMAIN ques
    /\ posts \in Nat /\ toggles \in Nat /\ replied \in Nat
    /\ withheld \subseteq DOMAIN ques

Init ==
    /\ ques = <<NewQue>> /\ flow_on = FALSE /\ parked = FALSE
    /\ reading = 1 /\ replies = <<>> /\ closed = FALSE
    /\ pc = "poll" /\ step = 0 /\ notified = FALSE
    /\ bursts = [p \in Producers |-> [phase |-> "posting", chain |-> <<>>]]
    /\ wakesOwed = 0 /\ releasing = FALSE
    /\ mons = <<>> /\ posts = 0 /\ toggles = 0 /\ replied = 0
    /\ withheld = {}

-----------------------------------------------------------------------------
(* Locks and wakes.                                                        *)

\* The queue the poll's walk is on: the chain from `reading', wrapped.
at == IF reading + step > Len(ques) THEN reading + step - Len(ques) ELSE reading + step

ChainLocked == pc \in {"walk", "drain", "park"}
\* Mutant of QueLocked: the consumer lets the lock go before it parks.
QueLocked_NotToPark(i) == pc = "drain" /\ i = at

QueLocked(i) == pc \in {"drain", "park"} /\ i = at

\* EvQue::wake_readers: the parked waker, if any, is taken and woken.  A wake
\* delayed after the take only adds a spurious poll, see ResumeOther.
wake_readers ==
    /\ notified' = (notified \/ parked)
    /\ parked' = FALSE

-----------------------------------------------------------------------------
(* The dispatch thread: attach, cancel, flow control, replies.             *)

\* attach_que: the first queue of the chain with room, else a new queue.
attach_que(i, slot, form) ==
    LET chain == IF i > Len(ques) THEN Append(ques, NewQue) ELSE ques
        gen == Len(mons) + 1
    IN  /\ \A j \in 1 .. (i - 1) : ~CanAttach(ques[j])
        /\ CanAttach(chain[i]) /\ slot \in chain[i].free
        /\ ques' = [chain EXCEPT ![i] = try_attach(@, gen, slot, form.kind)]
        /\ mons' = Append(mons, [que |-> i, id |-> [gen |-> gen, slot |-> slot],
                                 data |-> form.data, sink |-> TRUE, reader |-> TRUE,
                                 posted |-> 0, seen |-> 0, owed |-> {}, ended |-> 0])

Attach ==
    /\ ~ChainLocked /\ Len(mons) < MaxAttach
    /\ \E i \in 1 .. (Len(ques) + 1), slot \in Slots, form \in Forms :
            attach_que(i, slot, form)
    /\ UNCHANGED <<flow_on, replies, closed, bursts, wakesOwed, releasing, posts, toggles, replied>>
    /\ UNCHANGED <<consumerVars, wakeVars>>

\* Mutant of CloseProducer: the consumer is not woken.
CloseProducer_NoWake(m) ==
    /\ "close" \in Ops /\ wakesOwed < MaxCallers
    /\ ~QueLocked(mons[m].que)
    /\ Live(ques[mons[m].que], mons[m].id)
    /\ mons' = [mons EXCEPT ![m].sink = FALSE]
    /\ ques' = [ques EXCEPT ![mons[m].que] = close_producer(@, mons[m].id)]
    /\ UNCHANGED <<flow_on, replies, closed, bursts, wakesOwed, releasing, posts, toggles, replied>>
    /\ UNCHANGED <<consumerVars, wakeVars>>

\* EventSink::close, by the owner that removed the row, and again by the
\* sink's drop.  On a detached monitor it does nothing.
CloseProducer(m) ==
    /\ "close" \in Ops /\ wakesOwed < MaxCallers
    /\ ~QueLocked(mons[m].que)
    /\ Live(ques[mons[m].que], mons[m].id)
    /\ mons' = [mons EXCEPT ![m].sink = FALSE]
    /\ ques' = [ques EXCEPT ![mons[m].que] = close_producer(@, mons[m].id)]
    /\ wakesOwed' = wakesOwed + 1
    /\ UNCHANGED <<flow_on, replies, closed, bursts, releasing, posts, toggles, replied>>
    /\ UNCHANGED <<consumerVars, wakeVars>>

\* The reader's drop: db_cancel_event.
CloseReader(m) ==
    /\ "cancel" \in Ops /\ mons[m].reader /\ wakesOwed < MaxCallers
    /\ ~QueLocked(mons[m].que)
    /\ mons' = [mons EXCEPT ![m].reader = FALSE]
    /\ IF Live(ques[mons[m].que], mons[m].id)
       THEN /\ ques' = [ques EXCEPT ![mons[m].que] = close_reader(@, mons[m].id)]
            /\ wakesOwed' = wakesOwed + 1
       ELSE UNCHANGED <<ques, wakesOwed>>
    /\ UNCHANGED <<flow_on, replies, closed, bursts, releasing, posts, toggles, replied>>
    /\ UNCHANGED <<consumerVars, wakeVars>>

\* The wake a close or a reply's post makes after its unlock.
OwedWake ==
    /\ wakesOwed > 0
    /\ wakesOwed' = wakesOwed - 1
    /\ wake_readers
    /\ UNCHANGED <<ques, flow_on, replies, closed, bursts, releasing, mons, posts, toggles, replied>>
    /\ UNCHANGED consumerVars

\* EVENTS_OFF.  One thread dispatches a circuit's requests, so it is not
\* between the two halves of flow_ctrl_off.
flow_ctrl_on ==
    /\ ~releasing /\ ~flow_on /\ toggles < MaxToggles
    /\ flow_on' = TRUE /\ toggles' = toggles + 1
    /\ UNCHANGED <<ques, replies, closed, bursts, wakesOwed, releasing, mons, posts, replied>>
    /\ UNCHANGED <<consumerVars, wakeVars>>

\* EVENTS_ON: the store needs no lock, the wakes hold the chain lock.
flow_ctrl_off ==
    /\ ~releasing /\ flow_on
    /\ flow_on' = FALSE /\ releasing' = TRUE
    /\ UNCHANGED <<ques, replies, closed, bursts, wakesOwed, mons, posts, toggles, replied>>
    /\ UNCHANGED <<consumerVars, wakeVars>>

\* Mutant of FlowReleased: the consumer is not woken.
FlowReleased_NoWake ==
    /\ releasing /\ ~ChainLocked
    /\ releasing' = FALSE
    /\ UNCHANGED <<ques, flow_on, replies, closed, bursts, wakesOwed, mons, posts, toggles, replied>>
    /\ UNCHANGED <<consumerVars, wakeVars>>

FlowReleased ==
    /\ releasing /\ ~ChainLocked
    /\ releasing' = FALSE
    /\ wake_readers
    /\ UNCHANGED <<ques, flow_on, replies, closed, bursts, wakesOwed, mons, posts, toggles, replied>>
    /\ UNCHANGED consumerVars

\* The entries a reply waits for: per queue that holds some, the count of
\* entries taken once the last of them has left.
post_reply ==
    /\ ~ChainLocked /\ ~closed /\ replied < MaxReplies /\ wakesOwed < MaxCallers
    /\ replies' = Append(replies,
            [ahead |-> [i \in {j \in DOMAIN ques : ques[j].used > 0} |-> ques[i].taken + ques[i].used],
             needs |-> [m \in DOMAIN mons |-> mons[m].posted]])
    /\ wakesOwed' = wakesOwed + 1 /\ replied' = replied + 1
    /\ UNCHANGED <<ques, flow_on, closed, bursts, releasing, mons, posts, toggles>>
    /\ UNCHANGED <<consumerVars, wakeVars>>

-----------------------------------------------------------------------------
(* Producers.                                                              *)

\* Does queue q hold an entry of monitor m that carries class c?
Carried(q, id, c) == \E p \in EntriesOf(q, id) : c \in q.ring[p].log.mask

\* One post of a burst, through any handle ever made: a sink outlives its
\* close in a retired map.  A refused post changes nothing.
Post(p, m) ==
    /\ posts < MaxPosts /\ bursts[p].phase = "posting"
    /\ ~QueLocked(mons[m].que)
    /\ posts' = posts + 1
    /\ \E mask \in Masks :
        LET i == mons[m].que
            id == mons[m].id
            log == [data |-> mons[m].data, value |-> mons[m].posted + 1, mask |-> mask]
        IN  /\ PostOutcome(ques[i], flow_on, id, log) # "Closed"
            /\ ques' = [ques EXCEPT ![i] = post(@, flow_on, id, log)]
            /\ bursts' = IF Chains(ques[i], flow_on, id, log)
                         THEN [bursts EXCEPT ![p].chain = Append(@, i)] ELSE bursts
            /\ mons' = [mons EXCEPT ![m].posted = @ + 1, ![m].owed = @ \cup mask]
    /\ UNCHANGED <<flow_on, replies, closed, wakesOwed, releasing, toggles, replied>>
    /\ UNCHANGED <<consumerVars, wakeVars>>

\* PostBurst's drop: queue by queue in the order chained, leave the burst
\* under the queue's lock, then wake outside it.
wake_chain(p) ==
    /\ bursts[p].phase \in {"posting", "dropping"} /\ bursts[p].chain # <<>>
    /\ LET i == Head(bursts[p].chain)
       IN  /\ ~QueLocked(i)
           /\ ques' = [ques EXCEPT ![i].in_burst = FALSE]
    /\ bursts' = [bursts EXCEPT ![p] = [phase |-> "waking", chain |-> Tail(@.chain)]]
    /\ UNCHANGED <<flow_on, replies, closed, wakesOwed, releasing, mons, posts, toggles, replied>>
    /\ UNCHANGED <<consumerVars, wakeVars>>

BurstWake(p) ==
    /\ bursts[p].phase = "waking"
    /\ wake_readers
    /\ bursts' = [bursts EXCEPT ![p].phase = IF bursts[p].chain = <<>> THEN "posting" ELSE "dropping"]
    /\ UNCHANGED <<ques, flow_on, replies, closed, wakesOwed, releasing, mons, posts, toggles, replied>>
    /\ UNCHANGED consumerVars

-----------------------------------------------------------------------------
(* The consumer: poll_next_into.                                           *)

\* The executor runs the task a wake scheduled.
Resume ==
    /\ pc = "idle" /\ notified
    /\ pc' = "poll" /\ notified' = FALSE
    /\ UNCHANGED <<ques, flow_on, parked, reading, replies, closed, step, bursts,
                   wakesOwed, releasing, mons, posts, toggles, replied, withheld>>

\* The task also polls when another arm of its select wakes it.
ResumeOther ==
    /\ pc = "idle"
    /\ pc' = "poll"
    /\ UNCHANGED <<ques, flow_on, parked, notified, reading, replies, closed, step,
                   bursts, wakesOwed, releasing, mons, posts, toggles, replied, withheld>>

\* Mutant of reply_due: a reply leaves with its last entry still queued.
reply_due_OneShort ==
    /\ replies # <<>>
    /\ \A i \in DOMAIN Head(replies).ahead : ques[i].taken + 1 >= Head(replies).ahead[i]

\* Every entry the front reply waits for has left its queue.
reply_due ==
    /\ replies # <<>>
    /\ \A i \in DOMAIN Head(replies).ahead : ques[i].taken >= Head(replies).ahead[i]

PollReply ==
    /\ pc = "poll" /\ reply_due
    /\ replies' = Tail(replies)
    /\ UNCHANGED <<ques, flow_on, closed, bursts, wakesOwed, releasing, mons, posts, toggles, replied>>
    /\ UNCHANGED <<consumerVars, wakeVars>>

PollBegin ==
    /\ pc = "poll" /\ ~reply_due
    /\ pc' = "walk"
    /\ UNCHANGED <<ques, flow_on, reading, step, withheld, replies, closed, bursts, wakesOwed,
                   releasing, mons, posts, toggles, replied>>
    /\ UNCHANGED wakeVars

\* take_oldest has an entry to retire: the EVENTS_OFF gate is read once, and
\* past it the loop over cancelled entries runs until the ring is empty.
Takes ==
    /\ ques[at].used > 0
    /\ \/ pc = "walk" /\ may_drain(ques[at], flow_on)
       \/ pc = "drain"

\* Mutant of PollEvent: the next poll does not go on with this queue.
PollEvent_Forgets ==
    /\ Takes /\ HeadLive(ques[at])
    /\ LET e == HeadEntry(ques[at])
           m == e.id.gen
           value == IF is_ref(e.log) THEN mons[m].posted ELSE e.log.value
       IN  /\ ques' = [ques EXCEPT ![at] = advance(@)]
           /\ mons' = [mons EXCEPT ![m].seen = value,
                                   ![m].owed = {c \in @ : c \in e.log.mask =>
                                                    Carried(ques'[at], e.id, c)}]
    /\ reading' = 1 /\ step' = 0 /\ pc' = "poll" /\ withheld' = {}
    /\ UNCHANGED <<flow_on, replies, closed, bursts, wakesOwed, releasing, posts, toggles, replied>>
    /\ UNCHANGED wakeVars

PollEvent ==
    /\ Takes /\ HeadLive(ques[at])
    /\ LET e == HeadEntry(ques[at])
           m == e.id.gen
           value == IF is_ref(e.log) THEN mons[m].posted ELSE e.log.value
       IN  /\ ques' = [ques EXCEPT ![at] = advance(@)]
           /\ mons' = [mons EXCEPT ![m].seen = value,
                                   ![m].owed = {c \in @ : c \in e.log.mask =>
                                                    Carried(ques'[at], e.id, c)}]
    /\ reading' = at /\ step' = 0 /\ pc' = "poll" /\ withheld' = {}
    /\ UNCHANGED <<flow_on, replies, closed, bursts, wakesOwed, releasing, posts, toggles, replied>>
    /\ UNCHANGED wakeVars

\* A cancelled monitor's entry is dropped, and the loop goes on.
DropCancelled ==
    /\ Takes /\ ~HeadLive(ques[at])
    /\ ques' = [ques EXCEPT ![at] = advance(@)]
    /\ pc' = "drain"
    /\ UNCHANGED <<flow_on, reading, step, replies, closed, bursts, wakesOwed, releasing,
                   mons, posts, toggles, replied, withheld>>
    /\ UNCHANGED wakeVars

PollEnded ==
    /\ pc \in {"walk", "drain"} /\ ~Takes
    /\ \E slot \in Ended(ques[at]) :
        /\ ques' = [ques EXCEPT ![at] = take_ended(@, slot)]
        /\ mons' = [mons EXCEPT ![ques[at].subs[slot].id.gen].ended = @ + 1]
    /\ reading' = at /\ step' = 0 /\ pc' = "poll" /\ withheld' = {}
    /\ UNCHANGED <<flow_on, replies, closed, bursts, wakesOwed, releasing, posts, toggles, replied>>
    /\ UNCHANGED wakeVars

PollNothing ==
    /\ pc \in {"walk", "drain"} /\ ~Takes /\ Ended(ques[at]) = {}
    /\ pc' = "park"
    /\ withheld' = IF flow_on THEN withheld \cup {at} ELSE withheld
    /\ UNCHANGED <<ques, flow_on, reading, step, replies, closed, bursts, wakesOwed,
                   releasing, mons, posts, toggles, replied>>
    /\ UNCHANGED wakeVars

\* Park, still under the queue's lock, and go to the next queue.
ParkNext ==
    /\ pc = "park" /\ step + 1 < Len(ques)
    /\ parked' = TRUE
    /\ step' = step + 1 /\ pc' = "walk"
    /\ UNCHANGED <<ques, flow_on, reading, replies, closed, notified, bursts, wakesOwed,
                   releasing, mons, posts, toggles, replied, withheld>>

\* Mutant of ParkLast: a reply is withheld with the entries before it.
ParkLast_Withholds ==
    /\ pc = "park" /\ step + 1 = Len(ques)
    /\ parked' = TRUE
    /\ step' = 0 /\ withheld' = {}
    /\ pc' = "idle" /\ reading' = 1
    /\ UNCHANGED <<ques, flow_on, replies, closed, notified, bursts, wakesOwed, releasing, mons,
                   posts, toggles, replied>>

\* Past the last queue: a reply whose entries are withheld goes now, or the
\* poll is pending and the next one starts a new pass.
ParkLast ==
    /\ pc = "park" /\ step + 1 = Len(ques)
    /\ parked' = TRUE
    /\ step' = 0 /\ withheld' = {}
    /\ IF replies # <<>>
       THEN replies' = Tail(replies) /\ pc' = "poll" /\ reading' = reading
       ELSE replies' = replies /\ pc' = "idle" /\ reading' = 1
    /\ UNCHANGED <<ques, flow_on, closed, notified, bursts, wakesOwed, releasing, mons,
                   posts, toggles, replied>>

\* The consumer exits, aborted at an await or with its circuit: replies owed
\* are dropped with their holds.
close_replies ==
    /\ "exit" \in Ops /\ pc \in {"idle", "poll"}
    /\ pc' = "gone" /\ closed' = TRUE /\ replies' = <<>>
    /\ UNCHANGED <<ques, flow_on, reading, step, bursts, wakesOwed, releasing, mons,
                   posts, toggles, replied, withheld>>
    /\ UNCHANGED wakeVars

-----------------------------------------------------------------------------
Dispatch == \/ Attach \/ flow_ctrl_on \/ flow_ctrl_off \/ FlowReleased
            \/ post_reply \/ OwedWake
            \/ \E m \in DOMAIN mons : CloseProducer(m) \/ CloseReader(m)

Produce(p) == \/ \E m \in DOMAIN mons : Post(p, m)
              \/ wake_chain(p) \/ BurstWake(p)

Poll == \/ PollReply \/ PollBegin \/ PollEvent \/ DropCancelled
        \/ PollEnded \/ PollNothing \/ ParkNext \/ ParkLast

Next == Dispatch \/ (\E p \in Producers : Produce(p)) \/ Poll
        \/ Resume \/ ResumeOther \/ close_replies

Spec == Init /\ [][Next]_vars

(***************************************************************************)
(* Fairness.  The executor runs a scheduled task and a started poll goes   *)
(* on; a thread that waits for a lock the consumer releases gets it, and   *)
(* so finishes the burst or the call it is in.  Nothing makes a producer   *)
(* post, a client toggle flow control or another select arm poll.          *)
(***************************************************************************)
Fairness ==
    /\ WF_vars(Resume) /\ WF_vars(Poll) /\ WF_vars(OwedWake)
    /\ SF_vars(FlowReleased)
    /\ \A p \in Producers : SF_vars(wake_chain(p)) /\ WF_vars(BurstWake(p))

FairSpec == Spec /\ Fairness

-----------------------------------------------------------------------------
(* Properties.                                                             *)

\* event_queue.rs:38-43, :506-511.  In every queue of the chain the ring
\* keeps a free place, n_duplicates counts the entries beyond the first of
\* each monitor, and npend and last describe the monitor's own entries, so a
\* post overwrites only its own monitor's newest entry.
RingSound == \A i \in DOMAIN ques : RingOK(ques[i])

\* A cancelled monitor's slot, quota and unreported end come back exactly
\* once, and with its last entry (release, free_slot), so that an attach the
\* quota admits always finds a slot.
SlotsSound == \A i \in DOMAIN ques : SlotsOK(ques[i])

\* post and wake_chain.  A queue is marked in_burst exactly while it is on one
\* burst's chain, once: the mark is a wake some burst's drop still makes.
BurstOwnsQueue ==
    \A i \in DOMAIN ques :
        LET places == UNION {{<<p, k>> : k \in {k \in DOMAIN bursts[p].chain :
                                                bursts[p].chain[k] = i}} : p \in Producers}
        IN  IF ques[i].in_burst THEN Cardinality(places) = 1 ELSE places = {}

Deliverable(q) == (q.used > 0 /\ may_drain(q, flow_on)) \/ Ended(q) # {}
WakeOwed ==
    \/ wakesOwed > 0 \/ releasing
    \/ \E p \in Producers : bursts[p].phase = "waking"
    \/ \E i \in DOMAIN ques : ques[i].in_burst

\* wake_readers, "SINGLE OWNER of reader wakeup" (event_queue.rs:905-908).  A
\* consumer asleep with something to deliver is parked, and a wake of it is
\* still to come from a burst, a close, a reply's post or EVENTS_ON.
NoLostWake ==
    (pc = "idle" /\ ~notified
        /\ (replies # <<>> \/ \E i \in DOMAIN ques : Deliverable(ques[i])))
    => parked /\ WakeOwed

\* A monitor's entries, wherever they are in the shared ring.
Queued(m) == EntriesOf(ques[mons[m].que], mons[m].id)
LogAt(m, p) == ques[mons[m].que].ring[p].log
Reaches(m, p) == IF is_ref(LogAt(m, p)) THEN mons[m].posted ELSE LogAt(m, p).value

\* event_read's order, and C's replace and early-drop.  What a monitor will be
\* delivered is newer than what it saw and increases down the ring, and the
\* newest value posted to a monitor still read was delivered or is queued.
MonitorInOrder ==
    \A m \in DOMAIN mons :
        LET q == ques[mons[m].que]
        IN  /\ \A p \in Queued(m) : Reaches(m, p) > mons[m].seen
            /\ \A p, r \in Queued(m) :
                    Age(q, p) < Age(q, r) => Reaches(m, p) < Reaches(m, r)
            /\ mons[m].reader /\ mons[m].posted > mons[m].seen =>
                    \E p \in Queued(m) : Reaches(m, p) = mons[m].posted

\* The masks of replaced and collapsed posts join (set_mask_or, into_log_or):
\* no event class posted to a monitor is lost with the value it came with.
ClassesNotLost ==
    \A m \in DOMAIN mons : mons[m].reader =>
        mons[m].owed = UNION {LogAt(m, p).mask : p \in Queued(m)}

\* take_ended.  The end of a monitor's stream is reported at most once, and
\* only when its producer is gone and everything posted was delivered.
EndAfterLast ==
    \A m \in DOMAIN mons :
        /\ mons[m].ended <= 1
        /\ mons[m].ended = 1 => /\ ~mons[m].sink /\ Queued(m) = {}
                                /\ mons[m].reader => mons[m].seen = mons[m].posted

\* poll_next, "event_read empties a queue before the loop moves to nextque":
\* a drain pass is in flight on the queue being read and on no other, so no
\* entry of another queue is delivered before its last.
OneDrainPass ==
    \A i \in DOMAIN ques : ques[i].draining =>
        i = IF pc = "drain" THEN at ELSE reading

\* post_reply, "a client that sees the reply has seen the monitor updates its
\* put posted": a reply leaves once every value posted before it to a monitor
\* still read was delivered, unless EVENTS_OFF withheld that monitor's queue
\* in the poll that delivers the reply.
ReplyAfterPosts ==
    [][Len(replies') < Len(replies) /\ ~closed' =>
        \A m \in DOMAIN Head(replies).needs :
            \/ ~mons[m].reader
            \/ mons[m].seen >= Head(replies).needs[m]
            \/ pc = "park" /\ mons[m].que \in withheld]_vars

\* may_drain.  EVENTS_OFF: with the flag set, a pass over a queue starts only
\* while some monitor of it has a second entry queued.
GateHolds ==
    [][\A i \in DOMAIN ques :
        ques'[i].taken > ques[i].taken /\ pc = "walk" /\ flow_on /\ ~ques[i].draining =>
            \E s \in Slots : ques[i].subs[s] # NoSub /\ ques[i].subs[s].npend > 1]_vars

-----------------------------------------------------------------------------
(* Liveness, under FairSpec.                                               *)

CircuitEnded == pc = "gone"
Monitors == 1 .. MaxAttach
Owed(m) == m \in DOMAIN mons /\ mons[m].reader /\ mons[m].posted > mons[m].seen
Withheld(m) == flow_on /\ ques[mons[m].que].n_duplicates = 0

\* Every value posted to a monitor is delivered, or a newer one in its place,
\* unless the monitor is cancelled, the circuit ends, or EVENTS_OFF holds its
\* queue without duplicates.
ValueDelivered ==
    \A m \in Monitors : Owed(m) ~> (~Owed(m) \/ Withheld(m) \/ CircuitEnded)

\* Every reply is delivered or dropped with its hold, EVENTS_OFF or not: a
\* put-callback's successor waits on the hold.
RepliesReleased == (replies # <<>>) ~> (replies = <<>>)

\* The end of a stream is reported, unless its reader goes first, its last
\* entries are withheld or the circuit ends.
Ending(m) == m \in DOMAIN mons /\ ~mons[m].sink /\ mons[m].reader /\ mons[m].ended = 0
EndReported ==
    \A m \in Monitors : Ending(m) ~> (~Ending(m) \/ Withheld(m) \/ CircuitEnded)
=============================================================================
