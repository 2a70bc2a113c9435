-------------------------------- MODULE EvQue --------------------------------
(***************************************************************************)
(* One monitor event queue: the ring an IOC's monitors share, a port of    *)
(* dbEvent.c's event_que.  Everything the queue's lock protects is a       *)
(* record, and every operation made under the lock is an operator from     *)
(* that record to the next, so that the specifications of the circuit      *)
(* consumer (EventUser) and of the per-monitor readers (EventReader) use   *)
(* the same queue, and a fact proved of an operator holds in both.         *)
(*                                                                         *)
(* A log keeps what tells two posts apart: how it holds its value, the     *)
(* value, and the event classes it carries.  An operator is applied only   *)
(* under the condition its comment states, as in the code.                 *)
(***************************************************************************)
EXTENDS Integers, FiniteSets

CONSTANTS EVENT_ENTRIES,    \* ring entries reserved per monitor (the code: 4)
          EVENTS_PER_QUE,   \* monitors' worth of ring, and the replace threshold
          Slots,            \* the slab's slots, one per EVENTS_PER_QUE
          Classes,          \* the DBE_* event classes a post can carry
          NoEntry, NoSub    \* an empty ring place, an empty slab slot

size == EVENT_ENTRIES * EVENTS_PER_QUE
replace_threshold == EVENTS_PER_QUE

Places == 0 .. (size - 1)

\* A subscription handle: the generation is process-wide, the slot the queue's.
AttachId == [gen : Nat, slot : Slots]
LogData == {"Val", "Ref", "Owned"}
PostLog == [data : LogData, value : Nat, mask : SUBSET Classes]
Entry == [id : AttachId, log : PostLog]
LogKind == {"Val", "Ref"}
Gone == {"producer", "reader"}
SubQ == [id : AttachId, kind : LogKind, npend : Nat, last : Places,
         gone : SUBSET Gone, end_reported : BOOLEAN]

QueInner == [ring : [Places -> Entry \cup {NoEntry}], getix : Places, used : Nat,
             n_duplicates : Nat, draining : BOOLEAN, in_burst : BOOLEAN,
             subs : [Slots -> SubQ \cup {NoSub}], free : SUBSET Slots,
             quota : Nat, unreported_ends : Nat, taken : Nat]

ASSUME SizeAssumption ==
    /\ EVENT_ENTRIES \in Nat \ {0}
    /\ EVENTS_PER_QUE \in Nat /\ EVENTS_PER_QUE >= 2
    /\ IsFiniteSet(Slots) /\ Cardinality(Slots) = EVENTS_PER_QUE

ASSUME SentinelAssumption == NoEntry \notin Entry /\ NoSub \notin SubQ

(***************************************************************************)
(* The queue at creation.  The free slots are a set: which free slot the   *)
(* next monitor gets is the code's LIFO order, here any of them.           *)
(***************************************************************************)
NewQue ==
    [ring |-> [p \in Places |-> NoEntry], getix |-> 0, used |-> 0,
     n_duplicates |-> 0, draining |-> FALSE, in_burst |-> FALSE,
     subs |-> [s \in Slots |-> NoSub], free |-> Slots,
     quota |-> 0, unreported_ends |-> 0, taken |-> 0]

wrap(i) == IF i >= size THEN i - size ELSE i
ix(q, k) == wrap(q.getix + k)
ring_space(q) == size - q.used

\* How far place p is behind the oldest entry: the k of p = ix(q, k).
Age(q, p) == wrap(p + size - q.getix)

\* The slot id names still holds the subscription it was given to.
Live(q, id) == q.subs[id.slot] # NoSub /\ q.subs[id.slot].id = id
Attached(q) == {s \in Slots : q.subs[s] # NoSub}
reader_gone(sub) == "reader" \in sub.gone
producer_gone(sub) == "producer" \in sub.gone
Unreported(sub) == producer_gone(sub) /\ ~sub.end_reported

-----------------------------------------------------------------------------
(* Attach and detach.                                                      *)

CanAttach(q) == q.quota < size - EVENT_ENTRIES

\* try_attach, given CanAttach(q) and a free slot.
try_attach(q, gen, slot, kind) ==
    [q EXCEPT !.quota = @ + EVENT_ENTRIES,
              !.free = @ \ {slot},
              !.subs[slot] = [id |-> [gen |-> gen, slot |-> slot], kind |-> kind,
                              npend |-> 0, last |-> 0, gone |-> {},
                              end_reported |-> FALSE]]

\* Mutants of free_slot: the quota is not given back; an end is uncounted
\* whether or not it was owed.
free_slot_KeepsQuota(q, slot) ==
    [q EXCEPT !.unreported_ends = IF Unreported(q.subs[slot]) THEN @ - 1 ELSE @,
              !.subs[slot] = NoSub,
              !.free = @ \cup {slot}]
free_slot_UncountsEnd(q, slot) ==
    [q EXCEPT !.unreported_ends = @ - 1,
              !.subs[slot] = NoSub,
              !.free = @ \cup {slot},
              !.quota = @ - EVENT_ENTRIES]

free_slot(q, slot) ==
    [q EXCEPT !.unreported_ends = IF Unreported(q.subs[slot]) THEN @ - 1 ELSE @,
              !.subs[slot] = NoSub,
              !.free = @ \cup {slot},
              !.quota = @ - EVENT_ENTRIES]

\* close_producer of a live id: queued entries are still delivered.
close_producer(q, id) ==
    IF producer_gone(q.subs[id.slot]) THEN q
    ELSE [q EXCEPT !.subs[id.slot].gone = @ \cup {"producer"},
                   !.unreported_ends = @ + 1]

\* close_reader of a live id: a slot with entries is freed by the drain.
close_reader(q, id) ==
    LET q1 == [q EXCEPT !.subs[id.slot].gone = @ \cup {"reader"}]
    IN  IF q.subs[id.slot].npend = 0 THEN free_slot(q1, id.slot) ELSE q1

-----------------------------------------------------------------------------
(* Posting: append, or overwrite the monitor's newest entry.               *)

is_ref(log) == log.data = "Ref"

\* A by-reference monitor copies no scalar; a copy a filter made stays.
ForKind(log, kind) ==
    IF kind = "Ref" /\ log.data = "Val" THEN [log EXCEPT !.data = "Ref"] ELSE log

\* Mutant of PostOutcome: the replace threshold is not consulted.
PostOutcome_NoThreshold(q, flow_on, id, log) ==
    LET sub == q.subs[id.slot]
    IN  CASE ~Live(q, id) \/ sub.gone # {} -> "Closed"
          [] Live(q, id) /\ sub.gone = {} /\ sub.npend = 0 -> "Appended"
          [] OTHER ->
                IF is_ref(ForKind(log, sub.kind)) /\ is_ref(q.ring[sub.last].log)
                THEN "Collapsed"
                ELSE IF flow_on THEN "Replaced" ELSE "Appended"

PostOutcome(q, flow_on, id, log) ==
    LET sub == q.subs[id.slot]
    IN  CASE ~Live(q, id) \/ sub.gone # {} -> "Closed"
          [] Live(q, id) /\ sub.gone = {} /\ sub.npend = 0 -> "Appended"
          [] OTHER ->
                IF is_ref(ForKind(log, sub.kind)) /\ is_ref(q.ring[sub.last].log)
                THEN "Collapsed"
                ELSE IF flow_on \/ ring_space(q) <= replace_threshold
                     THEN "Replaced"
                     ELSE "Appended"

\* Place of a new entry and whether it is the ring's first (firstEventFlag).
TailPlace(q) == wrap(q.getix + q.used)
FirstEvent(q) == ring_space(q) = size

AppendEntry(q, id, log) ==
    [q EXCEPT !.ring[TailPlace(q)] = [id |-> id, log |-> ForKind(log, q.subs[id.slot].kind)],
              !.subs[id.slot] = [q.subs[id.slot] EXCEPT !.npend = @ + 1, !.last = TailPlace(q)],
              !.n_duplicates = IF q.subs[id.slot].npend > 0 THEN @ + 1 ELSE @,
              !.used = @ + 1,
              !.in_burst = @ \/ FirstEvent(q)]

\* Mutants of Replace: the older value survives; the older classes are lost.
Replace_KeepsValue(q, id, log) ==
    [q EXCEPT !.ring[q.subs[id.slot].last].log.mask = @ \cup log.mask]
Replace_DropsMask(q, id, log) ==
    [q EXCEPT !.ring[q.subs[id.slot].last].log = ForKind(log, q.subs[id.slot].kind)]

\* The masks are joined; the surviving value is the newer one.
Replace(q, id, log) ==
    [q EXCEPT !.ring[q.subs[id.slot].last].log =
        [ForKind(log, q.subs[id.slot].kind) EXCEPT !.mask = @ \cup
            q.ring[q.subs[id.slot].last].log.mask]]

Collapse(q, id, log) ==
    [q EXCEPT !.ring[q.subs[id.slot].last].log.mask = @ \cup log.mask]

post(q, flow_on, id, log) ==
    CASE PostOutcome(q, flow_on, id, log) = "Closed" -> q
      [] PostOutcome(q, flow_on, id, log) = "Collapsed" -> Collapse(q, id, log)
      [] PostOutcome(q, flow_on, id, log) = "Replaced" -> Replace(q, id, log)
      [] PostOutcome(q, flow_on, id, log) = "Appended" -> AppendEntry(q, id, log)

\* Mutant of Chains: a queue already on a burst's chain is chained again.
Chains_Again(q, flow_on, id, log) ==
    PostOutcome(q, flow_on, id, log) = "Appended" /\ FirstEvent(q)

\* This post owes the queue's consumer a wake that no other burst owes.
Chains(q, flow_on, id, log) ==
    /\ PostOutcome(q, flow_on, id, log) = "Appended"
    /\ FirstEvent(q)
    /\ ~q.in_burst

-----------------------------------------------------------------------------
(* Taking entries out.                                                     *)

\* Mutant of may_drain: two entries of two monitors open the EVENTS_OFF gate.
may_drain_AnyTwo(q, flow_on) == q.draining \/ ~flow_on \/ q.used > 1

may_drain(q, flow_on) == q.draining \/ ~flow_on \/ q.n_duplicates > 0

HeadEntry(q) == q.ring[q.getix]
HeadLive(q) == ~reader_gone(q.subs[HeadEntry(q).id.slot])

\* One entry of slot's monitor leaves the ring.
release(q, slot) ==
    LET npend == q.subs[slot].npend - 1
        q1 == [q EXCEPT !.subs[slot].npend = npend,
                        !.n_duplicates = IF npend > 0 THEN @ - 1 ELSE @]
    IN  IF npend = 0 /\ reader_gone(q.subs[slot]) THEN free_slot(q1, slot) ELSE q1

\* Retire the head entry, given q.used > 0, and empty its place.
advance(q) ==
    release([q EXCEPT !.ring[q.getix] = NoEntry,
                      !.getix = ix(q, 1),
                      !.used = @ - 1,
                      !.taken = @ + 1,
                      !.draining = q.used > 1], HeadEntry(q).id.slot)

\* Mutant of ToHead: the head and the entry change places instead of those
\* between moving down.
ToHead_Swaps(q, k) ==
    LET moved(sub) == sub # NoSub /\ sub.npend > 0 /\ sub.last = q.getix
    IN  [q EXCEPT
            !.ring = [q.ring EXCEPT ![q.getix] = q.ring[ix(q, k)], ![ix(q, k)] = q.ring[q.getix]],
            !.subs = [s \in Slots |-> IF moved(q.subs[s])
                                      THEN [q.subs[s] EXCEPT !.last = ix(q, k)]
                                      ELSE q.subs[s]]]

\* take_for's move of the entry k places back to the head, those ahead of it
\* one place down, and of the newest-entry marks that moved with them.
ToHead(q, k) ==
    LET from(p) == IF Age(q, p) = 0 THEN ix(q, k) ELSE ix(q, Age(q, p) - 1)
        moved(sub) == sub # NoSub /\ sub.npend > 0 /\ Age(q, sub.last) < k
    IN  [q EXCEPT
            !.ring = [p \in Places |-> IF Age(q, p) <= k THEN q.ring[from(p)] ELSE q.ring[p]],
            !.subs = [s \in Slots |-> IF moved(q.subs[s])
                                      THEN [q.subs[s] EXCEPT !.last = wrap(@ + 1)]
                                      ELSE q.subs[s]]]

\* Mutant of Ended: the end is reported with entries still queued.
Ended_Early(q) == {s \in Attached(q) : Unreported(q.subs[s])}

\* A monitor whose producer is gone and whose entries are all delivered.
Ended(q) == {s \in Attached(q) : Unreported(q.subs[s]) /\ q.subs[s].npend = 0}

take_ended(q, slot) ==
    [q EXCEPT !.subs[slot].end_reported = TRUE, !.unreported_ends = @ - 1]

-----------------------------------------------------------------------------
(* What the code's comments require of the queue.                          *)

Pending(q) == {s \in Attached(q) : q.subs[s].npend > 0}
Occupied(q) == {p \in Places : q.ring[p] # NoEntry}
EntriesOf(q, id) == {p \in Occupied(q) : q.ring[p].id = id}

\* The occupied places are the used ones from getix on, and every entry's
\* slot still holds the monitor it was posted to.
Contiguous(q) ==
    /\ \A p \in Places : q.ring[p] # NoEntry <=> Age(q, p) < q.used
    /\ \A p \in Occupied(q) : Live(q, q.ring[p].id)

\* npend counts a monitor's entries.
NpendCounts(q) ==
    \A s \in Attached(q) : q.subs[s].npend = Cardinality(EntriesOf(q, q.subs[s].id))

\* last is the place of the monitor's newest entry.
LastIsNewest(q) ==
    \A s \in Pending(q) :
        /\ q.subs[s].last \in EntriesOf(q, q.subs[s].id)
        /\ \A p \in EntriesOf(q, q.subs[s].id) : Age(q, p) <= Age(q, q.subs[s].last)

\* n_duplicates counts the entries beyond the first of each monitor.
DuplicatesCount(q) == q.n_duplicates + Cardinality(Pending(q)) = q.used

\* "Past the replace threshold each attached subscription can add at most one
\* more entry": the entries past the threshold are first entries.
Headroom(q) == q.used <= size - replace_threshold + Cardinality(Pending(q))

\* The ring keeps a free place, whatever is posted.
NeverFull(q) == q.used < size

\* The quota is what the attached slots reserve, and the rest are free.
QuotaCounts(q) ==
    /\ q.quota = EVENT_ENTRIES * Cardinality(Attached(q))
    /\ q.free = Slots \ Attached(q)
    /\ CanAttach(q) => q.free # {}

\* A slot holds the monitor whose handle names it, and one slot stays free.
SlotsNamed(q) ==
    /\ \A s \in Attached(q) : q.subs[s].id.slot = s
    /\ Cardinality(Attached(q)) < EVENTS_PER_QUE

\* A cancelled monitor keeps its slot only while it has entries.
CancelledHeld(q) == \A s \in Attached(q) : reader_gone(q.subs[s]) => q.subs[s].npend > 0

\* The ends still to report are counted, and are of producers gone.
EndsCounted(q) ==
    /\ q.unreported_ends = Cardinality({s \in Attached(q) : Unreported(q.subs[s])})
    /\ \A s \in Attached(q) : q.subs[s].end_reported => producer_gone(q.subs[s])

RingOK(q) ==
    /\ Contiguous(q) /\ NpendCounts(q) /\ LastIsNewest(q)
    /\ DuplicatesCount(q) /\ Headroom(q) /\ NeverFull(q)

SlotsOK(q) == QuotaCounts(q) /\ SlotsNamed(q) /\ CancelledHeld(q) /\ EndsCounted(q)
=============================================================================
