----------------------------- MODULE EvQueProofs -----------------------------
(***************************************************************************)
(* What the operations of one queue preserve, for every ring size and      *)
(* every number of slots: QueOK, the type of the queue with RingOK and     *)
(* SlotsOK.  One lemma per operation, cited by the proofs about the        *)
(* specifications that use the queue.                                      *)
(***************************************************************************)
EXTENDS EvQue, FiniteSetTheorems, TLAPS

QueOK(q) == q \in QueInner /\ RingOK(q) /\ SlotsOK(q)

-----------------------------------------------------------------------------
(* Arithmetic of the ring and of the quota.                                *)

\* Products by a natural keep order.
LEMMA MulMonotone ==
    ASSUME NEW a \in Nat, NEW b \in Nat, NEW c \in Nat, a <= b
    PROVE  c * a \in Nat /\ c * b \in Nat /\ c * a <= c * b
<1>1. PICK d \in Nat : b = a + d
    <2>1. b - a \in Nat /\ b = a + (b - a) OBVIOUS
    <2> QED BY <2>1
<1>2. c * b = c * a + c * d BY <1>1
<1>3. c * a \in Nat /\ c * d \in Nat OBVIOUS
<1> QED BY <1>2, <1>3

\* EvQue::new: the sizes of the ring, the threshold and the quota's cap.
LEMMA SizeFacts ==
    /\ size \in Nat /\ replace_threshold = EVENTS_PER_QUE
    /\ EVENTS_PER_QUE \in Nat /\ EVENTS_PER_QUE >= 2 /\ EVENTS_PER_QUE <= size
    /\ EVENT_ENTRIES \in Nat /\ EVENT_ENTRIES > 0
    /\ size - EVENT_ENTRIES = EVENT_ENTRIES * (EVENTS_PER_QUE - 1)
    /\ Places = 0 .. (size - 1)
<1>1. EVENT_ENTRIES \in Nat /\ EVENT_ENTRIES > 0 /\ EVENTS_PER_QUE \in Nat /\ EVENTS_PER_QUE >= 2
    BY SizeAssumption
<1>2. EVENTS_PER_QUE * 1 <= EVENTS_PER_QUE * EVENT_ENTRIES
    BY <1>1, MulMonotone
<1>3. size \in Nat /\ EVENTS_PER_QUE <= size
    BY <1>1, <1>2 DEF size
<1>4. size - EVENT_ENTRIES = EVENT_ENTRIES * (EVENTS_PER_QUE - 1)
    BY <1>1 DEF size
<1> QED BY <1>1, <1>3, <1>4 DEF replace_threshold, Places

\* The quota test admits exactly while fewer than EVENTS_PER_QUE - 1 slots are
\* taken.
LEMMA AdmitBound ==
    ASSUME NEW n \in Nat, EVENT_ENTRIES * n < size - EVENT_ENTRIES
    PROVE  n + 1 < EVENTS_PER_QUE
<1> SUFFICES ASSUME EVENTS_PER_QUE - 1 <= n PROVE FALSE
    BY SizeFacts
<1>1. EVENT_ENTRIES * (EVENTS_PER_QUE - 1) <= EVENT_ENTRIES * n
    BY SizeFacts, MulMonotone
<1> QED BY <1>1, SizeFacts

\* A place is an index below the ring's size.
LEMMA PlaceFacts ==
    /\ \A p : p \in Places <=> p \in Nat /\ p < size
    /\ size \in Nat /\ size > 1
BY SizeFacts

\* Ages on the ring whose oldest place is g.
LEMMA RingAges ==
    ASSUME NEW g \in Places, NEW p \in Places
    PROVE  /\ wrap(p + size - g) \in Places
           /\ wrap(p + size - g) = IF p >= g THEN p - g ELSE p + size - g
           /\ wrap(g + 1) \in Places
           /\ wrap(p + size - wrap(g + 1)) =
                    IF p = g THEN size - 1 ELSE wrap(p + size - g) - 1
<1> DEFINE h == wrap(g + 1)
<1>1. /\ g \in Nat /\ g < size /\ p \in Nat /\ p < size
      /\ size \in Nat /\ size > 1
    BY PlaceFacts
<1>2. h \in Nat /\ h < size /\ h = IF g + 1 = size THEN 0 ELSE g + 1
    BY <1>1 DEF wrap
<1>3. wrap(p + size - g) = IF p >= g THEN p - g ELSE p + size - g
    BY <1>1 DEF wrap
<1>4. wrap(p + size - h) = IF p >= h THEN p - h ELSE p + size - h
    BY <1>1, <1>2 DEF wrap
<1> HIDE DEF h
<1>5. wrap(p + size - h) = IF p = g THEN size - 1 ELSE wrap(p + size - g) - 1
    BY <1>1, <1>2, <1>3, <1>4
<1>6. wrap(p + size - g) \in Places /\ h \in Places
    BY <1>1, <1>2, <1>3, PlaceFacts
<1> QED BY <1>3, <1>5, <1>6 DEF h

\* A place's age is its distance from getix, wrapped.
LEMMA AgeFacts ==
    ASSUME NEW q \in QueInner, NEW p \in Places
    PROVE  /\ Age(q, p) \in Places
           /\ Age(q, p) = IF p >= q.getix THEN p - q.getix ELSE p + size - q.getix
<1>1. q.getix \in Places BY DEF QueInner
<1> QED BY <1>1, RingAges DEF Age

\* The head has age 0.
LEMMA HeadAge == ASSUME NEW q \in QueInner PROVE q.getix \in Places /\ Age(q, q.getix) = 0
<1>1. q.getix \in Places BY DEF QueInner
<1> QED BY <1>1, AgeFacts, PlaceFacts

\* Two places have different ages.
LEMMA AgeInjective ==
    ASSUME NEW q \in QueInner, NEW p \in Places, NEW r \in Places, Age(q, p) = Age(q, r)
    PROVE  p = r
<1>1. Age(q, p) = IF p >= q.getix THEN p - q.getix ELSE p + size - q.getix
    BY AgeFacts
<1>2. Age(q, r) = IF r >= q.getix THEN r - q.getix ELSE r + size - q.getix
    BY AgeFacts
<1>3. q.getix \in Nat /\ q.getix < size /\ p \in Nat /\ p < size /\ r \in Nat /\ r < size /\ size \in Nat
    BY HeadAge, PlaceFacts
<1>4. ASSUME NEW x \in Nat, NEW y \in Nat, NEW h \in Nat, x < size, y < size, h < size, size \in Nat,
             (IF x >= h THEN x - h ELSE x + size - h) = (IF y >= h THEN y - h ELSE y + size - h)
      PROVE  x = y
    BY <1>4
<1> QED BY <1>1, <1>2, <1>3, <1>4

\* post: the place after the last used one, while the ring is not full.
LEMMA TailFacts ==
    ASSUME NEW q \in QueInner, q.used < size
    PROVE  TailPlace(q) \in Places /\ Age(q, TailPlace(q)) = q.used
<1>1. q.getix \in Nat /\ q.getix < size /\ q.used \in Nat /\ size \in Nat
    BY HeadAge, PlaceFacts DEF QueInner
<1>2. /\ TailPlace(q) = IF q.getix + q.used >= size THEN q.getix + q.used - size
                                                   ELSE q.getix + q.used
      /\ TailPlace(q) \in Nat /\ TailPlace(q) < size
    BY <1>1 DEF TailPlace, wrap
<1> HIDE DEF TailPlace
<1>3. TailPlace(q) \in Places BY <1>2, PlaceFacts
<1>4. Age(q, TailPlace(q)) = IF TailPlace(q) >= q.getix THEN TailPlace(q) - q.getix
                                                       ELSE TailPlace(q) + size - q.getix
    BY <1>3, AgeFacts
<1> QED BY <1>1, <1>2, <1>3, <1>4

\* The ages of the others fall by one when the head leaves.
LEMMA AdvanceAge ==
    ASSUME NEW q \in QueInner, NEW r, r.getix = ix(q, 1), NEW p \in Places
    PROVE  /\ r.getix \in Places
           /\ Age(r, p) = IF p = q.getix THEN size - 1 ELSE Age(q, p) - 1
BY HeadAge, RingAges DEF Age, ix

-----------------------------------------------------------------------------
(* Finiteness and the counts of one queue.                                 *)

\* Sets of slots are finite.
LEMMA SlotSetsFinite ==
    ASSUME NEW S \in SUBSET Slots
    PROVE  /\ IsFiniteSet(S) /\ Cardinality(S) \in Nat /\ Cardinality(S) <= EVENTS_PER_QUE
           /\ Cardinality(S) = EVENTS_PER_QUE => S = Slots
BY SizeAssumption, FS_Subset, FS_CardinalityType

\* Sets of places are finite.
LEMMA PlaceSetsFinite ==
    ASSUME NEW S \in SUBSET Places
    PROVE  IsFiniteSet(S) /\ Cardinality(S) \in Nat
<1>1. IsFiniteSet(Places) BY SizeFacts, FS_Interval
<1> QED BY <1>1, FS_Subset, FS_CardinalityType

\* The sets a queue's counters count.
Unreports(q) == {s \in Attached(q) : Unreported(q.subs[s])}

\* The sets a queue counts are finite.
LEMMA SetFacts ==
    ASSUME NEW q \in QueInner
    PROVE  /\ IsFiniteSet(Attached(q)) /\ Cardinality(Attached(q)) \in Nat
           /\ IsFiniteSet(Pending(q)) /\ Cardinality(Pending(q)) \in Nat
           /\ Cardinality(Pending(q)) <= Cardinality(Attached(q))
           /\ IsFiniteSet(Unreports(q)) /\ Cardinality(Unreports(q)) \in Nat
           /\ \A id : IsFiniteSet(EntriesOf(q, id)) /\ Cardinality(EntriesOf(q, id)) \in Nat
<1>1. Attached(q) \subseteq Slots /\ Pending(q) \subseteq Attached(q) /\ Unreports(q) \subseteq Slots
    BY DEF Attached, Pending, Unreports
<1>2. IsFiniteSet(Attached(q)) /\ Cardinality(Attached(q)) \in Nat
    BY <1>1, SlotSetsFinite
<1>3. /\ IsFiniteSet(Pending(q)) /\ Cardinality(Pending(q)) \in Nat
      /\ Cardinality(Pending(q)) <= Cardinality(Attached(q))
    BY <1>1, <1>2, FS_Subset, FS_CardinalityType
<1>4. \A id : EntriesOf(q, id) \subseteq Places
    BY DEF EntriesOf, Occupied
<1> QED BY <1>1, <1>2, <1>3, <1>4, SlotSetsFinite, PlaceSetsFinite

\* NeverFull follows: the threshold leaves room for one entry per slot.
LEMMA HeadroomSuffices ==
    ASSUME NEW q \in QueInner, Headroom(q), SlotsNamed(q)
    PROVE  NeverFull(q)
<1>1. Cardinality(Pending(q)) < EVENTS_PER_QUE
    BY SetFacts, SizeFacts DEF SlotsNamed
<1> QED BY <1>1, SizeFacts, SetFacts DEF Headroom, NeverFull, QueInner

\* An attach the quota admits finds a free slot.
LEMMA FreeSlotLeft ==
    ASSUME NEW q \in QueInner, SlotsNamed(q), q.free = Slots \ Attached(q)
    PROVE  q.free # {}
<1>1. Attached(q) \subseteq Slots BY DEF Attached
<1>2. Attached(q) # Slots BY SizeAssumption, SizeFacts, SetFacts DEF SlotsNamed
<1> QED BY <1>1, <1>2

-----------------------------------------------------------------------------
(* Operations that leave the ring alone.                                   *)

SameRing(q, r) ==
    /\ r.ring = q.ring /\ r.getix = q.getix /\ r.used = q.used
    /\ r.n_duplicates = q.n_duplicates
    /\ \A s \in Slots : /\ r.subs[s] = NoSub <=> q.subs[s] = NoSub
                        /\ q.subs[s] # NoSub => /\ r.subs[s].id = q.subs[s].id
                                                /\ r.subs[s].npend = q.subs[s].npend
                                                /\ r.subs[s].last = q.subs[s].last

\* RingOK when neither the ring nor the monitors' counts of it move.
LEMMA SameRingOK ==
    ASSUME NEW q \in QueInner, NEW r \in QueInner, RingOK(q), SameRing(q, r)
    PROVE  RingOK(r) /\ Attached(r) = Attached(q) /\ Pending(r) = Pending(q)
<1>1. Attached(r) = Attached(q) /\ Pending(r) = Pending(q)
    BY DEF SameRing, Attached, Pending
<1>2. Occupied(r) = Occupied(q) /\ \A id : EntriesOf(r, id) = EntriesOf(q, id)
    BY DEF SameRing, Occupied, EntriesOf
<1>3. \A p : Age(r, p) = Age(q, p)
    BY DEF SameRing, Age
<1>4. \A id \in AttachId : Live(r, id) <=> Live(q, id)
    BY DEF SameRing, Live, AttachId
<1>5. \A p \in Occupied(q) : q.ring[p].id \in AttachId
    BY DEF Occupied, QueInner, Entry
<1>6. Contiguous(r)
    BY <1>2, <1>3, <1>4, <1>5 DEF RingOK, Contiguous, SameRing
<1>7. NpendCounts(r)
    BY <1>1, <1>2 DEF RingOK, NpendCounts, SameRing, Attached
<1>8. LastIsNewest(r)
    BY <1>1, <1>2, <1>3 DEF RingOK, LastIsNewest, SameRing, Attached, Pending
<1>9. DuplicatesCount(r) /\ Headroom(r) /\ NeverFull(r)
    BY <1>1 DEF RingOK, DuplicatesCount, Headroom, NeverFull, SameRing
<1> QED BY <1>1, <1>6, <1>7, <1>8, <1>9 DEF RingOK

\* EvQue::new makes a sound queue.
LEMMA NewQueOK == QueOK(NewQue)
<1> DEFINE q == NewQue
<1>1. 0 \in Places /\ size > 0 BY PlaceFacts
<1>2. q \in QueInner BY <1>1 DEF NewQue, QueInner
<1>3. Attached(q) = {} /\ Pending(q) = {} /\ Occupied(q) = {}
    BY DEF Attached, Pending, Occupied, NewQue
<1>4. Cardinality(Attached(q)) = 0 /\ Cardinality(Pending(q)) = 0
      /\ Cardinality({s \in Attached(q) : Unreported(q.subs[s])}) = 0
    BY <1>3, FS_EmptySet
<1>5. \A p \in Places : ~(Age(q, p) < 0)
    BY <1>2, AgeFacts, PlaceFacts
<1>6. Contiguous(q) /\ NpendCounts(q) /\ LastIsNewest(q)
    BY <1>3, <1>5 DEF Contiguous, NpendCounts, LastIsNewest, Occupied, NewQue
<1>7. /\ q.used = 0 /\ q.n_duplicates = 0 /\ q.quota = 0 /\ q.unreported_ends = 0
      /\ q.free = Slots
    BY DEF NewQue
<1> HIDE DEF q
<1>8. DuplicatesCount(q) /\ Headroom(q) /\ NeverFull(q)
    BY <1>1, <1>4, <1>7, SizeFacts DEF DuplicatesCount, Headroom, NeverFull
<1>9. SlotsNamed(q) /\ q.free = Slots \ Attached(q)
    BY <1>3, <1>4, <1>7, SizeFacts DEF SlotsNamed
<1>10. QuotaCounts(q)
    BY <1>2, <1>4, <1>7, <1>9, FreeSlotLeft, SizeFacts DEF QuotaCounts
<1>11. CancelledHeld(q) /\ EndsCounted(q)
    BY <1>3, <1>4, <1>7 DEF CancelledHeld, EndsCounted
<1> QED BY <1>2, <1>6, <1>8, <1>9, <1>10, <1>11 DEF QueOK, RingOK, SlotsOK, q

\* Chaining a queue on a burst, or unchaining it.
LEMMA InBurstOK ==
    ASSUME NEW q, QueOK(q), NEW b \in BOOLEAN
    PROVE  QueOK([q EXCEPT !.in_burst = b])
<1> DEFINE r == [q EXCEPT !.in_burst = b]
<1>1. q \in QueInner /\ r \in QueInner BY DEF QueOK, QueInner
<1>2. /\ SameRing(q, r) /\ r.subs = q.subs /\ r.quota = q.quota /\ r.free = q.free
      /\ r.unreported_ends = q.unreported_ends
    BY <1>1 DEF SameRing, QueInner
<1>3. RingOK(r) /\ Attached(r) = Attached(q) BY <1>1, <1>2, SameRingOK DEF QueOK
<1>4. SlotsOK(r)
    BY <1>2, <1>3 DEF QueOK, SlotsOK, QuotaCounts, SlotsNamed, CancelledHeld, EndsCounted, CanAttach
<1> QED BY <1>1, <1>3, <1>4 DEF QueOK

\* SlotsOK when only the ends' accounting moves.
LEMMA SameSlotsOK ==
    ASSUME NEW q \in QueInner, NEW r \in QueInner, SlotsOK(q), SameRing(q, r),
           r.quota = q.quota, r.free = q.free, Attached(r) = Attached(q),
           \A s \in Attached(q) : reader_gone(r.subs[s]) => reader_gone(q.subs[s]),
           EndsCounted(r)
    PROVE  SlotsOK(r)
<1>1. QuotaCounts(r) BY DEF SlotsOK, QuotaCounts, CanAttach
<1>2. SlotsNamed(r) BY DEF SlotsOK, SlotsNamed, SameRing, Attached
<1>3. CancelledHeld(r) BY DEF SlotsOK, CancelledHeld, SameRing, Attached
<1> QED BY <1>1, <1>2, <1>3 DEF SlotsOK

\* close_producer of a live handle, the first time or again.
LEMMA CloseProducerOK ==
    ASSUME NEW q, QueOK(q), NEW id \in AttachId, Live(q, id)
    PROVE  QueOK(close_producer(q, id))
<1> DEFINE s0 == id.slot
           r == [q EXCEPT !.subs[s0].gone = @ \cup {"producer"}, !.unreported_ends = @ + 1]
<1>1. CASE producer_gone(q.subs[s0])
    BY <1>1 DEF close_producer
<1>2. CASE ~producer_gone(q.subs[s0])
  <2>1. q \in QueInner /\ s0 \in Slots /\ q.subs[s0] # NoSub /\ q.subs[s0] \in SubQ /\ s0 \in Attached(q)
      BY DEF QueOK, QueInner, AttachId, Live, Attached
  <2> DEFINE sub == [q.subs[s0] EXCEPT !.gone = @ \cup {"producer"}]
             subs == [q.subs EXCEPT ![s0] = sub]
  <2>2. sub \in SubQ
      BY <2>1 DEF SubQ, Gone
  <2>a. r = [q EXCEPT !.subs = subs, !.unreported_ends = @ + 1]
      BY <2>1 DEF QueInner
  <2>b. /\ sub.id = q.subs[s0].id /\ sub.npend = q.subs[s0].npend /\ sub.last = q.subs[s0].last
        /\ sub.gone = q.subs[s0].gone \cup {"producer"}
        /\ sub.end_reported = q.subs[s0].end_reported
      BY <2>1 DEF SubQ
  <2> HIDE DEF sub
  <2>c. subs \in [Slots -> SubQ \cup {NoSub}] /\ subs[s0] = sub /\ sub # NoSub
        /\ \A s \in Slots : s # s0 => subs[s] = q.subs[s]
      BY <2>1, <2>2, SentinelAssumption DEF QueInner
  <2> HIDE DEF subs, r
  <2>3. /\ r \in QueInner
        /\ r.unreported_ends = q.unreported_ends + 1 /\ r.quota = q.quota /\ r.free = q.free
        /\ r.subs = subs
        /\ r.ring = q.ring /\ r.getix = q.getix /\ r.used = q.used
        /\ r.n_duplicates = q.n_duplicates
    <3>1. q.unreported_ends + 1 \in Nat BY <2>1 DEF QueInner
    <3>2. r \in QueInner BY <2>1, <2>a, <2>c, <3>1 DEF QueInner
    <3> QED BY <2>1, <2>a, <3>2 DEF QueInner
  <2>4. SameRing(q, r)
      BY <2>1, <2>3, <2>b, <2>c DEF SameRing
  <2>5. RingOK(r) /\ Attached(r) = Attached(q)
      BY <2>1, <2>3, <2>4, SameRingOK DEF QueOK
  <2>6. /\ r.subs[s0].gone = q.subs[s0].gone \cup {"producer"}
        /\ r.subs[s0].end_reported = q.subs[s0].end_reported
        /\ \A s \in Slots : s # s0 => r.subs[s] = q.subs[s]
      BY <2>3, <2>b, <2>c
  <2>7. Unreports(r) = Unreports(q) \cup {s0} /\ s0 \notin Unreports(q)
    <3>1. ~q.subs[s0].end_reported
        BY <1>2, <2>1 DEF QueOK, SlotsOK, EndsCounted
    <3>2. Unreported(r.subs[s0]) /\ ~Unreported(q.subs[s0])
        BY <1>2, <2>6, <3>1 DEF Unreported, producer_gone
    <3> QED BY <2>1, <2>5, <2>6, <3>2 DEF Unreports, Attached
  <2>8. Cardinality(Unreports(r)) = Cardinality(Unreports(q)) + 1
      BY <2>1, <2>7, SetFacts, FS_AddElement
  <2>9. EndsCounted(r)
    <3>1. r.unreported_ends = Cardinality(Unreports(r))
        BY <2>3, <2>8 DEF QueOK, SlotsOK, EndsCounted, Unreports
    <3>2. \A s \in Attached(r) : r.subs[s].end_reported => producer_gone(r.subs[s])
        BY <2>5, <2>6 DEF QueOK, SlotsOK, EndsCounted, producer_gone, Attached
    <3> QED BY <3>1, <3>2 DEF EndsCounted, Unreports
  <2>10. \A s \in Attached(q) : reader_gone(r.subs[s]) => reader_gone(q.subs[s])
    <3>1. reader_gone(r.subs[s0]) => reader_gone(q.subs[s0])
        BY <2>6 DEF reader_gone
    <3> QED BY <2>6, <3>1 DEF Attached
  <2>11. SlotsOK(r)
      BY <2>1, <2>3, <2>4, <2>5, <2>9, <2>10, SameSlotsOK DEF QueOK
  <2> QED BY <1>2, <2>3, <2>5, <2>11 DEF QueOK, close_producer, r
<1> QED BY <1>1, <1>2

\* take_ended of one of the monitors it may report.
LEMMA TakeEndedOK ==
    ASSUME NEW q, QueOK(q), NEW s0 \in Ended(q)
    PROVE  QueOK(take_ended(q, s0))
<1> DEFINE r == take_ended(q, s0)
<1>1. /\ q \in QueInner /\ s0 \in Slots /\ q.subs[s0] # NoSub /\ q.subs[s0] \in SubQ
      /\ s0 \in Attached(q) /\ Unreported(q.subs[s0])
    BY DEF QueOK, QueInner, Ended, Attached
<1>2. s0 \in Unreports(q) BY <1>1 DEF Unreports
<1>3. q.unreported_ends = Cardinality(Unreports(q)) /\ Cardinality(Unreports(q)) > 0
  <2>1. q.unreported_ends = Cardinality(Unreports(q))
      BY DEF QueOK, SlotsOK, EndsCounted, Unreports
  <2>2. Cardinality(Unreports(q)) \in Nat /\ Cardinality(Unreports(q)) # 0
      BY <1>1, <1>2, SetFacts, FS_EmptySet
  <2> QED BY <2>1, <2>2
<1>4. r \in QueInner
  <2>1. q.unreported_ends - 1 \in Nat
      BY <1>1, <1>3 DEF QueInner
  <2> QED BY <1>1, <2>1 DEF take_ended, QueInner, SubQ
<1>5. /\ r.unreported_ends = q.unreported_ends - 1 /\ r.quota = q.quota /\ r.free = q.free
      /\ \A s \in Slots : s # s0 => r.subs[s] = q.subs[s]
      /\ r.subs[s0] = [q.subs[s0] EXCEPT !.end_reported = TRUE]
      /\ r.subs[s0] # NoSub
    BY <1>1, <1>4, SentinelAssumption DEF take_ended, QueInner, SubQ
<1>6. SameRing(q, r)
    BY <1>1, <1>5 DEF SameRing, QueInner, SubQ, take_ended
<1>7. RingOK(r) /\ Attached(r) = Attached(q)
    BY <1>1, <1>4, <1>6, SameRingOK DEF QueOK
<1>8. r.subs[s0].gone = q.subs[s0].gone /\ r.subs[s0].end_reported
    BY <1>1, <1>5 DEF SubQ
<1> HIDE DEF r
<1>9. Unreports(r) = Unreports(q) \ {s0}
    BY <1>1, <1>5, <1>7, <1>8 DEF Unreports, Unreported, Attached
<1>10. Cardinality(Unreports(r)) = Cardinality(Unreports(q)) - 1
    BY <1>1, <1>2, <1>9, SetFacts, FS_RemoveElement
<1>11. EndsCounted(r)
  <2>1. r.unreported_ends = Cardinality(Unreports(r))
      BY <1>3, <1>5, <1>10
  <2>2. \A s \in Attached(r) : r.subs[s].end_reported => producer_gone(r.subs[s])
      BY <1>1, <1>5, <1>7, <1>8 DEF QueOK, SlotsOK, EndsCounted, producer_gone, Attached, Unreported
  <2> QED BY <2>1, <2>2 DEF EndsCounted, Unreports
<1>12. \A s \in Attached(q) : reader_gone(r.subs[s]) => reader_gone(q.subs[s])
    BY <1>5, <1>8 DEF reader_gone, Attached
<1>13. SlotsOK(r)
    BY <1>1, <1>4, <1>5, <1>6, <1>7, <1>11, <1>12, SameSlotsOK DEF QueOK
<1> QED BY <1>4, <1>7, <1>13 DEF QueOK, r

-----------------------------------------------------------------------------
(* Slots taken and given back.                                             *)

\* A slot without entries is given back; the others satisfy the invariant.
LEMMA FreeSlotOK ==
    ASSUME NEW q \in QueInner, RingOK(q), QuotaCounts(q), SlotsNamed(q), EndsCounted(q),
           NEW s0 \in Attached(q), q.subs[s0].npend = 0,
           \A s \in Attached(q) \ {s0} : reader_gone(q.subs[s]) => q.subs[s].npend > 0
    PROVE  QueOK(free_slot(q, s0))
<1> DEFINE r == free_slot(q, s0)
           subs == [q.subs EXCEPT ![s0] = NoSub]
           ends == IF Unreported(q.subs[s0]) THEN q.unreported_ends - 1 ELSE q.unreported_ends
           A == Attached(q)
<1>1. s0 \in Slots /\ q.subs[s0] # NoSub /\ q.subs[s0] \in SubQ
    BY DEF Attached, QueInner
<1>2. r = [q EXCEPT !.unreported_ends = ends, !.subs = subs, !.free = @ \cup {s0},
                    !.quota = @ - EVENT_ENTRIES]
    BY DEF free_slot
<1>3. subs \in [Slots -> SubQ \cup {NoSub}] /\ subs[s0] = NoSub
      /\ \A s \in Slots : s # s0 => subs[s] = q.subs[s]
    BY <1>1 DEF QueInner
<1>4. Cardinality(A) \in Nat /\ Cardinality(A \ {s0}) = Cardinality(A) - 1
      /\ Cardinality(A \ {s0}) \in Nat
    BY SetFacts, FS_RemoveElement, FS_CardinalityType
<1>5. /\ q.quota - EVENT_ENTRIES = EVENT_ENTRIES * Cardinality(A \ {s0})
      /\ q.quota - EVENT_ENTRIES \in Nat
  <2>1. q.quota = EVENT_ENTRIES * Cardinality(A) BY DEF QuotaCounts
  <2>2. EVENT_ENTRIES * Cardinality(A) = EVENT_ENTRIES * (Cardinality(A \ {s0}) + 1)
      BY <1>4, SizeFacts
  <2>3. EVENT_ENTRIES * (Cardinality(A \ {s0}) + 1) = EVENT_ENTRIES * Cardinality(A \ {s0}) + EVENT_ENTRIES
      BY <1>4, SizeFacts
  <2>4. EVENT_ENTRIES * Cardinality(A \ {s0}) \in Nat BY <1>4, SizeFacts
  <2> QED BY <2>1, <2>2, <2>3, <2>4, SizeFacts
<1>6. /\ Cardinality(Unreports(q) \ {s0}) = ends /\ ends \in Nat
  <2>1. q.unreported_ends = Cardinality(Unreports(q)) BY DEF EndsCounted, Unreports
  <2>2. s0 \in Unreports(q) <=> Unreported(q.subs[s0]) BY DEF Unreports
  <2>3. /\ Cardinality(Unreports(q) \ {s0}) = IF s0 \in Unreports(q) THEN Cardinality(Unreports(q)) - 1
                                                                    ELSE Cardinality(Unreports(q))
        /\ IsFiniteSet(Unreports(q) \ {s0})
      BY SetFacts, FS_RemoveElement
  <2>4. Cardinality(Unreports(q) \ {s0}) \in Nat BY <2>3, FS_CardinalityType
  <2> QED BY <2>1, <2>2, <2>3, <2>4
<1> HIDE DEF subs, ends, r
<1>7. /\ r \in QueInner /\ r.subs = subs /\ r.free = q.free \cup {s0}
      /\ r.quota = q.quota - EVENT_ENTRIES /\ r.unreported_ends = ends
      /\ r.ring = q.ring /\ r.getix = q.getix /\ r.used = q.used
      /\ r.n_duplicates = q.n_duplicates
  <2>1. q.free \cup {s0} \in SUBSET Slots BY <1>1 DEF QueInner
  <2>2. r \in QueInner BY <1>2, <1>3, <1>5, <1>6, <2>1 DEF QueInner
  <2> QED BY <1>2, <2>2 DEF QueInner
<1>8. Attached(r) = A \ {s0}
    BY <1>1, <1>3, <1>7 DEF Attached
<1>9. Pending(r) = Pending(q)
    BY <1>3, <1>7, <1>8 DEF Pending, Attached
<1>10. Occupied(r) = Occupied(q) /\ (\A id : EntriesOf(r, id) = EntriesOf(q, id))
       /\ \A p : Age(r, p) = Age(q, p)
    BY <1>7 DEF Occupied, EntriesOf, Age
<1>11. \A p \in Occupied(q) : q.ring[p].id \in AttachId /\ q.ring[p].id.slot # s0
  <2>1. EntriesOf(q, q.subs[s0].id) = {}
      BY SetFacts, FS_EmptySet DEF RingOK, NpendCounts
  <2>2. TAKE p \in Occupied(q)
  <2>3. q.ring[p].id \in AttachId BY DEF Occupied, QueInner, Entry
  <2>4. Live(q, q.ring[p].id) BY DEF RingOK, Contiguous
  <2>5. q.ring[p].id.slot = s0 => p \in EntriesOf(q, q.subs[s0].id)
      BY <2>4 DEF Live, EntriesOf
  <2> QED BY <2>1, <2>3, <2>5
<1>12. Contiguous(r)
  <2>1. \A p \in Occupied(r) : Live(r, r.ring[p].id)
      BY <1>3, <1>7, <1>10, <1>11 DEF RingOK, Contiguous, Live, AttachId
  <2> QED BY <1>7, <1>10, <2>1 DEF RingOK, Contiguous
<1>13. NpendCounts(r)
    BY <1>3, <1>7, <1>8, <1>10 DEF RingOK, NpendCounts, Attached
<1>14. LastIsNewest(r)
    BY <1>3, <1>7, <1>8, <1>9, <1>10 DEF RingOK, LastIsNewest, Pending, Attached
<1>15. DuplicatesCount(r) /\ Headroom(r) /\ NeverFull(r)
    BY <1>7, <1>9 DEF RingOK, DuplicatesCount, Headroom, NeverFull
<1>16. SlotsNamed(r)
  <2>1. \A s \in Attached(r) : r.subs[s].id.slot = s
      BY <1>3, <1>7, <1>8 DEF SlotsNamed, Attached
  <2>2. Cardinality(Attached(q)) < EVENTS_PER_QUE BY DEF SlotsNamed
  <2>3. Cardinality(Attached(r)) < EVENTS_PER_QUE
      BY <1>4, <1>8, <2>2, SizeFacts
  <2> QED BY <2>1, <2>3 DEF SlotsNamed
<1>17. QuotaCounts(r)
  <2>1. r.free = Slots \ Attached(r) BY <1>1, <1>7, <1>8 DEF QuotaCounts
  <2> QED BY <1>5, <1>7, <1>8, <1>16, <2>1, FreeSlotLeft DEF QuotaCounts
<1>18. CancelledHeld(r)
    BY <1>3, <1>7, <1>8 DEF CancelledHeld, Attached
<1>19. EndsCounted(r)
  <2>1. Unreports(r) = Unreports(q) \ {s0}
      BY <1>3, <1>7, <1>8 DEF Unreports, Attached
  <2>2. \A s \in Attached(r) : r.subs[s].end_reported => producer_gone(r.subs[s])
      BY <1>3, <1>7, <1>8 DEF EndsCounted, Attached
  <2> QED BY <1>6, <1>7, <2>1, <2>2 DEF EndsCounted, Unreports
<1> QED BY <1>7, <1>12, <1>13, <1>14, <1>15, <1>16, <1>17, <1>18, <1>19
        DEF QueOK, RingOK, SlotsOK, r

\* A cancelled monitor gives its slot back at once when nothing is queued, and
\* keeps it for the drain otherwise.
LEMMA CloseReaderOK ==
    ASSUME NEW q, QueOK(q), NEW id \in AttachId, Live(q, id)
    PROVE  QueOK(close_reader(q, id))
<1> DEFINE s0 == id.slot
           sub == [q.subs[s0] EXCEPT !.gone = @ \cup {"reader"}]
           subs == [q.subs EXCEPT ![s0] = sub]
           r == [q EXCEPT !.subs[s0].gone = @ \cup {"reader"}]
<1>1. q \in QueInner /\ s0 \in Slots /\ q.subs[s0] # NoSub /\ q.subs[s0] \in SubQ /\ s0 \in Attached(q)
    BY DEF QueOK, QueInner, AttachId, Live, Attached
<1>2. /\ sub \in SubQ /\ sub.id = q.subs[s0].id /\ sub.npend = q.subs[s0].npend
      /\ sub.last = q.subs[s0].last /\ sub.gone = q.subs[s0].gone \cup {"reader"}
      /\ sub.end_reported = q.subs[s0].end_reported
    BY <1>1 DEF SubQ, Gone
<1>3. r = [q EXCEPT !.subs = subs]
    BY <1>1 DEF QueInner
<1>4. close_reader(q, id) = IF q.subs[s0].npend = 0 THEN free_slot(r, s0) ELSE r
    BY DEF close_reader
<1> HIDE DEF sub
<1>5. subs \in [Slots -> SubQ \cup {NoSub}] /\ subs[s0] = sub /\ sub # NoSub
      /\ \A s \in Slots : s # s0 => subs[s] = q.subs[s]
    BY <1>1, <1>2, SentinelAssumption DEF QueInner
<1> HIDE DEF subs, r
<1>6. /\ r \in QueInner /\ r.subs = subs /\ r.quota = q.quota /\ r.free = q.free
      /\ r.unreported_ends = q.unreported_ends
      /\ r.ring = q.ring /\ r.getix = q.getix /\ r.used = q.used
      /\ r.n_duplicates = q.n_duplicates
  <2>1. r \in QueInner BY <1>1, <1>3, <1>5 DEF QueInner
  <2> QED BY <1>1, <1>3, <2>1 DEF QueInner
<1>7. SameRing(q, r) BY <1>1, <1>2, <1>5, <1>6 DEF SameRing
<1>8. RingOK(r) /\ Attached(r) = Attached(q)
    BY <1>1, <1>6, <1>7, SameRingOK DEF QueOK
<1>9. SlotsNamed(r) /\ QuotaCounts(r)
  <2>1. SlotsNamed(r) BY <1>7, <1>8 DEF QueOK, SlotsOK, SlotsNamed, SameRing, Attached
  <2>2. QuotaCounts(r) BY <1>6, <1>8 DEF QueOK, SlotsOK, QuotaCounts, CanAttach
  <2> QED BY <2>1, <2>2
<1>10. \A s \in Attached(q) : /\ producer_gone(r.subs[s]) <=> producer_gone(q.subs[s])
                             /\ r.subs[s].end_reported = q.subs[s].end_reported
                             /\ r.subs[s].npend = q.subs[s].npend
  <2>1. producer_gone(sub) <=> producer_gone(q.subs[s0]) BY <1>2 DEF producer_gone
  <2> QED BY <1>1, <1>2, <1>5, <1>6, <2>1 DEF Attached
<1>11. EndsCounted(r)
  <2>1. Unreports(r) = Unreports(q) BY <1>8, <1>10 DEF Unreports, Unreported
  <2> QED BY <1>6, <1>8, <1>10, <2>1 DEF QueOK, SlotsOK, EndsCounted, Unreports
<1>12. \A s \in Attached(r) \ {s0} : reader_gone(r.subs[s]) => r.subs[s].npend > 0
    BY <1>5, <1>6, <1>8 DEF QueOK, SlotsOK, CancelledHeld, Attached
<1>13. CASE q.subs[s0].npend = 0
  <2>1. r.subs[s0].npend = 0 BY <1>2, <1>5, <1>6, <1>13
  <2>2. s0 \in Attached(r) BY <1>1, <1>8
  <2>3. QueOK(free_slot(r, s0))
      BY <1>6, <1>8, <1>9, <1>11, <1>12, <2>1, <2>2, FreeSlotOK
  <2> QED BY <1>4, <1>13, <2>3
<1>14. CASE q.subs[s0].npend # 0
  <2>1. r.subs[s0].npend \in Nat /\ r.subs[s0].npend > 0
      BY <1>1, <1>2, <1>5, <1>6, <1>14 DEF SubQ
  <2>2. CancelledHeld(r) BY <1>8, <1>12, <2>1 DEF CancelledHeld
  <2>3. QueOK(r) BY <1>6, <1>8, <1>9, <1>11, <2>2 DEF QueOK, SlotsOK
  <2> QED BY <1>4, <1>14, <2>3
<1> QED BY <1>13, <1>14

\* An admitted monitor gets a slot of its own, and none is ever short of one.
LEMMA AttachOK ==
    ASSUME NEW q, QueOK(q), NEW gen \in Nat, NEW s0 \in q.free, NEW kind \in LogKind,
           CanAttach(q)
    PROVE  QueOK(try_attach(q, gen, s0, kind))
<1> DEFINE sub == [id |-> [gen |-> gen, slot |-> s0], kind |-> kind, npend |-> 0,
                   last |-> 0, gone |-> {}, end_reported |-> FALSE]
           subs == [q.subs EXCEPT ![s0] = sub]
           r == try_attach(q, gen, s0, kind)
           A == Attached(q)
<1>1. q \in QueInner /\ s0 \in Slots /\ s0 \notin A /\ q.subs[s0] = NoSub
    BY DEF QueOK, SlotsOK, QuotaCounts, Attached
<1>2. r = [q EXCEPT !.quota = @ + EVENT_ENTRIES, !.free = @ \ {s0}, !.subs = subs]
    BY DEF try_attach
<1>3. sub \in SubQ
  <2>1. 0 \in Places BY PlaceFacts
  <2> QED BY <1>1, <2>1 DEF SubQ, AttachId
<1>4. /\ sub.id = [gen |-> gen, slot |-> s0] /\ sub.npend = 0 /\ sub.gone = {}
      /\ ~sub.end_reported /\ sub.id.slot = s0 /\ sub.id.gen = gen
    OBVIOUS
<1> HIDE DEF sub
<1>5. subs \in [Slots -> SubQ \cup {NoSub}] /\ subs[s0] = sub /\ sub # NoSub
      /\ \A s \in Slots : s # s0 => subs[s] = q.subs[s]
    BY <1>1, <1>3, SentinelAssumption DEF QueInner
<1> HIDE DEF subs, r
<1>6. /\ r \in QueInner /\ r.subs = subs /\ r.free = q.free \ {s0}
      /\ r.quota = q.quota + EVENT_ENTRIES /\ r.unreported_ends = q.unreported_ends
      /\ r.ring = q.ring /\ r.getix = q.getix /\ r.used = q.used
      /\ r.n_duplicates = q.n_duplicates
  <2>1. q.quota + EVENT_ENTRIES \in Nat BY <1>1, SizeFacts DEF QueInner
  <2>2. r \in QueInner BY <1>1, <1>2, <1>5, <2>1 DEF QueInner
  <2> QED BY <1>1, <1>2, <2>2 DEF QueInner
<1>7. Attached(r) = A \cup {s0} BY <1>1, <1>5, <1>6 DEF Attached
<1>8. Pending(r) = Pending(q) BY <1>1, <1>4, <1>5, <1>6, <1>7 DEF Pending, Attached
<1>9. Occupied(r) = Occupied(q) /\ (\A id : EntriesOf(r, id) = EntriesOf(q, id))
      /\ \A p : Age(r, p) = Age(q, p)
    BY <1>6 DEF Occupied, EntriesOf, Age
<1>10. \A p \in Occupied(q) : /\ q.ring[p].id \in AttachId /\ q.ring[p].id.slot # s0
                              /\ q.ring[p].id # sub.id
  <2>1. TAKE p \in Occupied(q)
  <2>2. q.ring[p].id \in AttachId BY <1>1 DEF Occupied, QueInner, Entry
  <2>3. Live(q, q.ring[p].id) BY DEF QueOK, RingOK, Contiguous
  <2> QED BY <1>1, <1>4, <2>2, <2>3 DEF Live
<1>11. Contiguous(r)
  <2>1. \A p \in Occupied(r) : Live(r, r.ring[p].id)
      BY <1>5, <1>6, <1>9, <1>10 DEF QueOK, RingOK, Contiguous, Live, AttachId
  <2> QED BY <1>6, <1>9, <2>1 DEF QueOK, RingOK, Contiguous
<1>12. NpendCounts(r)
  <2>1. EntriesOf(r, sub.id) = {} BY <1>9, <1>10 DEF EntriesOf
  <2>2. r.subs[s0].npend = Cardinality(EntriesOf(r, r.subs[s0].id))
      BY <1>4, <1>5, <1>6, <2>1, FS_EmptySet
  <2>3. \A s \in A : r.subs[s].npend = Cardinality(EntriesOf(r, r.subs[s].id))
      BY <1>1, <1>5, <1>6, <1>9 DEF QueOK, RingOK, NpendCounts, Attached
  <2> QED BY <1>7, <2>2, <2>3 DEF NpendCounts
<1>13. LastIsNewest(r)
    BY <1>1, <1>5, <1>6, <1>8, <1>9 DEF QueOK, RingOK, LastIsNewest, Pending, Attached
<1>14. DuplicatesCount(r) /\ Headroom(r) /\ NeverFull(r)
    BY <1>6, <1>8 DEF QueOK, RingOK, DuplicatesCount, Headroom, NeverFull
<1>15. Cardinality(A) \in Nat /\ Cardinality(A \cup {s0}) = Cardinality(A) + 1
    BY <1>1, SetFacts, FS_AddElement
<1>16. q.quota = EVENT_ENTRIES * Cardinality(A)
    BY DEF QueOK, SlotsOK, QuotaCounts
<1>17. SlotsNamed(r)
  <2>1. \A s \in Attached(r) : r.subs[s].id.slot = s
      BY <1>1, <1>4, <1>5, <1>6, <1>7 DEF QueOK, SlotsOK, SlotsNamed, Attached
  <2>2. Cardinality(A) + 1 < EVENTS_PER_QUE
      BY <1>15, <1>16, AdmitBound DEF CanAttach
  <2> QED BY <1>7, <1>15, <2>1, <2>2 DEF SlotsNamed
<1>18. QuotaCounts(r)
  <2>1. r.free = Slots \ Attached(r)
      BY <1>6, <1>7 DEF QueOK, SlotsOK, QuotaCounts
  <2>2. EVENT_ENTRIES * (Cardinality(A) + 1) = EVENT_ENTRIES * Cardinality(A) + EVENT_ENTRIES
      BY <1>15, SizeFacts
  <2>3. r.quota = EVENT_ENTRIES * Cardinality(Attached(r))
      BY <1>6, <1>7, <1>15, <1>16, <2>2
  <2> QED BY <1>6, <1>17, <2>1, <2>3, FreeSlotLeft DEF QuotaCounts
<1>19. CancelledHeld(r)
  <2>1. ~reader_gone(r.subs[s0]) BY <1>4, <1>5, <1>6 DEF reader_gone
  <2> QED BY <1>1, <1>5, <1>6, <1>7, <2>1 DEF QueOK, SlotsOK, CancelledHeld, Attached
<1>20. EndsCounted(r)
  <2>1. ~producer_gone(r.subs[s0]) /\ ~r.subs[s0].end_reported
      BY <1>4, <1>5, <1>6 DEF producer_gone
  <2>2. Unreports(r) = Unreports(q)
      BY <1>1, <1>5, <1>6, <1>7, <2>1 DEF Unreports, Unreported, Attached
  <2>3. \A s \in Attached(r) : r.subs[s].end_reported => producer_gone(r.subs[s])
      BY <1>1, <1>5, <1>6, <1>7, <2>1 DEF QueOK, SlotsOK, EndsCounted, Attached
  <2> QED BY <1>6, <2>2, <2>3 DEF QueOK, SlotsOK, EndsCounted, Unreports
<1> QED BY <1>6, <1>11, <1>12, <1>13, <1>14, <1>17, <1>18, <1>19, <1>20
        DEF QueOK, RingOK, SlotsOK, r

-----------------------------------------------------------------------------
(* Posts.                                                                  *)

\* A post that rewrites the log of one place.
LEMMA RelogOK ==
    ASSUME NEW q, QueOK(q), NEW p0 \in Occupied(q), NEW log \in PostLog
    PROVE  QueOK([q EXCEPT !.ring[p0].log = log])
<1> DEFINE e == [q.ring[p0] EXCEPT !.log = log]
           ring == [q.ring EXCEPT ![p0] = e]
           r == [q EXCEPT !.ring[p0].log = log]
<1>1. q \in QueInner /\ p0 \in Places /\ q.ring[p0] \in Entry
    BY DEF QueOK, Occupied, QueInner
<1>2. e \in Entry /\ e.id = q.ring[p0].id
    BY <1>1 DEF Entry
<1>3. r = [q EXCEPT !.ring = ring] BY <1>1 DEF QueInner
<1> HIDE DEF e
<1>4. ring \in [Places -> Entry \cup {NoEntry}] /\ ring[p0] = e /\ e # NoEntry
      /\ \A p \in Places : p # p0 => ring[p] = q.ring[p]
    BY <1>1, <1>2, SentinelAssumption DEF QueInner
<1> HIDE DEF ring, r
<1>5. /\ r \in QueInner /\ r.ring = ring /\ r.getix = q.getix /\ r.used = q.used
      /\ r.n_duplicates = q.n_duplicates /\ r.subs = q.subs /\ r.free = q.free
      /\ r.quota = q.quota /\ r.unreported_ends = q.unreported_ends
  <2>1. r \in QueInner BY <1>1, <1>3, <1>4 DEF QueInner
  <2> QED BY <1>1, <1>3, <2>1 DEF QueInner
<1>6. \A p \in Places : /\ r.ring[p] = NoEntry <=> q.ring[p] = NoEntry
                        /\ r.ring[p].id = q.ring[p].id
    BY <1>2, <1>4, <1>5 DEF Occupied
<1>7. /\ Occupied(r) = Occupied(q) /\ \A id : EntriesOf(r, id) = EntriesOf(q, id)
      /\ \A p : Age(r, p) = Age(q, p)
      /\ Attached(r) = Attached(q) /\ Pending(r) = Pending(q)
    BY <1>5, <1>6 DEF Occupied, EntriesOf, Age, Attached, Pending
<1>8. Contiguous(r)
    BY <1>5, <1>6, <1>7 DEF QueOK, RingOK, Contiguous, Live, Occupied
<1>9. NpendCounts(r) /\ LastIsNewest(r)
    BY <1>5, <1>7 DEF QueOK, RingOK, NpendCounts, LastIsNewest
<1>10. DuplicatesCount(r) /\ Headroom(r) /\ NeverFull(r)
    BY <1>5, <1>7 DEF QueOK, RingOK, DuplicatesCount, Headroom, NeverFull
<1>11. SlotsOK(r)
    BY <1>5, <1>7 DEF QueOK, SlotsOK, QuotaCounts, CanAttach, SlotsNamed, CancelledHeld, EndsCounted
<1> QED BY <1>5, <1>8, <1>9, <1>10, <1>11 DEF QueOK, RingOK, r

\* The newest entry of a monitor with entries is one of its entries.
LEMMA LastFacts ==
    ASSUME NEW q, QueOK(q), NEW id \in AttachId, Live(q, id), q.subs[id.slot].npend > 0
    PROVE  /\ q.subs[id.slot].last \in Occupied(q)
           /\ q.ring[q.subs[id.slot].last].log \in PostLog
           /\ q.ring[q.subs[id.slot].last].id = id
<1>1. id.slot \in Pending(q) BY DEF Live, Pending, Attached, AttachId
<1>2. q.subs[id.slot].last \in EntriesOf(q, id)
    BY <1>1 DEF QueOK, RingOK, LastIsNewest, Live
<1> QED BY <1>2 DEF EntriesOf, Occupied, QueOK, QueInner, Entry

\* A post's log, held the way its monitor holds values.
LEMMA ForKindType ==
    ASSUME NEW log \in PostLog, NEW kind
    PROVE  ForKind(log, kind) \in PostLog
BY DEF ForKind, PostLog, LogData

\* A post that replaces its monitor's newest entry.
LEMMA ReplaceOK ==
    ASSUME NEW q, QueOK(q), NEW id \in AttachId, Live(q, id), q.subs[id.slot].npend > 0,
           NEW log \in PostLog
    PROVE  QueOK(Replace(q, id, log))
<1> DEFINE p0 == q.subs[id.slot].last
           new == ForKind(log, q.subs[id.slot].kind)
           joined == [new EXCEPT !.mask = @ \cup q.ring[p0].log.mask]
<1>1. p0 \in Occupied(q) /\ q.ring[p0].log \in PostLog BY LastFacts
<1>2. new \in PostLog BY ForKindType
<1>3. joined \in PostLog BY <1>1, <1>2 DEF PostLog
<1>4. Replace(q, id, log) = [q EXCEPT !.ring[p0].log = joined] BY DEF Replace
<1> HIDE DEF p0, joined
<1> QED BY <1>1, <1>3, <1>4, RelogOK

\* A post a queued reference absorbs.
LEMMA CollapseOK ==
    ASSUME NEW q, QueOK(q), NEW id \in AttachId, Live(q, id), q.subs[id.slot].npend > 0,
           NEW log \in PostLog
    PROVE  QueOK(Collapse(q, id, log))
<1> DEFINE p0 == q.subs[id.slot].last
           joined == [q.ring[p0].log EXCEPT !.mask = @ \cup log.mask]
<1>1. p0 \in Occupied(q) /\ q.ring[p0].log \in PostLog /\ q \in QueInner
    BY LastFacts DEF QueOK
<1>2. joined \in PostLog BY <1>1 DEF PostLog
<1>3. Collapse(q, id, log) = [q EXCEPT !.ring[p0].log = joined]
    BY <1>1 DEF Collapse, QueInner, Entry, Occupied
<1> HIDE DEF p0, joined
<1> QED BY <1>1, <1>2, <1>3, RelogOK

\* An appended entry: the first of its monitor, or one above the threshold.
LEMMA AppendOK ==
    ASSUME NEW q, QueOK(q), NEW id \in AttachId, Live(q, id), NEW log \in PostLog,
           q.subs[id.slot].npend = 0 \/ ring_space(q) > replace_threshold
    PROVE  QueOK(AppendEntry(q, id, log))
<1> DEFINE s0 == id.slot
           t == TailPlace(q)
           e == [id |-> id, log |-> ForKind(log, q.subs[s0].kind)]
           ring == [q.ring EXCEPT ![t] = e]
           sub == [q.subs[s0] EXCEPT !.npend = @ + 1, !.last = t]
           subs == [q.subs EXCEPT ![s0] = sub]
           dups == IF q.subs[s0].npend > 0 THEN q.n_duplicates + 1 ELSE q.n_duplicates
           burst == q.in_burst \/ FirstEvent(q)
           r == AppendEntry(q, id, log)
<1>1. q \in QueInner /\ s0 \in Slots /\ q.subs[s0] # NoSub /\ q.subs[s0] \in SubQ /\ s0 \in Attached(q)
    BY DEF QueOK, QueInner, AttachId, Live, Attached
<1>2. q.subs[s0].id = id /\ q.subs[s0].npend \in Nat BY <1>1 DEF Live, SubQ
<1>3. q.used \in Nat /\ q.used < size /\ q.n_duplicates \in Nat
    BY <1>1 DEF QueOK, RingOK, NeverFull, QueInner
<1>4. t \in Places /\ Age(q, t) = q.used BY <1>1, <1>3, TailFacts
<1> HIDE DEF t
<1>5. q.ring[t] = NoEntry
    BY <1>3, <1>4 DEF QueOK, RingOK, Contiguous
<1>6. e \in Entry /\ e.id = id BY ForKindType DEF Entry
<1>7. sub \in SubQ /\ sub.id = id /\ sub.npend = q.subs[s0].npend + 1 /\ sub.last = t
      /\ sub.gone = q.subs[s0].gone /\ sub.end_reported = q.subs[s0].end_reported
  <2>1. q.subs[s0].npend + 1 \in Nat BY <1>2
  <2>2. sub \in SubQ BY <1>1, <1>4, <2>1 DEF SubQ
  <2> QED BY <1>1, <1>2, <2>2 DEF SubQ
<1>8. r = [q EXCEPT !.ring = ring, !.subs = subs, !.n_duplicates = dups, !.used = @ + 1,
                    !.in_burst = burst]
    BY DEF AppendEntry, t
<1> HIDE DEF e, sub
<1>9. ring \in [Places -> Entry \cup {NoEntry}] /\ ring[t] = e /\ e # NoEntry
      /\ \A p \in Places : p # t => ring[p] = q.ring[p]
    BY <1>1, <1>4, <1>6, SentinelAssumption DEF QueInner
<1>10. subs \in [Slots -> SubQ \cup {NoSub}] /\ subs[s0] = sub /\ sub # NoSub
       /\ \A s \in Slots : s # s0 => subs[s] = q.subs[s]
    BY <1>1, <1>7, SentinelAssumption DEF QueInner
<1>11. dups \in Nat /\ q.used + 1 \in Nat BY <1>2, <1>3
<1>12. burst \in BOOLEAN BY <1>1 DEF QueInner
<1> HIDE DEF ring, subs, dups, burst, r
<1>13. /\ r \in QueInner /\ r.ring = ring /\ r.subs = subs /\ r.n_duplicates = dups
       /\ r.used = q.used + 1 /\ r.getix = q.getix /\ r.free = q.free
       /\ r.quota = q.quota /\ r.unreported_ends = q.unreported_ends
  <2>1. r \in QueInner BY <1>1, <1>8, <1>9, <1>10, <1>11, <1>12 DEF QueInner
  <2> QED BY <1>1, <1>8, <2>1 DEF QueInner
<1>14. Attached(r) = Attached(q) /\ Pending(r) = Pending(q) \cup {s0}
       /\ \A p : Age(r, p) = Age(q, p)
  <2>1. Attached(r) = Attached(q) BY <1>1, <1>10, <1>13 DEF Attached
  <2>2. sub.npend > 0 BY <1>2, <1>7
  <2>3. Pending(r) = Pending(q) \cup {s0}
      BY <1>1, <1>10, <1>13, <2>1, <2>2 DEF Pending, Attached
  <2> QED BY <1>13, <2>1, <2>3 DEF Age
<1>15. /\ Occupied(r) = Occupied(q) \cup {t} /\ t \notin Occupied(q)
       /\ EntriesOf(r, id) = EntriesOf(q, id) \cup {t}
       /\ \A i : i # id => EntriesOf(r, i) = EntriesOf(q, i)
  <2>1. Occupied(r) = Occupied(q) \cup {t} /\ t \notin Occupied(q)
      BY <1>4, <1>5, <1>9, <1>13 DEF Occupied
  <2>2. \A p \in Occupied(q) : r.ring[p] = q.ring[p]
      BY <1>9, <1>13, <2>1 DEF Occupied
  <2>3. r.ring[t].id = id BY <1>6, <1>9, <1>13
  <2> QED BY <2>1, <2>2, <2>3 DEF EntriesOf
<1>16. \A s \in Slots : s # s0 => /\ r.subs[s] = q.subs[s]
                                  /\ s \in Attached(q) => r.subs[s].id # id
    BY <1>10, <1>13 DEF QueOK, SlotsOK, SlotsNamed
<1>17. Contiguous(r)
  <2>1. ASSUME NEW p \in Places PROVE r.ring[p] # NoEntry <=> Age(r, p) < r.used
    <3>1. CASE p = t BY <1>3, <1>4, <1>9, <1>13, <1>14, <3>1
    <3>2. CASE p # t
      <4>1. Age(q, p) \in Nat /\ Age(q, p) # q.used
          BY <1>1, <1>4, <3>2, AgeFacts, AgeInjective, PlaceFacts
      <4>2. q.ring[p] # NoEntry <=> Age(q, p) < q.used BY DEF QueOK, RingOK, Contiguous
      <4> QED BY <1>3, <1>9, <1>13, <1>14, <3>2, <4>1, <4>2
    <3> QED BY <3>1, <3>2
  <2>2. Live(r, id) BY <1>7, <1>10, <1>13 DEF Live
  <2>3. \A i \in AttachId : Live(q, i) => Live(r, i)
      BY <1>2, <1>16, <2>2 DEF Live, AttachId
  <2>4. \A p \in Occupied(q) : q.ring[p].id \in AttachId /\ r.ring[p] = q.ring[p]
      BY <1>1, <1>9, <1>13, <1>15 DEF Occupied, QueInner, Entry
  <2>5. \A p \in Occupied(r) : Live(r, r.ring[p].id)
      BY <1>6, <1>9, <1>13, <1>15, <2>2, <2>3, <2>4 DEF QueOK, RingOK, Contiguous
  <2> QED BY <2>1, <2>5 DEF Contiguous
<1>18. NpendCounts(r)
  <2>1. Cardinality(EntriesOf(r, id)) = Cardinality(EntriesOf(q, id)) + 1
    <3>1. t \notin EntriesOf(q, id) BY <1>15 DEF EntriesOf
    <3>2. IsFiniteSet(EntriesOf(q, id)) BY <1>1, SetFacts
    <3> QED BY <1>15, <3>1, <3>2, FS_AddElement
  <2>2. q.subs[s0].npend = Cardinality(EntriesOf(q, id))
      BY <1>1, <1>2 DEF QueOK, RingOK, NpendCounts
  <2>3. r.subs[s0].npend = Cardinality(EntriesOf(r, r.subs[s0].id))
      BY <1>7, <1>10, <1>13, <2>1, <2>2
  <2>4. \A s \in Attached(q) : s # s0 => r.subs[s].npend = Cardinality(EntriesOf(r, r.subs[s].id))
      BY <1>15, <1>16 DEF QueOK, RingOK, NpendCounts, Attached
  <2> QED BY <1>14, <2>3, <2>4 DEF NpendCounts
<1>19. LastIsNewest(r)
  <2>1. \A p \in EntriesOf(q, id) : Age(q, p) <= q.used
    <3>1. TAKE p \in EntriesOf(q, id)
    <3>2. p \in Places /\ q.ring[p] # NoEntry BY DEF EntriesOf, Occupied
    <3>3. Age(q, p) < q.used BY <3>2 DEF QueOK, RingOK, Contiguous
    <3>4. Age(q, p) \in Nat BY <1>1, <3>2, AgeFacts, PlaceFacts
    <3> QED BY <1>3, <3>3, <3>4
  <2>2. /\ r.subs[s0].last \in EntriesOf(r, r.subs[s0].id)
        /\ \A p \in EntriesOf(r, r.subs[s0].id) : Age(r, p) <= Age(r, r.subs[s0].last)
      BY <1>3, <1>4, <1>7, <1>10, <1>13, <1>14, <1>15, <2>1
  <2>3. ASSUME NEW s \in Pending(q), s # s0
        PROVE  /\ r.subs[s].last \in EntriesOf(r, r.subs[s].id)
               /\ \A p \in EntriesOf(r, r.subs[s].id) : Age(r, p) <= Age(r, r.subs[s].last)
    <3>1. s \in Slots /\ s \in Attached(q) BY DEF Pending, Attached
    <3>2. r.subs[s] = q.subs[s] /\ r.subs[s].id # id BY <1>16, <2>3, <3>1
    <3> QED BY <1>14, <1>15, <3>2 DEF QueOK, RingOK, LastIsNewest
  <2> QED BY <1>14, <2>2, <2>3 DEF LastIsNewest
<1>20. DuplicatesCount(r) /\ Headroom(r)
  <2>1. /\ Cardinality(Pending(q)) \in Nat
        /\ Cardinality(Pending(r)) = IF q.subs[s0].npend > 0 THEN Cardinality(Pending(q))
                                                             ELSE Cardinality(Pending(q)) + 1
    <3>1. s0 \in Pending(q) <=> q.subs[s0].npend > 0 BY <1>1 DEF Pending
    <3> QED BY <1>1, <1>14, <3>1, SetFacts, FS_AddElement
  <2>2. DuplicatesCount(r)
      BY <1>2, <1>3, <1>13, <2>1 DEF QueOK, RingOK, DuplicatesCount, dups
  <2>3. Headroom(r)
    <3>1. CASE q.subs[s0].npend = 0
        BY <1>3, <1>13, <2>1, <3>1, SizeFacts DEF QueOK, RingOK, Headroom
    <3>2. CASE q.subs[s0].npend # 0
      <4>1. size - q.used > replace_threshold BY <3>2 DEF ring_space
      <4> QED BY <1>2, <1>3, <1>13, <2>1, <3>2, <4>1, SizeFacts DEF Headroom
    <3> QED BY <3>1, <3>2
  <2> QED BY <2>2, <2>3
<1>21. SlotsNamed(r)
  <2>1. \A s \in Attached(q) : r.subs[s].id.slot = s
      BY <1>7, <1>10, <1>13, <1>16 DEF QueOK, SlotsOK, SlotsNamed, Attached
  <2> QED BY <1>14, <2>1 DEF QueOK, SlotsOK, SlotsNamed
<1>22. NeverFull(r) BY <1>13, <1>20, <1>21, HeadroomSuffices
<1>23. QuotaCounts(r)
    BY <1>13, <1>14 DEF QueOK, SlotsOK, QuotaCounts, CanAttach
<1>24. CancelledHeld(r)
  <2>1. r.subs[s0].npend > 0 BY <1>2, <1>7, <1>10, <1>13
  <2> QED BY <1>14, <1>16, <2>1 DEF QueOK, SlotsOK, CancelledHeld, Attached
<1>25. EndsCounted(r)
  <2>1. \A s \in Attached(q) : /\ Unreported(r.subs[s]) <=> Unreported(q.subs[s])
                               /\ producer_gone(r.subs[s]) <=> producer_gone(q.subs[s])
                               /\ r.subs[s].end_reported = q.subs[s].end_reported
      BY <1>7, <1>10, <1>13, <1>16 DEF Unreported, producer_gone, Attached
  <2>2. Unreports(r) = Unreports(q) BY <1>14, <2>1 DEF Unreports
  <2> QED BY <1>13, <1>14, <2>1, <2>2 DEF QueOK, SlotsOK, EndsCounted, Unreports
<1> QED BY <1>13, <1>17, <1>18, <1>19, <1>20, <1>21, <1>22, <1>23, <1>24, <1>25
        DEF QueOK, RingOK, SlotsOK, r

\* What a post does to the queue, whichever way it ends.
LEMMA PostOK ==
    ASSUME NEW q, QueOK(q), NEW flow_on \in BOOLEAN, NEW id \in AttachId, NEW log \in PostLog
    PROVE  QueOK(post(q, flow_on, id, log))
<1> DEFINE outcome == PostOutcome(q, flow_on, id, log)
<1>1. CASE ~(Live(q, id) /\ q.subs[id.slot].gone = {})
  <2>1. outcome = "Closed" BY <1>1 DEF PostOutcome
  <2> QED BY <2>1 DEF post
<1>2. CASE Live(q, id) /\ q.subs[id.slot].gone = {}
  <2>1. q.subs[id.slot] \in SubQ /\ q.subs[id.slot].npend \in Nat
      BY <1>2 DEF Live, QueOK, QueInner, AttachId, SubQ
  <2>2. \/ outcome = "Appended" /\ (q.subs[id.slot].npend = 0 \/ ~(ring_space(q) <= replace_threshold))
        \/ outcome \in {"Collapsed", "Replaced"} /\ q.subs[id.slot].npend > 0
    <3>1. CASE q.subs[id.slot].npend = 0
      <4>1. outcome = "Appended" BY <1>2, <3>1 DEF PostOutcome
      <4> QED BY <3>1, <4>1
    <3>2. CASE q.subs[id.slot].npend # 0
      <4>1. q.subs[id.slot].npend > 0 BY <2>1, <3>2
      <4> QED BY <1>2, <3>2, <4>1 DEF PostOutcome
    <3> QED BY <3>1, <3>2
  <2>3. ring_space(q) \in Int /\ replace_threshold \in Int
      BY SizeFacts DEF ring_space, QueOK, QueInner
  <2>4. CASE outcome = "Appended"
    <3>1. post(q, flow_on, id, log) = AppendEntry(q, id, log) BY <2>4 DEF post
    <3>2. q.subs[id.slot].npend = 0 \/ ring_space(q) > replace_threshold BY <2>2, <2>3, <2>4
    <3> QED BY <1>2, <3>1, <3>2, AppendOK
  <2>5. CASE outcome = "Collapsed"
      BY <1>2, <2>2, <2>5, CollapseOK DEF post
  <2>6. CASE outcome = "Replaced"
      BY <1>2, <2>2, <2>6, ReplaceOK DEF post
  <2> QED BY <2>2, <2>4, <2>5, <2>6
<1> QED BY <1>1, <1>2

-----------------------------------------------------------------------------
(* Taking the head.                                                        *)

\* The head of a ring with entries is an entry of an attached monitor.
LEMMA HeadFacts ==
    ASSUME NEW q, QueOK(q), q.used > 0
    PROVE  /\ q \in QueInner /\ q.getix \in Occupied(q)
           /\ HeadEntry(q).id \in AttachId /\ Live(q, HeadEntry(q).id)
           /\ HeadEntry(q).id.slot \in Pending(q)
           /\ q.getix \in EntriesOf(q, HeadEntry(q).id)
           /\ \A s \in Attached(q) : q.subs[s] \in SubQ /\ q.subs[s].npend \in Nat
<1>1. q \in QueInner /\ q.getix \in Places /\ Age(q, q.getix) = 0
    BY HeadAge DEF QueOK
<1>2. q.getix \in Occupied(q)
    BY <1>1 DEF QueOK, RingOK, Contiguous, Occupied
<1>3. HeadEntry(q).id \in AttachId /\ Live(q, HeadEntry(q).id)
    BY <1>1, <1>2 DEF HeadEntry, Occupied, QueInner, Entry, QueOK, RingOK, Contiguous
<1>4. q.getix \in EntriesOf(q, HeadEntry(q).id) BY <1>2 DEF EntriesOf, HeadEntry
<1>5. \A s \in Attached(q) : q.subs[s] \in SubQ /\ q.subs[s].npend \in Nat
    BY <1>1 DEF Attached, QueInner, SubQ
<1>6. HeadEntry(q).id.slot \in Pending(q)
  <2> DEFINE s0 == HeadEntry(q).id.slot
  <2>1. s0 \in Attached(q) /\ q.subs[s0].id = HeadEntry(q).id
      BY <1>3 DEF Live, Attached, AttachId
  <2>2. q.subs[s0].npend = Cardinality(EntriesOf(q, HeadEntry(q).id))
      BY <2>1 DEF QueOK, RingOK, NpendCounts
  <2>3. q.subs[s0].npend # 0
      BY <1>1, <1>4, <2>2, SetFacts, FS_EmptySet
  <2> HIDE DEF s0
  <2>4. q.subs[s0].npend > 0 BY <1>5, <2>1, <2>3
  <2> QED BY <2>1, <2>4 DEF Pending, s0
<1> QED BY <1>1, <1>2, <1>3, <1>4, <1>5, <1>6

\* The head is the newest entry of a monitor only if it is its only one.
LEMMA LastBehindHead ==
    ASSUME NEW q, QueOK(q), q.used > 0, NEW s \in Pending(q),
           s # HeadEntry(q).id.slot \/ q.subs[s].npend > 1
    PROVE  q.subs[s].last # q.getix
<1> DEFINE id == q.subs[s].id
<1>1. s \in Attached(q) /\ s \in Slots BY DEF Pending, Attached
<1>2. q.subs[s].last \in EntriesOf(q, id) BY DEF QueOK, RingOK, LastIsNewest
<1>3. CASE s # HeadEntry(q).id.slot
  <2>1. id.slot = s BY <1>1 DEF QueOK, SlotsOK, SlotsNamed
  <2> QED BY <1>2, <1>3, <2>1 DEF EntriesOf, HeadEntry
<1>4. CASE q.subs[s].npend > 1
  <2>1. SUFFICES ASSUME q.subs[s].last = q.getix PROVE FALSE OBVIOUS
  <2>2. q \in QueInner /\ Age(q, q.getix) = 0 /\ q.getix \in Places BY HeadAge DEF QueOK
  <2>3. \A p \in EntriesOf(q, id) : p \in Places /\ Age(q, p) <= 0
      BY <2>1, <2>2 DEF QueOK, RingOK, LastIsNewest, EntriesOf, Occupied
  <2>4. \A p \in EntriesOf(q, id) : p = q.getix
      BY <2>2, <2>3, AgeFacts, PlaceFacts, AgeInjective
  <2>5. EntriesOf(q, id) = {q.getix} BY <1>2, <2>1, <2>4
  <2>6. Cardinality(EntriesOf(q, id)) = 1 BY <2>5, FS_Singleton
  <2>7. q.subs[s].npend = 1 BY <1>1, <2>6 DEF QueOK, RingOK, NpendCounts
  <2> QED BY <1>4, <2>7
<1> QED BY <1>3, <1>4

\* A monitor with two entries is counted in n_duplicates: the newest entries
\* of the monitors are distinct places behind the head.
LEMMA DuplicatesLeft ==
    ASSUME NEW q, QueOK(q), q.used > 0, q.subs[HeadEntry(q).id.slot].npend > 1
    PROVE  q.n_duplicates > 0
<1> DEFINE f == [s \in Pending(q) |-> Age(q, q.subs[s].last)]
           T == 1 .. (q.used - 1)
<1>1. q \in QueInner /\ q.used \in Nat /\ q.n_duplicates \in Nat BY DEF QueOK, QueInner
<1>2. ASSUME NEW s \in Pending(q)
      PROVE  /\ q.subs[s].last \in Places /\ Age(q, q.subs[s].last) \in T
             /\ q.ring[q.subs[s].last].id.slot = s
  <2> DEFINE p == q.subs[s].last
  <2>1. s \in Attached(q) /\ q.subs[s].id.slot = s
      BY DEF Pending, QueOK, SlotsOK, SlotsNamed
  <2>2. p \in EntriesOf(q, q.subs[s].id) BY DEF QueOK, RingOK, LastIsNewest
  <2>3. p \in Places /\ p \in Occupied(q) /\ q.ring[p].id = q.subs[s].id
      BY <2>2 DEF EntriesOf, Occupied
  <2>4. p # q.getix BY LastBehindHead
  <2> HIDE DEF p
  <2>5. Age(q, p) \in Nat /\ Age(q, p) < q.used
      BY <1>1, <2>3, AgeFacts, PlaceFacts DEF QueOK, RingOK, Contiguous, Occupied
  <2>6. Age(q, p) # 0 BY <1>1, <2>3, <2>4, HeadAge, AgeInjective
  <2> QED BY <1>1, <2>1, <2>3, <2>5, <2>6 DEF p
<1>3. f \in [Pending(q) -> T] BY <1>2
<1>4. \A s, u \in Pending(q) : f[s] = f[u] => s = u
    BY <1>1, <1>2, AgeInjective
<1> HIDE DEF f
<1>5. IsFiniteSet(T) /\ Cardinality(T) = q.used - 1
  <2>1. 1 \in Int /\ q.used - 1 \in Int BY <1>1
  <2>2. IsFiniteSet(T) /\ Cardinality(T) = IF 1 > q.used - 1 THEN 0 ELSE (q.used - 1) - 1 + 1
      BY <2>1, FS_Interval
  <2> QED BY <1>1, <2>2
<1>6. IsFiniteSet(Pending(q)) /\ Cardinality(Pending(q)) \in Nat BY <1>1, SetFacts
<1> HIDE DEF T
<1>7. ~(Cardinality(T) < Cardinality(Pending(q)))
    BY <1>3, <1>4, <1>5, <1>6, FS_PigeonHole
<1>8. q.n_duplicates + Cardinality(Pending(q)) = q.used
    BY DEF QueOK, RingOK, DuplicatesCount
<1> QED BY <1>1, <1>5, <1>6, <1>7, <1>8

\* The head has left, and its monitor's slot is not given back yet.
Retired(q) ==
    LET slot == HeadEntry(q).id.slot
        npend == q.subs[slot].npend - 1
    IN  [q EXCEPT !.ring[q.getix] = NoEntry, !.getix = ix(q, 1), !.used = @ - 1,
                  !.taken = @ + 1, !.draining = q.used > 1,
                  !.subs[slot].npend = npend,
                  !.n_duplicates = IF npend > 0 THEN @ - 1 ELSE @]

\* advance: the head leaves, and a cancelled monitor's slot with its last.
LEMMA AdvanceRetires ==
    ASSUME NEW q, QueOK(q), q.used > 0
    PROVE  advance(q) =
                IF /\ q.subs[HeadEntry(q).id.slot].npend - 1 = 0
                   /\ reader_gone(q.subs[HeadEntry(q).id.slot])
                THEN free_slot(Retired(q), HeadEntry(q).id.slot) ELSE Retired(q)
<1> DEFINE slot == HeadEntry(q).id.slot
           x == [q EXCEPT !.ring[q.getix] = NoEntry, !.getix = ix(q, 1), !.used = @ - 1,
                          !.taken = @ + 1, !.draining = q.used > 1]
           npend == q.subs[slot].npend - 1
           r == [x EXCEPT !.subs[slot].npend = npend,
                          !.n_duplicates = IF npend > 0 THEN @ - 1 ELSE @]
<1>1. q \in QueInner BY DEF QueOK
<1>2. x.subs = q.subs BY <1>1 DEF QueInner
<1>3. advance(q) = release(x, slot) BY DEF advance
<1>4. Retired(q) = r BY <1>1 DEF Retired, QueInner
<1> HIDE DEF x
<1>5. release(x, slot) = IF npend = 0 /\ reader_gone(q.subs[slot]) THEN free_slot(r, slot) ELSE r
    BY <1>2 DEF release
<1> QED BY <1>3, <1>4, <1>5

\* The ring, the counts and the slots once the head has left.
LEMMA RetiredOK ==
    ASSUME NEW q, QueOK(q), q.used > 0
    PROVE  LET r == Retired(q)
               s0 == HeadEntry(q).id.slot
           IN  /\ r \in QueInner /\ RingOK(r) /\ QuotaCounts(r) /\ SlotsNamed(r) /\ EndsCounted(r)
               /\ s0 \in Attached(r) /\ Attached(r) = Attached(q)
               /\ r.subs[s0].npend = q.subs[s0].npend - 1
               /\ reader_gone(r.subs[s0]) <=> reader_gone(q.subs[s0])
               /\ \A s \in Attached(r) \ {s0} : reader_gone(r.subs[s]) => r.subs[s].npend > 0
<1> DEFINE s0 == HeadEntry(q).id.slot
           id == HeadEntry(q).id
           g == q.getix
           ring == [q.ring EXCEPT ![g] = NoEntry]
           npend == q.subs[s0].npend - 1
           sub == [q.subs[s0] EXCEPT !.npend = npend]
           subs == [q.subs EXCEPT ![s0] = sub]
           dups == IF npend > 0 THEN q.n_duplicates - 1 ELSE q.n_duplicates
           drain == q.used > 1
           r == Retired(q)
<1>1. /\ q \in QueInner /\ g \in Occupied(q) /\ g \in Places /\ id \in AttachId /\ Live(q, id)
      /\ s0 \in Pending(q) /\ s0 \in Attached(q) /\ s0 \in Slots /\ g \in EntriesOf(q, id)
      /\ q.subs[s0] # NoSub /\ q.subs[s0].id = id /\ q.subs[s0] \in SubQ
      /\ q.subs[s0].npend \in Nat /\ q.subs[s0].npend > 0
    BY HeadFacts DEF Occupied, Pending, Attached, Live
<1>2. r = [q EXCEPT !.ring = ring, !.getix = ix(q, 1), !.used = @ - 1, !.taken = @ + 1,
                    !.draining = drain, !.subs = subs, !.n_duplicates = dups]
    BY DEF Retired
<1>3. npend \in Nat /\ (npend > 0 <=> q.subs[s0].npend > 1) BY <1>1
<1>4. /\ sub \in SubQ /\ sub.id = id /\ sub.npend = npend /\ sub.last = q.subs[s0].last
      /\ sub.gone = q.subs[s0].gone /\ sub.end_reported = q.subs[s0].end_reported
    BY <1>1, <1>3 DEF SubQ
<1> HIDE DEF sub
<1>5. ring \in [Places -> Entry \cup {NoEntry}] /\ ring[g] = NoEntry
      /\ \A p \in Places : p # g => ring[p] = q.ring[p]
    BY <1>1 DEF QueInner
<1>6. subs \in [Slots -> SubQ \cup {NoSub}] /\ subs[s0] = sub /\ sub # NoSub
      /\ \A s \in Slots : s # s0 => subs[s] = q.subs[s]
    BY <1>1, <1>4, SentinelAssumption DEF QueInner
<1>7. q.used \in Nat /\ q.used - 1 \in Nat /\ q.taken + 1 \in Nat /\ q.n_duplicates \in Nat
    BY <1>1 DEF QueInner
<1>8. dups \in Nat
  <2>1. npend > 0 => q.n_duplicates > 0 BY <1>3, DuplicatesLeft
  <2> QED BY <1>7, <2>1
<1>9. ix(q, 1) \in Places BY <1>1, RingAges DEF ix
<1>a. drain \in BOOLEAN OBVIOUS
<1> HIDE DEF ring, subs, dups, drain, r
<1>10. /\ r \in QueInner /\ r.ring = ring /\ r.subs = subs /\ r.n_duplicates = dups
       /\ r.used = q.used - 1 /\ r.getix = ix(q, 1) /\ r.free = q.free
       /\ r.quota = q.quota /\ r.unreported_ends = q.unreported_ends
  <2>1. r \in QueInner
      BY <1>1, <1>2, <1>5, <1>6, <1>7, <1>8, <1>9, <1>a DEF QueInner
  <2> QED BY <1>1, <1>2, <2>1 DEF QueInner
<1>11. /\ Attached(r) = Attached(q)
       /\ Pending(r) = IF npend > 0 THEN Pending(q) ELSE Pending(q) \ {s0}
  <2>1. Attached(r) = Attached(q) BY <1>1, <1>6, <1>10 DEF Attached
  <2> QED BY <1>1, <1>4, <1>6, <1>10, <2>1 DEF Pending, Attached
<1>12. /\ Occupied(r) = Occupied(q) \ {g}
       /\ EntriesOf(r, id) = EntriesOf(q, id) \ {g}
       /\ \A i : i # id => EntriesOf(r, i) = EntriesOf(q, i)
  <2>1. Occupied(r) = Occupied(q) \ {g} BY <1>1, <1>5, <1>10 DEF Occupied
  <2>2. \A p \in Occupied(q) \ {g} : r.ring[p] = q.ring[p] BY <1>5, <1>10 DEF Occupied
  <2>3. q.ring[g].id = id BY DEF HeadEntry
  <2> QED BY <2>1, <2>2, <2>3 DEF EntriesOf
<1>13. \A p \in Places : Age(r, p) = IF p = g THEN size - 1 ELSE Age(q, p) - 1
    BY <1>1, <1>10, AdvanceAge
<1>14. \A s \in Slots : s # s0 => /\ r.subs[s] = q.subs[s]
                                  /\ s \in Attached(q) => r.subs[s].id # id
    BY <1>6, <1>10 DEF QueOK, SlotsOK, SlotsNamed
<1>15. r.subs[s0] = sub BY <1>6, <1>10
<1>16. Contiguous(r)
  <2>1. ASSUME NEW p \in Places PROVE r.ring[p] # NoEntry <=> Age(r, p) < r.used
    <3>1. CASE p = g
      <4>1. Age(r, p) = size - 1 BY <1>13, <3>1
      <4>2. q.used < size /\ size \in Nat BY PlaceFacts DEF QueOK, RingOK, NeverFull
      <4> QED BY <1>5, <1>7, <1>10, <3>1, <4>1, <4>2
    <3>2. CASE p # g
      <4>1. Age(q, p) \in Nat BY <1>1, AgeFacts, PlaceFacts
      <4>2. q.ring[p] # NoEntry <=> Age(q, p) < q.used BY DEF QueOK, RingOK, Contiguous
      <4>3. Age(r, p) = Age(q, p) - 1 BY <1>13, <3>2
      <4> QED BY <1>5, <1>7, <1>10, <3>2, <4>1, <4>2, <4>3
    <3> QED BY <3>1, <3>2
  <2>2. \A i \in AttachId : Live(q, i) => Live(r, i)
      BY <1>1, <1>4, <1>6, <1>14, <1>15 DEF Live, AttachId
  <2>3. \A p \in Occupied(r) : /\ p \in Occupied(q) /\ r.ring[p] = q.ring[p]
                               /\ q.ring[p].id \in AttachId
      BY <1>1, <1>5, <1>10, <1>12 DEF Occupied, QueInner, Entry
  <2>4. \A p \in Occupied(r) : Live(r, r.ring[p].id)
      BY <2>2, <2>3 DEF QueOK, RingOK, Contiguous
  <2> QED BY <2>1, <2>4 DEF Contiguous
<1>17. NpendCounts(r)
  <2>1. IsFiniteSet(EntriesOf(q, id)) BY <1>1, SetFacts
  <2>2. Cardinality(EntriesOf(r, id)) = Cardinality(EntriesOf(q, id)) - 1
    <3> HIDE DEF id, g
    <3>1. Cardinality(EntriesOf(q, id) \ {g}) = Cardinality(EntriesOf(q, id)) - 1
        BY <1>1, <2>1, FS_RemoveElement
    <3> QED BY <1>12, <3>1
  <2>3. q.subs[s0].npend = Cardinality(EntriesOf(q, id))
      BY <1>1 DEF QueOK, RingOK, NpendCounts
  <2>4. r.subs[s0].npend = Cardinality(EntriesOf(r, r.subs[s0].id))
      BY <1>4, <1>15, <2>2, <2>3
  <2>5. \A s \in Attached(q) : s # s0 => r.subs[s].npend = Cardinality(EntriesOf(r, r.subs[s].id))
      BY <1>12, <1>14 DEF QueOK, RingOK, NpendCounts, Attached
  <2> QED BY <1>11, <2>4, <2>5 DEF NpendCounts
<1>18. LastIsNewest(r)
  <2>1. ASSUME NEW s \in Pending(r)
        PROVE  /\ r.subs[s].last \in EntriesOf(r, r.subs[s].id)
               /\ \A p \in EntriesOf(r, r.subs[s].id) : Age(r, p) <= Age(r, r.subs[s].last)
    <3> DEFINE l == q.subs[s].last
               i == q.subs[s].id
    <3>1. s \in Pending(q) /\ s \in Slots /\ (s # s0 \/ q.subs[s].npend > 1)
        BY <1>3, <1>11 DEF Pending, Attached
    <3>2. l # g BY <3>1, LastBehindHead
    <3>3. r.subs[s].last = l /\ r.subs[s].id = i BY <1>1, <1>4, <1>14, <1>15, <3>1
    <3>4. l \in EntriesOf(q, i) /\ \A p \in EntriesOf(q, i) : Age(q, p) <= Age(q, l)
        BY <3>1 DEF QueOK, RingOK, LastIsNewest
    <3>5. l \in EntriesOf(r, i) /\ \A p \in EntriesOf(r, i) : p \in EntriesOf(q, i) /\ p # g
      <4>1. CASE i = id BY <1>12, <3>2, <3>4, <4>1
      <4>2. CASE i # id
        <5>1. g \notin EntriesOf(q, i) BY <4>2 DEF EntriesOf, HeadEntry
        <5> QED BY <1>12, <3>4, <4>2, <5>1
      <4> QED BY <4>1, <4>2
    <3>6. \A p \in EntriesOf(q, i) : p \in Places /\ Age(q, p) \in Nat
        BY <1>1, AgeFacts, PlaceFacts DEF EntriesOf, Occupied
    <3> HIDE DEF l, i
    <3>7. \A p \in EntriesOf(r, i) : Age(r, p) <= Age(r, l)
      <4>1. TAKE p \in EntriesOf(r, i)
      <4>2. p \in EntriesOf(q, i) /\ p # g BY <3>5
      <4>3. Age(r, p) = Age(q, p) - 1 /\ Age(r, l) = Age(q, l) - 1
          BY <1>13, <3>2, <3>4, <3>6, <4>2
      <4>4. Age(q, p) \in Nat /\ Age(q, l) \in Nat /\ Age(q, p) <= Age(q, l)
          BY <3>4, <3>6, <4>2
      <4> QED BY <4>3, <4>4
    <3> QED BY <3>3, <3>5, <3>7
  <2> QED BY <2>1 DEF LastIsNewest
<1>19. DuplicatesCount(r) /\ Headroom(r) /\ NeverFull(r)
  <2>1. /\ Cardinality(Pending(q)) \in Nat
        /\ Cardinality(Pending(r)) = IF npend > 0 THEN Cardinality(Pending(q))
                                                  ELSE Cardinality(Pending(q)) - 1
    <3>1. IsFiniteSet(Pending(q)) /\ Cardinality(Pending(q)) \in Nat BY <1>1, SetFacts
    <3> HIDE DEF s0, npend
    <3>2. Cardinality(Pending(q) \ {s0}) = Cardinality(Pending(q)) - 1
        BY <1>1, <3>1, FS_RemoveElement
    <3> QED BY <1>11, <3>1, <3>2
  <2>2. DuplicatesCount(r)
      BY <1>7, <1>10, <2>1 DEF QueOK, RingOK, DuplicatesCount, dups
  <2>3. Headroom(r)
      BY <1>7, <1>10, <2>1, SizeFacts DEF QueOK, RingOK, Headroom
  <2>4. NeverFull(r) BY <1>7, <1>10, SizeFacts DEF QueOK, RingOK, NeverFull
  <2> QED BY <2>2, <2>3, <2>4
<1>20. SlotsNamed(r)
  <2>1. \A s \in Attached(q) : r.subs[s].id.slot = s
      BY <1>4, <1>14, <1>15 DEF QueOK, SlotsOK, SlotsNamed, Attached
  <2> QED BY <1>11, <2>1 DEF QueOK, SlotsOK, SlotsNamed
<1>21. QuotaCounts(r)
    BY <1>10, <1>11 DEF QueOK, SlotsOK, QuotaCounts, CanAttach
<1>22. EndsCounted(r)
  <2>1. \A s \in Attached(q) : /\ Unreported(r.subs[s]) <=> Unreported(q.subs[s])
                               /\ producer_gone(r.subs[s]) <=> producer_gone(q.subs[s])
                               /\ r.subs[s].end_reported = q.subs[s].end_reported
      BY <1>4, <1>14, <1>15 DEF Unreported, producer_gone, Attached
  <2>2. Unreports(r) = Unreports(q) BY <1>11, <2>1 DEF Unreports
  <2> QED BY <1>10, <1>11, <2>1, <2>2 DEF QueOK, SlotsOK, EndsCounted, Unreports
<1>23. \A s \in Attached(r) \ {s0} : reader_gone(r.subs[s]) => r.subs[s].npend > 0
    BY <1>11, <1>14 DEF QueOK, SlotsOK, CancelledHeld, Attached
<1>24. reader_gone(r.subs[s0]) <=> reader_gone(q.subs[s0])
    BY <1>4, <1>15 DEF reader_gone
<1>25. s0 \in Attached(r) /\ r.subs[s0].npend = q.subs[s0].npend - 1
    BY <1>1, <1>4, <1>11, <1>15
<1> QED BY <1>10, <1>11, <1>16, <1>17, <1>18, <1>19, <1>20, <1>21, <1>22, <1>23, <1>24, <1>25
        DEF RingOK, r

\* advance, whoever the head belongs to.
LEMMA AdvanceOK ==
    ASSUME NEW q, QueOK(q), q.used > 0
    PROVE  QueOK(advance(q))
<1> DEFINE r == Retired(q)
           s0 == HeadEntry(q).id.slot
<1>1. /\ r \in QueInner /\ RingOK(r) /\ QuotaCounts(r) /\ SlotsNamed(r) /\ EndsCounted(r)
      /\ s0 \in Attached(r) /\ Attached(r) = Attached(q)
      /\ r.subs[s0].npend = q.subs[s0].npend - 1
      /\ reader_gone(r.subs[s0]) <=> reader_gone(q.subs[s0])
      /\ \A s \in Attached(r) \ {s0} : reader_gone(r.subs[s]) => r.subs[s].npend > 0
    BY RetiredOK
<1>2. /\ advance(q) = IF q.subs[s0].npend - 1 = 0 /\ reader_gone(q.subs[s0])
                      THEN free_slot(r, s0) ELSE r
    BY AdvanceRetires
<1>3. q.subs[s0].npend \in Nat /\ q.subs[s0].npend > 0
    BY HeadFacts DEF Pending
<1> HIDE DEF r, s0
<1>4. CASE q.subs[s0].npend - 1 = 0 /\ reader_gone(q.subs[s0])
  <2>1. QueOK(free_slot(r, s0)) BY <1>1, <1>4, FreeSlotOK
  <2> QED BY <1>2, <1>4, <2>1
<1>5. CASE ~(q.subs[s0].npend - 1 = 0 /\ reader_gone(q.subs[s0]))
  <2>1. reader_gone(r.subs[s0]) => r.subs[s0].npend > 0 BY <1>1, <1>3, <1>5
  <2>2. CancelledHeld(r) BY <1>1, <2>1 DEF CancelledHeld
  <2> QED BY <1>1, <1>2, <1>5, <2>2 DEF QueOK, SlotsOK
<1> QED BY <1>4, <1>5

-----------------------------------------------------------------------------
(* What each operation on a sound queue does to the fields other components *)
(* look at: the ring, the counts, the flags of a drain pass and of a burst, *)
(* and the monitors' slots.                                                 *)

\* A slot holding a monitor holds a subscription record.
LEMMA SubFacts ==
    ASSUME NEW q \in QueInner, NEW s \in Slots, q.subs[s] # NoSub
    PROVE  /\ q.subs[s] \in SubQ /\ q.subs[s].npend \in Nat /\ q.subs[s].last \in Places
           /\ q.subs[s].gone \in SUBSET Gone /\ q.subs[s].end_reported \in BOOLEAN
           /\ q.subs[s].id \in AttachId /\ q.subs[s].kind \in LogKind
BY DEF QueInner, SubQ

\* post: a post that is not refused is to a live monitor with both ends, and
\* is appended, collapsed or replaced as the ring and EVENTS_OFF say.
LEMMA OutcomeFacts ==
    ASSUME NEW q, QueOK(q), NEW fl \in BOOLEAN, NEW id \in AttachId, NEW log \in PostLog,
           PostOutcome(q, fl, id, log) # "Closed"
    PROVE  /\ q \in QueInner /\ Live(q, id) /\ q.subs[id.slot].gone = {}
           /\ q.subs[id.slot] \in SubQ /\ q.subs[id.slot].npend \in Nat
           /\ \/ /\ PostOutcome(q, fl, id, log) = "Appended"
                 /\ post(q, fl, id, log) = AppendEntry(q, id, log)
                 /\ \/ q.subs[id.slot].npend = 0
                    \/ /\ ~fl /\ ring_space(q) > replace_threshold
                       /\ ~(/\ is_ref(ForKind(log, q.subs[id.slot].kind))
                            /\ is_ref(q.ring[q.subs[id.slot].last].log))
              \/ /\ PostOutcome(q, fl, id, log) = "Collapsed"
                 /\ post(q, fl, id, log) = Collapse(q, id, log)
                 /\ q.subs[id.slot].npend > 0
                 /\ is_ref(ForKind(log, q.subs[id.slot].kind))
                 /\ is_ref(q.ring[q.subs[id.slot].last].log)
              \/ /\ PostOutcome(q, fl, id, log) = "Replaced"
                 /\ post(q, fl, id, log) = Replace(q, id, log)
                 /\ q.subs[id.slot].npend > 0
                 /\ ~(/\ is_ref(ForKind(log, q.subs[id.slot].kind))
                      /\ is_ref(q.ring[q.subs[id.slot].last].log))
<1> DEFINE sub == q.subs[id.slot]
           outcome == PostOutcome(q, fl, id, log)
           refs == is_ref(ForKind(log, sub.kind)) /\ is_ref(q.ring[sub.last].log)
<1>1. q \in QueInner BY DEF QueOK
<1>2. Live(q, id) /\ sub.gone = {} BY DEF PostOutcome
<1>3. sub \in SubQ /\ sub.npend \in Nat BY <1>1, <1>2, SubFacts DEF Live, AttachId
<1>4. ring_space(q) \in Int /\ replace_threshold \in Int
    BY <1>1, SizeFacts DEF ring_space, QueInner
<1>5. CASE sub.npend = 0
  <2>1. outcome = "Appended" BY <1>2, <1>5 DEF PostOutcome
  <2>2. post(q, fl, id, log) = AppendEntry(q, id, log) BY <2>1 DEF post
  <2> QED BY <1>1, <1>2, <1>3, <1>5, <2>1, <2>2
<1>6. CASE sub.npend # 0
  <2>1. sub.npend > 0 BY <1>3, <1>6
  <2>2. outcome = IF refs THEN "Collapsed"
                  ELSE IF fl \/ ring_space(q) <= replace_threshold THEN "Replaced" ELSE "Appended"
      BY <1>2, <1>6 DEF PostOutcome
  <2>3. /\ outcome = "Appended" => post(q, fl, id, log) = AppendEntry(q, id, log)
        /\ outcome = "Collapsed" => post(q, fl, id, log) = Collapse(q, id, log)
        /\ outcome = "Replaced" => post(q, fl, id, log) = Replace(q, id, log)
      BY DEF post
  <2> HIDE DEF outcome, refs
  <2>4. \/ outcome = "Collapsed" /\ refs
        \/ outcome = "Replaced" /\ ~refs
        \/ outcome = "Appended" /\ ~refs /\ ~fl /\ ring_space(q) > replace_threshold
      BY <1>4, <2>2
  <2> QED BY <1>1, <1>2, <1>3, <2>1, <2>3, <2>4 DEF outcome, refs
<1> QED BY <1>5, <1>6

\* r is q after an append of log for the monitor id, field by field.
Appends(q, r, id, log) ==
    LET sub == q.subs[id.slot]
    IN  /\ r.ring = [q.ring EXCEPT ![TailPlace(q)] = [id |-> id, log |-> ForKind(log, sub.kind)]]
        /\ r.subs = [q.subs EXCEPT ![id.slot] = [sub EXCEPT !.npend = @ + 1, !.last = TailPlace(q)]]
        /\ r.n_duplicates = IF sub.npend > 0 THEN q.n_duplicates + 1 ELSE q.n_duplicates
        /\ r.used = q.used + 1 /\ r.in_burst = (q.in_burst \/ FirstEvent(q))
        /\ r.getix = q.getix /\ r.taken = q.taken /\ r.draining = q.draining

\* AppendEntry does that.
LEMMA AppendFields ==
    ASSUME NEW q \in QueInner, NEW id \in AttachId, NEW log, Live(q, id)
    PROVE  Appends(q, AppendEntry(q, id, log), id, log)
BY DEF Appends, AppendEntry, QueInner

\* r is q with another log at place p, field by field.
Relogs(q, r, p, log) ==
    /\ r.ring = [q.ring EXCEPT ![p] = [q.ring[p] EXCEPT !.log = log]] /\ r.subs = q.subs
    /\ r.n_duplicates = q.n_duplicates /\ r.used = q.used /\ r.in_burst = q.in_burst
    /\ r.getix = q.getix /\ r.taken = q.taken /\ r.draining = q.draining

\* Replace and Collapse do that at the monitor's newest entry.
LEMMA RelogFields ==
    ASSUME NEW q \in QueInner, NEW id, NEW log
    PROVE  /\ Relogs(q, Replace(q, id, log), q.subs[id.slot].last,
                     [ForKind(log, q.subs[id.slot].kind) EXCEPT !.mask = @ \cup
                        q.ring[q.subs[id.slot].last].log.mask])
           /\ Relogs(q, Collapse(q, id, log), q.subs[id.slot].last,
                     [q.ring[q.subs[id.slot].last].log EXCEPT !.mask = @ \cup log.mask])
<1>1. Relogs(q, Replace(q, id, log), q.subs[id.slot].last,
             [ForKind(log, q.subs[id.slot].kind) EXCEPT !.mask = @ \cup
                q.ring[q.subs[id.slot].last].log.mask])
    BY DEF Relogs, Replace, QueInner
<1>2. Relogs(q, Collapse(q, id, log), q.subs[id.slot].last,
             [q.ring[q.subs[id.slot].last].log EXCEPT !.mask = @ \cup log.mask])
    BY DEF Relogs, Collapse, QueInner
<1> QED BY <1>1, <1>2

\* The log a post leaves at its monitor's newest entry when it adds no entry.
Joined(q, fl, id, log) ==
    IF PostOutcome(q, fl, id, log) = "Replaced"
    THEN [ForKind(log, q.subs[id.slot].kind) EXCEPT !.mask = @ \cup
            q.ring[q.subs[id.slot].last].log.mask]
    ELSE [q.ring[q.subs[id.slot].last].log EXCEPT !.mask = @ \cup log.mask]

\* post appends, or changes the log of the monitor's newest entry.
LEMMA PostFields ==
    ASSUME NEW q, QueOK(q), NEW fl \in BOOLEAN, NEW id \in AttachId, NEW log \in PostLog,
           PostOutcome(q, fl, id, log) # "Closed"
    PROVE  IF PostOutcome(q, fl, id, log) = "Appended"
           THEN Appends(q, post(q, fl, id, log), id, log)
           ELSE Relogs(q, post(q, fl, id, log), q.subs[id.slot].last, Joined(q, fl, id, log))
<1>1. q \in QueInner /\ Live(q, id) BY OutcomeFacts
<1>2. CASE PostOutcome(q, fl, id, log) = "Appended"
  <2>1. post(q, fl, id, log) = AppendEntry(q, id, log) BY <1>2 DEF post
  <2> QED BY <1>1, <1>2, <2>1, AppendFields
<1>3. CASE PostOutcome(q, fl, id, log) = "Replaced"
  <2>1. post(q, fl, id, log) = Replace(q, id, log) BY <1>3 DEF post
  <2> QED BY <1>1, <1>3, <2>1, RelogFields DEF Joined
<1>4. CASE PostOutcome(q, fl, id, log) = "Collapsed"
  <2>1. post(q, fl, id, log) = Collapse(q, id, log) BY <1>4 DEF post
  <2> QED BY <1>1, <1>4, <2>1, RelogFields DEF Joined
<1> QED BY <1>2, <1>3, <1>4, OutcomeFacts

\* post: a drain pass and the taken count are not the producer's; the ring's
\* first entry puts the queue in a burst; with EVENTS_OFF no duplicate is made;
\* and no end of a stream becomes reportable.
PostFlags(q, r, fl, outcome) ==
    /\ r.draining = q.draining /\ r.taken = q.taken /\ r.getix = q.getix
    /\ IF outcome = "Appended"
       THEN r.used = q.used + 1 /\ r.in_burst = (q.in_burst \/ q.used = 0)
       ELSE r.used = q.used /\ r.in_burst = q.in_burst
    /\ fl => r.n_duplicates = q.n_duplicates
    /\ Ended(r) \subseteq Ended(q)

\* A post that is not refused changes the flags that way.
LEMMA PostChanges ==
    ASSUME NEW q, QueOK(q), NEW fl \in BOOLEAN, NEW id \in AttachId, NEW log \in PostLog,
           PostOutcome(q, fl, id, log) # "Closed"
    PROVE  PostFlags(q, post(q, fl, id, log), fl, PostOutcome(q, fl, id, log))
<1> DEFINE r == post(q, fl, id, log)
           sub == q.subs[id.slot]
<1>1. q \in QueInner /\ Live(q, id) /\ sub \in SubQ /\ sub.npend \in Nat /\ id.slot \in Slots
    BY OutcomeFacts DEF AttachId
<1>2. CASE PostOutcome(q, fl, id, log) = "Appended"
  <2>1. sub.npend = 0 \/ ~fl BY <1>2, OutcomeFacts
  <2>2. Appends(q, r, id, log) BY <1>2, PostFields
  <2> HIDE DEF r
  <2>3. FirstEvent(q) <=> q.used = 0
    <3>1. size \in Nat /\ q.used \in Nat BY <1>1, SizeFacts DEF QueInner
    <3> QED BY <3>1 DEF FirstEvent, ring_space
  <2>4. Ended(r) \subseteq Ended(q)
    <3>1. r.subs = [q.subs EXCEPT ![id.slot] = [sub EXCEPT !.npend = @ + 1, !.last = TailPlace(q)]]
        BY <2>2 DEF Appends
    <3>2. \A s \in Slots \ {id.slot} : r.subs[s] = q.subs[s] BY <1>1, <3>1 DEF QueInner
    <3>3. r.subs[id.slot].npend = sub.npend + 1
        BY <1>1, <3>1 DEF QueInner, SubQ
    <3>4. r.subs[id.slot].npend # 0 BY <1>1, <3>3
    <3>5. id.slot \notin Ended(r) BY <3>4 DEF Ended
    <3> QED BY <3>2, <3>5 DEF Ended, Attached
  <2>5. /\ r.draining = q.draining /\ r.taken = q.taken /\ r.getix = q.getix
        /\ r.used = q.used + 1 /\ r.in_burst = (q.in_burst \/ q.used = 0)
        /\ sub.npend = 0 => r.n_duplicates = q.n_duplicates
      BY <2>2, <2>3 DEF Appends
  <2> HIDE DEF sub
  <2> QED BY <1>2, <2>1, <2>4, <2>5 DEF PostFlags, r
<1>3. CASE PostOutcome(q, fl, id, log) # "Appended"
  <2>1. Relogs(q, r, sub.last, Joined(q, fl, id, log)) BY <1>3, PostFields
  <2> HIDE DEF r
  <2>2. r.subs = q.subs BY <2>1 DEF Relogs
  <2>3. Ended(r) = Ended(q) BY <2>2 DEF Ended, Attached
  <2>4. /\ r.draining = q.draining /\ r.taken = q.taken /\ r.getix = q.getix
        /\ r.used = q.used /\ r.in_burst = q.in_burst /\ r.n_duplicates = q.n_duplicates
      BY <2>1 DEF Relogs
  <2> QED BY <1>3, <2>3, <2>4 DEF PostFlags, r
<1> QED BY <1>2, <1>3

\* r is q after its head left: it counts as taken, the pass goes on while
\* entries are left, and a cancelled monitor's slot goes with its last entry.
Advances(q, r) ==
    LET s0 == HeadEntry(q).id.slot
    IN  /\ r.ring = [q.ring EXCEPT ![q.getix] = NoEntry] /\ r.getix = ix(q, 1)
        /\ r.used = q.used - 1 /\ r.taken = q.taken + 1
        /\ r.draining = (q.used > 1) /\ r.in_burst = q.in_burst
        /\ r.subs = [q.subs EXCEPT ![s0] =
                        IF q.subs[s0].npend - 1 = 0 /\ reader_gone(q.subs[s0]) THEN NoSub
                        ELSE [q.subs[s0] EXCEPT !.npend = q.subs[s0].npend - 1]]

\* advance does that.
LEMMA AdvanceFields ==
    ASSUME NEW q, QueOK(q), q.used > 0
    PROVE  Advances(q, advance(q))
<1> DEFINE r == advance(q)
           s0 == HeadEntry(q).id.slot
           y == Retired(q)
<1>1. q \in QueInner /\ s0 \in Slots /\ q.subs[s0] \in SubQ
    BY HeadFacts DEF Pending, Attached
<1>2. /\ y.ring = [q.ring EXCEPT ![q.getix] = NoEntry] /\ y.getix = ix(q, 1)
      /\ y.used = q.used - 1 /\ y.taken = q.taken + 1
      /\ y.draining = (q.used > 1) /\ y.in_burst = q.in_burst
      /\ y.subs = [q.subs EXCEPT ![s0].npend = q.subs[s0].npend - 1]
    BY <1>1 DEF Retired, QueInner
<1>3. y \in QueInner BY RetiredOK
<1>4. r = IF q.subs[s0].npend - 1 = 0 /\ reader_gone(q.subs[s0]) THEN free_slot(y, s0) ELSE y
    BY AdvanceRetires
<1>5. y.subs = [q.subs EXCEPT ![s0] = [q.subs[s0] EXCEPT !.npend = q.subs[s0].npend - 1]]
    BY <1>2
<1>6. CASE q.subs[s0].npend - 1 = 0 /\ reader_gone(q.subs[s0])
  <2>1. r = free_slot(y, s0) BY <1>4, <1>6
  <2> HIDE DEF r, y
  <2>2. /\ r.ring = y.ring /\ r.getix = y.getix /\ r.used = y.used /\ r.taken = y.taken
        /\ r.draining = y.draining /\ r.in_burst = y.in_burst
        /\ r.subs = [y.subs EXCEPT ![s0] = NoSub]
      BY <1>3, <2>1 DEF free_slot, QueInner
  <2>3. r.subs = [q.subs EXCEPT ![s0] = NoSub] BY <1>1, <1>5, <2>2 DEF QueInner
  <2> QED BY <1>2, <1>6, <2>2, <2>3 DEF r, Advances
<1>7. CASE ~(q.subs[s0].npend - 1 = 0 /\ reader_gone(q.subs[s0]))
  <2>1. r = y BY <1>4, <1>7
  <2> HIDE DEF r, y
  <2> QED BY <1>2, <1>5, <1>7, <2>1 DEF r, Advances
<1> QED BY <1>6, <1>7

\* r is q with another subscription sub in slot s, the ring and the flags of
\* bursts and passes as they were.
Reslots(q, r, s, sub) ==
    /\ r.ring = q.ring /\ r.getix = q.getix /\ r.used = q.used /\ r.taken = q.taken
    /\ r.n_duplicates = q.n_duplicates /\ r.draining = q.draining /\ r.in_burst = q.in_burst
    /\ r.subs = [q.subs EXCEPT ![s] = sub]

\* close_producer marks the slot.
LEMMA CloseProducerFields ==
    ASSUME NEW q \in QueInner, NEW id \in AttachId, Live(q, id)
    PROVE  Reslots(q, close_producer(q, id), id.slot,
                   [q.subs[id.slot] EXCEPT !.gone = q.subs[id.slot].gone \cup {"producer"}])
<1> DEFINE s == id.slot
<1>1. s \in Slots /\ q.subs[s] \in SubQ BY SubFacts DEF Live, AttachId
<1>2. CASE producer_gone(q.subs[s])
  <2>1. close_producer(q, id) = q BY <1>2 DEF close_producer
  <2>2. q.subs[s].gone \cup {"producer"} = q.subs[s].gone BY <1>2 DEF producer_gone
  <2>3. [q.subs[s] EXCEPT !.gone = q.subs[s].gone] = q.subs[s] BY <1>1 DEF SubQ
  <2>4. [q.subs EXCEPT ![s] = q.subs[s]] = q.subs BY <1>1 DEF QueInner
  <2> QED BY <2>1, <2>2, <2>3, <2>4 DEF Reslots
<1>3. CASE ~producer_gone(q.subs[s])
  <2> DEFINE r == [q EXCEPT !.subs[s].gone = @ \cup {"producer"}, !.unreported_ends = @ + 1]
  <2>1. close_producer(q, id) = r BY <1>3 DEF close_producer
  <2>2. r.subs = [q.subs EXCEPT ![s] = [q.subs[s] EXCEPT !.gone = q.subs[s].gone \cup {"producer"}]]
      BY <1>1 DEF QueInner
  <2>3. /\ r.ring = q.ring /\ r.getix = q.getix /\ r.used = q.used /\ r.taken = q.taken
        /\ r.n_duplicates = q.n_duplicates /\ r.draining = q.draining /\ r.in_burst = q.in_burst
      BY DEF QueInner
  <2> HIDE DEF r
  <2> QED BY <2>1, <2>2, <2>3 DEF Reslots
<1> QED BY <1>2, <1>3

\* close_reader marks the slot, or gives it back if nothing of it is queued.
LEMMA CloseReaderFields ==
    ASSUME NEW q \in QueInner, NEW id \in AttachId, Live(q, id)
    PROVE  Reslots(q, close_reader(q, id), id.slot,
                   IF q.subs[id.slot].npend = 0 THEN NoSub
                   ELSE [q.subs[id.slot] EXCEPT !.gone = q.subs[id.slot].gone \cup {"reader"}])
<1> DEFINE s == id.slot
           sub == [q.subs[s] EXCEPT !.gone = q.subs[s].gone \cup {"reader"}]
           y == [q EXCEPT !.subs = [q.subs EXCEPT ![s] = sub]]
<1>1. s \in Slots /\ q.subs[s] \in SubQ BY SubFacts DEF Live, AttachId
<1>2. sub \in SubQ BY <1>1 DEF SubQ, Gone
<1>3. y = [q EXCEPT !.subs[s].gone = @ \cup {"reader"}] BY DEF QueInner
<1>4. y \in QueInner /\ Reslots(q, y, s, sub)
  <2> HIDE DEF sub
  <2> QED BY <1>1, <1>2 DEF Reslots, QueInner
<1>5. close_reader(q, id) = IF q.subs[s].npend = 0 THEN free_slot(y, s) ELSE y
    BY <1>3 DEF close_reader
<1> HIDE DEF y
<1>6. Reslots(y, free_slot(y, s), s, NoSub) BY <1>4 DEF free_slot, Reslots, QueInner
<1>7. Reslots(q, free_slot(y, s), s, NoSub)
  <2> HIDE DEF sub
  <2>1. [y.subs EXCEPT ![s] = NoSub] = [q.subs EXCEPT ![s] = NoSub]
      BY <1>1, <1>4 DEF Reslots, QueInner
  <2> QED BY <1>4, <1>6, <2>1 DEF Reslots
<1> QED BY <1>4, <1>5, <1>7

\* take_ended reports the end of one stream.
LEMMA TakeEndedFields ==
    ASSUME NEW q \in QueInner, NEW s \in Ended(q)
    PROVE  Reslots(q, take_ended(q, s), s, [q.subs[s] EXCEPT !.end_reported = TRUE])
BY DEF take_ended, Reslots, QueInner

\* try_attach fills a free slot.
LEMMA AttachFields ==
    ASSUME NEW q \in QueInner, NEW gen, NEW s \in Slots, NEW kind
    PROVE  Reslots(q, try_attach(q, gen, s, kind), s,
                   [id |-> [gen |-> gen, slot |-> s], kind |-> kind, npend |-> 0,
                    last |-> 0, gone |-> {}, end_reported |-> FALSE])
BY DEF try_attach, Reslots, QueInner

\* A new queue is empty and in nobody's burst or pass.
LEMMA NewQueFields ==
    /\ NewQue.used = 0 /\ NewQue.taken = 0 /\ NewQue.n_duplicates = 0 /\ NewQue.getix = 0
    /\ NewQue.draining = FALSE /\ NewQue.in_burst = FALSE
    /\ NewQue.subs = [s \in Slots |-> NoSub] /\ NewQue.ring = [p \in Places |-> NoEntry]
BY DEF NewQue

\* ix: the place k behind the head has age k.
LEMMA IxAge ==
    ASSUME NEW q \in QueInner, NEW k \in Nat, k < size
    PROVE  ix(q, k) \in Places /\ Age(q, ix(q, k)) = k
<1> DEFINE g == q.getix
           p == ix(q, k)
<1>1. g \in Nat /\ g < size /\ size \in Nat BY HeadAge, PlaceFacts
<1>2. /\ p = IF g + k >= size THEN g + k - size ELSE g + k
      /\ p \in Nat /\ p < size
    BY <1>1 DEF ix, wrap
<1>3. p \in Places BY <1>2, PlaceFacts
<1> HIDE DEF p
<1>4. Age(q, p) = IF p >= g THEN p - g ELSE p + size - g BY <1>3, AgeFacts
<1>5. Age(q, p) = k BY <1>1, <1>2, <1>4
<1> QED BY <1>3, <1>5 DEF p

\* n_duplicates is only positive when some monitor has two entries queued: else
\* the entries, at most one a monitor, would be as many as the monitors with
\* entries.
LEMMA DuplicatesMean ==
    ASSUME NEW q, QueOK(q), q.n_duplicates > 0
    PROVE  \E s \in Slots : q.subs[s] # NoSub /\ q.subs[s].npend > 1
<1> SUFFICES ASSUME ~(\E s \in Slots : q.subs[s] # NoSub /\ q.subs[s].npend > 1) PROVE FALSE
    OBVIOUS
<1> DEFINE T == 1 .. q.used
           f == [k \in T |-> q.ring[ix(q, k - 1)].id.slot]
<1>1. q \in QueInner /\ q.used \in Nat /\ q.n_duplicates \in Nat /\ q.used < size
    BY DEF QueOK, QueInner, RingOK, NeverFull
<1>2. ASSUME NEW k \in T
      PROVE  /\ ix(q, k - 1) \in Places /\ Age(q, ix(q, k - 1)) = k - 1
             /\ f[k] \in Pending(q)
             /\ ix(q, k - 1) \in EntriesOf(q, q.subs[f[k]].id)
             /\ Cardinality(EntriesOf(q, q.subs[f[k]].id)) = 1
  <2> DEFINE p == ix(q, k - 1)
             id == q.ring[p].id
  <2>1. k - 1 \in Nat /\ k - 1 < size /\ k - 1 < q.used BY <1>1, SizeFacts
  <2>2. p \in Places /\ Age(q, p) = k - 1 BY <1>1, <2>1, IxAge
  <2>3. f[k] = id.slot OBVIOUS
  <2> HIDE DEF p
  <2>4. p \in Occupied(q) BY <2>1, <2>2 DEF QueOK, RingOK, Contiguous, Occupied
  <2>5. Live(q, id) /\ id \in AttachId
      BY <1>1, <2>4 DEF QueOK, RingOK, Contiguous, Occupied, QueInner, Entry
  <2>6. id.slot \in Attached(q) /\ q.subs[id.slot].id = id /\ id.slot \in Slots
      BY <2>5 DEF Live, Attached, AttachId
  <2>7. p \in EntriesOf(q, id) BY <2>4 DEF EntriesOf
  <2> HIDE DEF id
  <2>8. /\ q.subs[id.slot].npend = Cardinality(EntriesOf(q, id))
        /\ IsFiniteSet(EntriesOf(q, id)) /\ Cardinality(EntriesOf(q, id)) \in Nat
      BY <1>1, <2>6, SetFacts DEF QueOK, RingOK, NpendCounts
  <2>9. Cardinality(EntriesOf(q, id)) # 0 BY <2>7, <2>8, FS_EmptySet
  <2>10. ~(q.subs[id.slot].npend > 1) BY <2>6 DEF Attached
  <2>11. q.subs[id.slot].npend = 1 BY <2>8, <2>9, <2>10
  <2>12. id.slot \in Pending(q) BY <2>6, <2>11 DEF Pending
  <2> QED BY <2>2, <2>3, <2>6, <2>7, <2>8, <2>11, <2>12 DEF p
<1>3. f \in [T -> Pending(q)] BY <1>2
<1>4. \A k, l \in T : f[k] = f[l] => k = l
  <2> SUFFICES ASSUME NEW k \in T, NEW l \in T, f[k] = f[l] PROVE k = l OBVIOUS
  <2> DEFINE E == EntriesOf(q, q.subs[f[k]].id)
  <2>1. ix(q, k - 1) \in E /\ ix(q, l - 1) \in E /\ Cardinality(E) = 1 /\ IsFiniteSet(E)
      BY <1>1, <1>2, SetFacts
  <2>2. PICK x : E = {x} BY <2>1, FS_Singleton
  <2>3. ix(q, k - 1) = ix(q, l - 1) BY <2>1, <2>2
  <2>4. k - 1 = l - 1 BY <1>2, <2>3
  <2> QED BY <1>1, <2>4
<1> HIDE DEF f
<1>5. IsFiniteSet(T) /\ Cardinality(T) = q.used
  <2>1. 1 \in Int /\ q.used \in Int BY <1>1
  <2>2. IsFiniteSet(T) /\ Cardinality(T) = IF 1 > q.used THEN 0 ELSE q.used - 1 + 1
      BY <2>1, FS_Interval
  <2> QED BY <1>1, <2>2
<1>6. IsFiniteSet(Pending(q)) /\ Cardinality(Pending(q)) \in Nat BY <1>1, SetFacts
<1> HIDE DEF T
<1>7. ~(Cardinality(Pending(q)) < Cardinality(T))
    BY <1>3, <1>4, <1>5, <1>6, FS_PigeonHole
<1>8. q.n_duplicates + Cardinality(Pending(q)) = q.used
    BY DEF QueOK, RingOK, DuplicatesCount
<1> QED BY <1>1, <1>5, <1>6, <1>7, <1>8

-----------------------------------------------------------------------------
(* The entries of the monitors after each operation.                       *)

\* An append adds one entry, the ring's newest, to its own monitor.
LEMMA AppendEntries ==
    ASSUME NEW q, QueOK(q), NEW id, NEW log, NEW r, Appends(q, r, id, log), ForKind(log, q.subs[id.slot].kind) \in PostLog,
           id \in AttachId
    PROVE  LET t == TailPlace(q)
           IN  /\ t \in Places /\ t \notin Occupied(q)
               /\ EntriesOf(r, id) = EntriesOf(q, id) \cup {t}
               /\ \A x : x # id => EntriesOf(r, x) = EntriesOf(q, x)
               /\ r.ring[t].log = ForKind(log, q.subs[id.slot].kind)
               /\ \A p \in Occupied(q) : r.ring[p] = q.ring[p]
               /\ \A p : Age(r, p) = Age(q, p)
               /\ \A p \in Occupied(q) : Age(q, p) \in Nat /\ Age(q, p) < Age(q, t)
               /\ Age(q, t) = q.used
<1> DEFINE t == TailPlace(q)
           e == [id |-> id, log |-> ForKind(log, q.subs[id.slot].kind)]
<1>1. q \in QueInner /\ q.used < size /\ q.used \in Nat
    BY DEF QueOK, RingOK, NeverFull, QueInner
<1>2. t \in Places /\ Age(q, t) = q.used BY <1>1, TailFacts
<1>3. \A p \in Occupied(q) : p \in Places /\ Age(q, p) \in Nat /\ Age(q, p) < q.used
    BY <1>1, AgeFacts, PlaceFacts DEF QueOK, RingOK, Contiguous, Occupied
<1>4. t \notin Occupied(q) BY <1>1, <1>2, <1>3
<1>5. r.ring = [q.ring EXCEPT ![t] = e] /\ r.getix = q.getix BY DEF Appends
<1>6. e \in Entry BY DEF Entry
<1> HIDE DEF t
<1>7. r.ring[t] = e /\ \A p \in Places : p # t => r.ring[p] = q.ring[p]
    BY <1>1, <1>2, <1>5 DEF QueInner
<1>8. e # NoEntry BY <1>6, SentinelAssumption
<1>9. \A p \in Occupied(q) : r.ring[p] = q.ring[p] BY <1>3, <1>4, <1>7
<1>10. Occupied(r) = Occupied(q) \cup {t} BY <1>2, <1>7, <1>8 DEF Occupied
<1>11. EntriesOf(r, id) = EntriesOf(q, id) \cup {t} BY <1>4, <1>7, <1>9, <1>10 DEF EntriesOf
<1>12. ASSUME NEW x, x # id PROVE EntriesOf(r, x) = EntriesOf(q, x)
    BY <1>4, <1>7, <1>9, <1>10, <1>12 DEF EntriesOf
<1>13. \A p : Age(r, p) = Age(q, p) BY <1>5 DEF Age
<1> QED BY <1>2, <1>3, <1>4, <1>7, <1>9, <1>11, <1>12, <1>13 DEF t

\* A replace or a collapse changes one entry's log.
LEMMA RelogEntries ==
    ASSUME NEW q, QueOK(q), NEW l \in Occupied(q), NEW lg \in PostLog, NEW r, Relogs(q, r, l, lg)
    PROVE  /\ \A x : EntriesOf(r, x) = EntriesOf(q, x)
           /\ r.ring[l].log = lg /\ \A p \in Occupied(q) : p # l => r.ring[p] = q.ring[p]
           /\ \A p : Age(r, p) = Age(q, p)
<1> DEFINE e == [q.ring[l] EXCEPT !.log = lg]
<1>1. q \in QueInner /\ l \in Places /\ q.ring[l] \in Entry
    BY DEF QueOK, QueInner, Occupied
<1>2. r.ring = [q.ring EXCEPT ![l] = e] /\ r.getix = q.getix BY DEF Relogs
<1>3. e \in Entry /\ e.id = q.ring[l].id /\ e.log = lg BY <1>1 DEF Entry
<1> HIDE DEF e
<1>4. e # NoEntry BY <1>3, SentinelAssumption
<1>5. r.ring[l] = e /\ \A p \in Places : p # l => r.ring[p] = q.ring[p]
    BY <1>1, <1>2 DEF QueInner
<1>6. Occupied(r) = Occupied(q) BY <1>1, <1>4, <1>5 DEF Occupied
<1>7. \A p \in Occupied(q) : p # l => r.ring[p] = q.ring[p] BY <1>5 DEF Occupied
<1>8. ASSUME NEW x PROVE EntriesOf(r, x) = EntriesOf(q, x)
    BY <1>3, <1>5, <1>6, <1>7 DEF EntriesOf
<1>9. \A p : Age(r, p) = Age(q, p) BY <1>2 DEF Age
<1> QED BY <1>3, <1>5, <1>7, <1>8, <1>9

\* Taking the head removes one entry and brings the others one place nearer.
LEMMA AdvanceEntries ==
    ASSUME NEW q, QueOK(q), q.used > 0, NEW r, Advances(q, r)
    PROVE  /\ \A x : EntriesOf(r, x) = EntriesOf(q, x) \ {q.getix}
           /\ \A p \in Occupied(q) : p # q.getix => r.ring[p] = q.ring[p] /\ Age(r, p) = Age(q, p) - 1
           /\ \A p \in Occupied(q) : /\ p \in Places /\ Age(q, p) \in Nat
                                     /\ p # q.getix => Age(q, p) > 0
           /\ Age(q, q.getix) = 0
<1> DEFINE g == q.getix
<1>1. q \in QueInner /\ g \in Places /\ Age(q, g) = 0 BY HeadAge DEF QueOK
<1>2. r.ring = [q.ring EXCEPT ![g] = NoEntry] /\ r.getix = ix(q, 1) BY DEF Advances
<1>3. r.ring[g] = NoEntry /\ \A p \in Places : p # g => r.ring[p] = q.ring[p]
    BY <1>1, <1>2 DEF QueInner
<1>4. \A p \in Places : Age(r, p) = IF p = g THEN size - 1 ELSE Age(q, p) - 1
    BY <1>1, <1>2, AdvanceAge
<1> HIDE DEF g
<1>5. \A p \in Occupied(q) : p \in Places BY DEF Occupied
<1>6. \A p \in Occupied(q) : Age(q, p) \in Nat /\ (p # g => Age(q, p) > 0)
  <2> SUFFICES ASSUME NEW p \in Occupied(q) PROVE Age(q, p) \in Nat /\ (p # g => Age(q, p) > 0)
      OBVIOUS
  <2>1. p \in Places /\ Age(q, p) \in Nat BY <1>1, <1>5, AgeFacts, PlaceFacts
  <2>2. Age(q, p) = 0 => p = g BY <1>1, <2>1, AgeInjective
  <2> QED BY <2>1, <2>2
<1>7. ASSUME NEW x PROVE EntriesOf(r, x) = EntriesOf(q, x) \ {g}
    BY <1>1, <1>3 DEF EntriesOf, Occupied
<1> QED BY <1>1, <1>3, <1>4, <1>5, <1>6, <1>7 DEF g

-----------------------------------------------------------------------------
(* An entry brought to the head from behind it.                            *)

\* Where each place's entry is once the one k places back is at the head.
Moved(q, k) ==
    [p \in Places |-> IF Age(q, p) > k THEN p
                      ELSE IF Age(q, p) = k THEN q.getix ELSE wrap(p + 1)]

\* The next place is one further from the head.
LEMMA NextAge ==
    ASSUME NEW q \in QueInner, NEW p \in Places, Age(q, p) + 1 < size
    PROVE  wrap(p + 1) \in Places /\ Age(q, wrap(p + 1)) = Age(q, p) + 1
<1>1. /\ q.getix \in Nat /\ q.getix < size /\ p \in Nat /\ p < size /\ size \in Nat
      /\ Age(q, p) = IF p >= q.getix THEN p - q.getix ELSE p + size - q.getix
    BY AgeFacts, HeadAge, PlaceFacts
<1>2. wrap(p + 1) = IF p + 1 >= size THEN 0 ELSE p + 1 BY <1>1 DEF wrap
<1>3. wrap(p + 1) \in Places BY <1>1, <1>2, PlaceFacts
<1>4. Age(q, wrap(p + 1)) = IF wrap(p + 1) >= q.getix THEN wrap(p + 1) - q.getix
                           ELSE wrap(p + 1) + size - q.getix
    BY <1>3, AgeFacts
<1> QED BY <1>1, <1>2, <1>3, <1>4

\* The move is one to one, and the ages of the entries ahead grow by one.
LEMMA MovedFacts ==
    ASSUME NEW q \in QueInner, NEW k \in Nat, k < size
    PROVE  LET f == Moved(q, k)
           IN  /\ f \in [Places -> Places]
               /\ \A p \in Places : Age(q, f[p]) = IF Age(q, p) > k THEN Age(q, p)
                                                   ELSE IF Age(q, p) = k THEN 0 ELSE Age(q, p) + 1
               /\ \A p, s \in Places : f[p] = f[s] => p = s
               /\ \A x \in Places : \E p \in Places : f[p] = x
               /\ \A p \in Places : ToHead(q, k).ring[f[p]] = q.ring[p]
<1> DEFINE f == Moved(q, k)
<1>1. \A p \in Places : f[p] = IF Age(q, p) > k THEN p
                               ELSE IF Age(q, p) = k THEN q.getix ELSE wrap(p + 1)
    BY DEF Moved
<1>2. \A p \in Places : Age(q, p) \in Nat /\ Age(q, p) < size BY AgeFacts, PlaceFacts
<1>3. size \in Nat BY PlaceFacts
<1> HIDE DEF f
<1>4. ASSUME NEW p \in Places
      PROVE  /\ f[p] \in Places
             /\ Age(q, f[p]) = IF Age(q, p) > k THEN Age(q, p)
                               ELSE IF Age(q, p) = k THEN 0 ELSE Age(q, p) + 1
  <2>1. CASE Age(q, p) > k BY <1>1, <2>1
  <2>2. CASE Age(q, p) = k
    <3>1. ~(Age(q, p) > k) BY <2>2
    <3>2. f[p] = q.getix BY <1>1, <2>2, <3>1
    <3> QED BY <2>2, <3>1, <3>2, HeadAge
  <2>3. CASE Age(q, p) < k
    <3>1. ~(Age(q, p) > k) /\ Age(q, p) # k /\ Age(q, p) + 1 < size BY <1>2, <1>3, <2>3
    <3>2. f[p] = wrap(p + 1) BY <1>1, <3>1
    <3> QED BY <3>1, <3>2, NextAge
  <2> QED BY <1>2, <2>1, <2>2, <2>3
<1>5. f \in [Places -> Places] BY <1>4 DEF f, Moved
<1>6. ASSUME NEW p \in Places, NEW s \in Places, f[p] = f[s] PROVE p = s
  <2>1. Age(q, f[p]) = Age(q, f[s]) BY <1>6
  <2>2. Age(q, p) = Age(q, s) BY <1>2, <1>4, <2>1
  <2> QED BY <2>2, AgeInjective
<1>7. \A a \in Nat : a < size => ix(q, a) \in Places /\ Age(q, ix(q, a)) = a BY IxAge
<1>8. ASSUME NEW x \in Places PROVE \E p \in Places : f[p] = x
  <2>1. CASE Age(q, x) > k BY <1>1, <2>1
  <2>2. CASE Age(q, x) = 0
    <3>1. Age(q, f[ix(q, k)]) = 0 /\ ix(q, k) \in Places BY <1>4, <1>7
    <3>2. f[ix(q, k)] = x BY <1>4, <2>2, <3>1, AgeInjective
    <3> QED BY <3>1, <3>2
  <2>3. CASE ~(Age(q, x) > k) /\ Age(q, x) # 0
    <3>1. Age(q, x) - 1 \in Nat /\ Age(q, x) - 1 < size /\ Age(q, x) - 1 < k BY <1>2, <1>3, <2>3
    <3> DEFINE p == ix(q, Age(q, x) - 1)
    <3>2. p \in Places /\ Age(q, p) = Age(q, x) - 1 BY <1>7, <3>1
    <3> HIDE DEF p
    <3>3. Age(q, f[p]) = Age(q, x) BY <1>2, <1>4, <3>1, <3>2
    <3>4. f[p] = x BY <1>4, <3>2, <3>3, AgeInjective
    <3> QED BY <3>2, <3>4
  <2> QED BY <2>1, <2>2, <2>3
<1>9. ASSUME NEW p \in Places PROVE ToHead(q, k).ring[f[p]] = q.ring[p]
  <2>1. \A x \in Places : ToHead(q, k).ring[x] =
            IF Age(q, x) <= k
            THEN q.ring[IF Age(q, x) = 0 THEN ix(q, k) ELSE ix(q, Age(q, x) - 1)]
            ELSE q.ring[x]
      BY DEF ToHead, QueInner
  <2>2. ix(q, Age(q, p)) = p BY <1>2, <1>7, AgeInjective
  <2>3. CASE Age(q, p) > k
    <3>1. f[p] = p /\ ~(Age(q, f[p]) <= k) BY <1>1, <1>2, <2>3
    <3> QED BY <2>1, <3>1
  <2>4. CASE Age(q, p) = k
    <3>1. Age(q, f[p]) = 0 BY <1>2, <1>4, <2>4
    <3> QED BY <1>4, <2>1, <2>2, <2>4, <3>1
  <2>5. CASE Age(q, p) < k
    <3>1. Age(q, f[p]) = Age(q, p) + 1 BY <1>2, <1>4, <2>5
    <3>2. Age(q, f[p]) <= k /\ Age(q, f[p]) # 0 /\ Age(q, f[p]) - 1 = Age(q, p) BY <1>2, <2>5, <3>1
    <3> QED BY <1>4, <2>1, <2>2, <3>2
  <2> QED BY <1>2, <2>3, <2>4, <2>5
<1> QED BY <1>4, <1>5, <1>6, <1>8, <1>9 DEF f

\* q with the entry k places back at its head, and every newest-entry mark
\* where its entry went.
Rotated(q, k) ==
    [q EXCEPT !.ring = ToHead(q, k).ring,
              !.subs = [s \in Slots |-> IF q.subs[s] # NoSub /\ q.subs[s].npend > 0
                                        THEN [q.subs[s] EXCEPT !.last = Moved(q, k)[q.subs[s].last]]
                                        ELSE q.subs[s]]]

\* r's slots are q's but for the marks of the newest entries.
Remarks(q, r) ==
    \A s \in Slots :
        /\ r.subs[s] = NoSub <=> q.subs[s] = NoSub
        /\ q.subs[s] # NoSub => /\ r.subs[s].id = q.subs[s].id /\ r.subs[s].kind = q.subs[s].kind
                                /\ r.subs[s].npend = q.subs[s].npend /\ r.subs[s].gone = q.subs[s].gone
                                /\ r.subs[s].end_reported = q.subs[s].end_reported

\* The fields of such a queue, and its entries: each where it was moved to.
LEMMA RotatedEntries ==
    ASSUME NEW q, QueOK(q), NEW k \in Nat, k < q.used
    PROVE  LET f == Moved(q, k)
               r == Rotated(q, k)
           IN  /\ r \in QueInner /\ r.getix = q.getix /\ r.used = q.used
               /\ r.n_duplicates = q.n_duplicates /\ r.quota = q.quota /\ r.free = q.free
               /\ r.unreported_ends = q.unreported_ends
               /\ Remarks(q, r)
               /\ \A s \in Pending(q) : r.subs[s].last = f[q.subs[s].last]
               /\ \A p \in Places : r.ring[f[p]] = q.ring[p]
               /\ \A x : EntriesOf(r, x) = {f[p] : p \in EntriesOf(q, x)}
               /\ \A p : Age(r, p) = Age(q, p)
<1> DEFINE f == Moved(q, k)
           r == Rotated(q, k)
           T == ToHead(q, k).ring
           sub(s) == [q.subs[s] EXCEPT !.last = f[q.subs[s].last]]
<1>1. q \in QueInner /\ q.used \in Nat /\ q.used < size /\ k < size /\ size \in Nat
    BY PlaceFacts DEF QueOK, RingOK, NeverFull, QueInner
<1>2. /\ f \in [Places -> Places]
      /\ \A x \in Places : \E p \in Places : f[p] = x
      /\ \A p \in Places : T[f[p]] = q.ring[p]
  <2>1. /\ f \in [Places -> Places]
        /\ \A p \in Places : Age(q, f[p]) = IF Age(q, p) > k THEN Age(q, p)
                                            ELSE IF Age(q, p) = k THEN 0 ELSE Age(q, p) + 1
        /\ \A p, s \in Places : f[p] = f[s] => p = s
        /\ \A x \in Places : \E p \in Places : f[p] = x
        /\ \A p \in Places : ToHead(q, k).ring[f[p]] = q.ring[p]
      BY <1>1, MovedFacts
  <2> HIDE DEF f
  <2> QED BY <2>1
<1>3. T \in [Places -> Entry \cup {NoEntry}]
  <2>1. \A x \in Places : T[x] \in Entry \cup {NoEntry}
    <3> SUFFICES ASSUME NEW x \in Places PROVE T[x] \in Entry \cup {NoEntry} OBVIOUS
    <3>1. PICK p \in Places : f[p] = x BY <1>2
    <3>2. T[x] = q.ring[p] BY <1>2, <3>1
    <3> QED BY <1>1, <3>2 DEF QueInner
  <2>2. T = [p \in Places |-> T[p]] BY <1>1 DEF ToHead, QueInner
  <2> QED BY <2>1, <2>2
<1> HIDE DEF f, T
<1>4. /\ r.ring = T /\ r.getix = q.getix /\ r.used = q.used
      /\ r.n_duplicates = q.n_duplicates /\ r.quota = q.quota /\ r.free = q.free
      /\ r.unreported_ends = q.unreported_ends
      /\ r.subs = [s \in Slots |-> IF q.subs[s] # NoSub /\ q.subs[s].npend > 0 THEN sub(s) ELSE q.subs[s]]
    BY <1>1 DEF Rotated, QueInner, f, T
<1>5. ASSUME NEW s \in Slots, q.subs[s] # NoSub
      PROVE  /\ sub(s) \in SubQ /\ sub(s).id = q.subs[s].id /\ sub(s).kind = q.subs[s].kind
             /\ sub(s).npend = q.subs[s].npend /\ sub(s).gone = q.subs[s].gone
             /\ sub(s).end_reported = q.subs[s].end_reported
             /\ sub(s).last = f[q.subs[s].last] /\ sub(s) # NoSub
  <2>1. q.subs[s] \in SubQ /\ q.subs[s].last \in Places BY <1>1, <1>5, SubFacts
  <2>2. f[q.subs[s].last] \in Places BY <1>2, <2>1
  <2>3. sub(s) \in SubQ BY <2>1, <2>2 DEF SubQ
  <2> QED BY <2>1, <2>3, SentinelAssumption DEF SubQ
<1> HIDE DEF sub
<1>6. r.subs \in [Slots -> SubQ \cup {NoSub}]
    BY <1>1, <1>4, <1>5, SubFacts
<1>7. r \in QueInner
  <2>1. r = [q EXCEPT !.ring = r.ring, !.subs = r.subs] BY <1>1 DEF Rotated, QueInner
  <2>2. r.ring \in [Places -> Entry \cup {NoEntry}] BY <1>3, <1>4
  <2> HIDE DEF r
  <2>3. DEFINE a == r.ring
               b == r.subs
  <2> HIDE DEF a, b
  <2>4. [q EXCEPT !.ring = a, !.subs = b] \in QueInner BY <1>1, <1>6, <2>2 DEF QueInner, a, b
  <2> QED BY <2>1, <2>4 DEF a, b
<1>8. Remarks(q, r) BY <1>4, <1>5 DEF Remarks
<1>9. \A s \in Pending(q) : r.subs[s].last = f[q.subs[s].last]
    BY <1>4, <1>5 DEF Pending, Attached
<1>10. \A p \in Places : r.ring[f[p]] = q.ring[p] BY <1>2, <1>4
<1>11. ASSUME NEW x PROVE EntriesOf(r, x) = {f[p] : p \in EntriesOf(q, x)}
  <2> HIDE DEF r
  <2>1. ASSUME NEW y \in EntriesOf(r, x) PROVE y \in {f[p] : p \in EntriesOf(q, x)}
    <3>1. y \in Places /\ r.ring[y] # NoEntry /\ r.ring[y].id = x BY DEF EntriesOf, Occupied
    <3>2. PICK p \in Places : f[p] = y BY <1>2, <3>1
    <3>3. p \in EntriesOf(q, x) BY <1>10, <3>1, <3>2 DEF EntriesOf, Occupied
    <3> QED BY <3>2, <3>3
  <2>2. ASSUME NEW p \in EntriesOf(q, x) PROVE f[p] \in EntriesOf(r, x)
    <3>1. p \in Places BY DEF EntriesOf, Occupied
    <3>2. f[p] \in Places /\ r.ring[f[p]] = q.ring[p] BY <1>2, <1>10, <3>1
    <3> QED BY <3>2 DEF EntriesOf, Occupied
  <2> QED BY <2>1, <2>2
<1>12. \A p : Age(r, p) = Age(q, p) BY <1>4 DEF Age
<1> QED BY <1>4, <1>7, <1>8, <1>9, <1>10, <1>11, <1>12 DEF f

\* Slots that differ in the marks of the newest entries only.
LEMMA RemarkSlots ==
    ASSUME NEW q \in QueInner, NEW r \in QueInner, Remarks(q, r), SlotsOK(q),
           r.quota = q.quota, r.free = q.free, r.unreported_ends = q.unreported_ends
    PROVE  /\ SlotsOK(r) /\ Attached(r) = Attached(q) /\ Pending(r) = Pending(q)
           /\ \A id \in AttachId : Live(r, id) <=> Live(q, id)
<1>1. Attached(r) = Attached(q) /\ Pending(r) = Pending(q)
    BY DEF Remarks, Attached, Pending
<1>2. \A id \in AttachId : Live(r, id) <=> Live(q, id) BY DEF Remarks, Live, AttachId
<1>3. \A s \in Attached(q) : /\ s \in Slots /\ r.subs[s].id = q.subs[s].id
                             /\ r.subs[s].npend = q.subs[s].npend /\ r.subs[s].gone = q.subs[s].gone
                             /\ r.subs[s].end_reported = q.subs[s].end_reported
    BY DEF Remarks, Attached
<1>4. \A s \in Attached(q) : /\ Unreported(r.subs[s]) <=> Unreported(q.subs[s])
                             /\ reader_gone(r.subs[s]) <=> reader_gone(q.subs[s])
                             /\ producer_gone(r.subs[s]) <=> producer_gone(q.subs[s])
    BY <1>3 DEF Unreported, reader_gone, producer_gone
<1>5. {s \in Attached(r) : Unreported(r.subs[s])} = {s \in Attached(q) : Unreported(q.subs[s])}
    BY <1>1, <1>4
<1>6. EndsCounted(r)
  <2>1. EndsCounted(q) BY DEF SlotsOK
  <2>2. r.unreported_ends = Cardinality({s \in Attached(r) : Unreported(r.subs[s])})
      BY <1>5, <2>1 DEF EndsCounted
  <2>3. \A s \in Attached(r) : r.subs[s].end_reported => producer_gone(r.subs[s])
      BY <1>1, <1>3, <1>4, <2>1 DEF EndsCounted
  <2> QED BY <2>2, <2>3 DEF EndsCounted
<1>7. QuotaCounts(r) BY <1>1 DEF SlotsOK, QuotaCounts, CanAttach
<1>8. SlotsNamed(r) BY <1>1, <1>3 DEF SlotsOK, SlotsNamed
<1>9. CancelledHeld(r) BY <1>1, <1>3, <1>4 DEF SlotsOK, CancelledHeld
<1> QED BY <1>1, <1>2, <1>6, <1>7, <1>8, <1>9 DEF SlotsOK

\* A sound queue stays sound when an entry is brought to the head, those ahead
\* of it move down, and the marks with them.
LEMMA RotatedOK ==
    ASSUME NEW q, QueOK(q), NEW k \in Nat, k < q.used,
           \* the entry is its monitor's oldest
           \A p \in EntriesOf(q, q.ring[ix(q, k)].id) : k <= Age(q, p)
    PROVE  QueOK(Rotated(q, k))
<1> DEFINE f == Moved(q, k)
           r == Rotated(q, k)
<1>1. q \in QueInner /\ q.used \in Nat /\ q.used < size /\ k < size /\ size \in Nat
    BY PlaceFacts DEF QueOK, RingOK, NeverFull, QueInner
<1>2. /\ f \in [Places -> Places]
      /\ \A p \in Places : Age(q, f[p]) = IF Age(q, p) > k THEN Age(q, p)
                                          ELSE IF Age(q, p) = k THEN 0 ELSE Age(q, p) + 1
      /\ \A p, s \in Places : f[p] = f[s] => p = s
      /\ \A x \in Places : \E p \in Places : f[p] = x
      /\ \A p \in Places : ToHead(q, k).ring[f[p]] = q.ring[p]
    BY <1>1, MovedFacts
<1>3. /\ r \in QueInner /\ r.getix = q.getix /\ r.used = q.used
      /\ r.n_duplicates = q.n_duplicates /\ r.quota = q.quota /\ r.free = q.free
      /\ r.unreported_ends = q.unreported_ends
      /\ Remarks(q, r)
      /\ \A s \in Pending(q) : r.subs[s].last = f[q.subs[s].last]
      /\ \A p \in Places : r.ring[f[p]] = q.ring[p]
      /\ \A x : EntriesOf(r, x) = {f[p] : p \in EntriesOf(q, x)}
      /\ \A p : Age(r, p) = Age(q, p)
    BY RotatedEntries
<1>4. \A p \in Places : Age(q, p) \in Nat /\ Age(q, p) < size BY <1>1, AgeFacts, PlaceFacts
<1>5. SlotsOK(q) /\ RingOK(q) BY DEF QueOK
<1> HIDE DEF f, r
<1>6. /\ SlotsOK(r) /\ Attached(r) = Attached(q) /\ Pending(r) = Pending(q)
      /\ \A id \in AttachId : Live(r, id) <=> Live(q, id)
    BY <1>1, <1>3, <1>5, RemarkSlots
<1>7. Contiguous(r)
  <2>1. Contiguous(q) BY <1>5 DEF RingOK
  <2>2. ASSUME NEW x \in Places PROVE r.ring[x] # NoEntry <=> Age(r, x) < r.used
    <3>1. PICK p \in Places : f[p] = x BY <1>2
    <3>2. r.ring[x] = q.ring[p] BY <1>3, <3>1
    <3>3. Age(q, x) < q.used <=> Age(q, p) < q.used BY <1>1, <1>2, <1>4, <3>1
    <3> QED BY <1>3, <2>1, <3>2, <3>3 DEF Contiguous
  <2>3. ASSUME NEW x \in Occupied(r) PROVE Live(r, r.ring[x].id)
    <3>1. x \in Places /\ r.ring[x] # NoEntry BY DEF Occupied
    <3>2. PICK p \in Places : f[p] = x BY <1>2, <3>1
    <3>3. r.ring[x] = q.ring[p] BY <1>3, <3>2
    <3>4. p \in Occupied(q) BY <3>1, <3>3 DEF Occupied
    <3>5. Live(q, q.ring[p].id) BY <2>1, <3>4 DEF Contiguous
    <3>6. q.ring[p].id \in AttachId BY <1>1, <3>4 DEF Occupied, QueInner, Entry
    <3> QED BY <1>6, <3>3, <3>5, <3>6
  <2> QED BY <2>2, <2>3 DEF Contiguous
<1>8. \A x : EntriesOf(q, x) \subseteq Places BY DEF EntriesOf, Occupied
<1>9. ASSUME NEW x PROVE Cardinality(EntriesOf(r, x)) = Cardinality(EntriesOf(q, x))
  <2> DEFINE S == EntriesOf(q, x)
             T == EntriesOf(r, x)
             g == [p \in S |-> f[p]]
  <2>1. IsFiniteSet(S) BY <1>1, SetFacts
  <2>2. S \subseteq Places BY <1>8
  <2>3. T = {f[p] : p \in S} BY <1>3
  <2> HIDE DEF S, T
  <2>4. g \in Surjection(S, T) BY <2>3 DEF Surjection
  <2>5. \A p, s \in S : f[p] = f[s] => p = s BY <1>2, <2>2
  <2>6. g \in Injection(S, T)
    <3>1. g \in [S -> T] /\ \A p \in S : g[p] = f[p] BY <2>3
    <3> HIDE DEF g
    <3>2. \A p, s \in S : g[p] = g[s] => p = s BY <2>5, <3>1
    <3> QED BY <3>1, <3>2 DEF Injection, IsInjective
  <2>7. Cardinality(T) = Cardinality(S) BY <2>1, <2>4, <2>6, FS_Surjection
  <2> QED BY <2>7 DEF S, T
<1>10. \A s \in Attached(q) : /\ s \in Slots /\ r.subs[s].id = q.subs[s].id
                              /\ r.subs[s].npend = q.subs[s].npend
    BY <1>3 DEF Remarks, Attached
<1>11. NpendCounts(r) BY <1>5, <1>6, <1>9, <1>10 DEF RingOK, NpendCounts
<1>12. LastIsNewest(r)
  <2> SUFFICES ASSUME NEW s \in Pending(q)
               PROVE  /\ r.subs[s].last \in EntriesOf(r, r.subs[s].id)
                      /\ \A x \in EntriesOf(r, r.subs[s].id) : Age(r, x) <= Age(r, r.subs[s].last)
      BY <1>6 DEF LastIsNewest
  <2> DEFINE id == q.subs[s].id
             l == q.subs[s].last
             E == EntriesOf(q, id)
  <2>1. r.subs[s].id = id /\ r.subs[s].last = f[l] BY <1>3, <1>10 DEF Pending
  <2>2. l \in E /\ \A p \in E : Age(q, p) <= Age(q, l) BY <1>5 DEF RingOK, LastIsNewest
  <2>3. E \subseteq Places BY <1>8
  <2>4. EntriesOf(r, id) = {f[p] : p \in E} BY <1>3
  <2>5. Age(q, l) = k => \A p \in E : Age(q, p) = k
    <3> SUFFICES ASSUME Age(q, l) = k, NEW p \in E PROVE Age(q, p) = k OBVIOUS
    <3>1. ix(q, k) \in Places /\ Age(q, ix(q, k)) = k BY <1>1, IxAge
    <3>2. ix(q, k) = l BY <1>1, <2>2, <2>3, <3>1, AgeInjective
    <3>3. q.ring[l].id = id BY <2>2 DEF EntriesOf
    <3>4. k <= Age(q, p) BY <3>2, <3>3
    <3>5. Age(q, p) \in Nat /\ Age(q, p) <= Age(q, l) BY <1>4, <2>2, <2>3
    <3> QED BY <3>4, <3>5
  <2> HIDE DEF id, l, E
  <2>6. ASSUME NEW p \in E PROVE Age(q, f[p]) <= Age(q, f[l])
    <3>1. p \in Places /\ l \in Places /\ Age(q, p) \in Nat /\ Age(q, l) \in Nat /\ Age(q, p) <= Age(q, l)
        BY <1>4, <2>2, <2>3
    <3>2. CASE Age(q, l) = k
      <4>1. Age(q, p) = k BY <2>5, <3>2
      <4> QED BY <1>2, <3>1, <3>2, <4>1
    <3>3. CASE Age(q, l) # k BY <1>2, <3>1, <3>3
    <3> QED BY <3>2, <3>3
  <2> QED BY <1>3, <2>1, <2>2, <2>4, <2>6
<1>13. DuplicatesCount(r) /\ Headroom(r) /\ NeverFull(r)
    BY <1>3, <1>5, <1>6 DEF RingOK, DuplicatesCount, Headroom, NeverFull
<1> QED BY <1>3, <1>6, <1>7, <1>11, <1>12, <1>13 DEF QueOK, RingOK, r

\* The mark of a monitor without entries is never read.
LEMMA MarkUnread ==
    ASSUME NEW q, QueOK(q), NEW s0 \in Slots, q.subs[s0] # NoSub, q.subs[s0].npend = 0, NEW l \in Places
    PROVE  QueOK([q EXCEPT !.subs[s0].last = l])
<1> DEFINE r == [q EXCEPT !.subs[s0].last = l]
           sub == [q.subs[s0] EXCEPT !.last = l]
<1>1. q \in QueInner /\ q.subs[s0] \in SubQ BY SubFacts DEF QueOK
<1>2. sub \in SubQ /\ sub # NoSub BY <1>1, SentinelAssumption DEF SubQ
<1>3. /\ r.ring = q.ring /\ r.getix = q.getix /\ r.used = q.used
      /\ r.n_duplicates = q.n_duplicates /\ r.quota = q.quota /\ r.free = q.free
      /\ r.unreported_ends = q.unreported_ends /\ r.subs = [q.subs EXCEPT ![s0] = sub]
    BY <1>1 DEF QueInner
<1>4. r \in QueInner
  <2>1. r = [q EXCEPT !.subs = [q.subs EXCEPT ![s0] = sub]] BY <1>1 DEF QueInner
  <2> HIDE DEF r, sub
  <2> QED BY <1>1, <1>2, <2>1 DEF QueInner
<1>5. /\ sub.id = q.subs[s0].id /\ sub.kind = q.subs[s0].kind /\ sub.npend = q.subs[s0].npend
      /\ sub.gone = q.subs[s0].gone /\ sub.end_reported = q.subs[s0].end_reported
    BY <1>1 DEF SubQ
<1> HIDE DEF r, sub
<1>6. r.subs[s0] = sub /\ \A s \in Slots : s # s0 => r.subs[s] = q.subs[s]
    BY <1>1, <1>3 DEF QueInner
<1>7. Remarks(q, r) BY <1>2, <1>5, <1>6 DEF Remarks
<1>8. SlotsOK(r) /\ Attached(r) = Attached(q) /\ Pending(r) = Pending(q)
      /\ \A id \in AttachId : Live(r, id) <=> Live(q, id)
    BY <1>1, <1>3, <1>4, <1>7, RemarkSlots DEF QueOK
<1>9. /\ Occupied(r) = Occupied(q) /\ (\A id : EntriesOf(r, id) = EntriesOf(q, id))
      /\ \A p : Age(r, p) = Age(q, p)
    BY <1>3 DEF Occupied, EntriesOf, Age
<1>10. RingOK(q) BY DEF QueOK
<1>11. \A p \in Occupied(q) : q.ring[p].id \in AttachId
    BY <1>1 DEF Occupied, QueInner, Entry
<1>12. Contiguous(r) BY <1>3, <1>8, <1>9, <1>10, <1>11 DEF RingOK, Contiguous
<1>13. NpendCounts(r) BY <1>7, <1>8, <1>9, <1>10 DEF RingOK, NpendCounts, Remarks, Attached
<1>14. s0 \notin Pending(q) BY DEF Pending
<1>15. LastIsNewest(r)
    BY <1>6, <1>8, <1>9, <1>10, <1>14 DEF RingOK, LastIsNewest, Pending, Attached
<1>16. DuplicatesCount(r) /\ Headroom(r) /\ NeverFull(r)
    BY <1>3, <1>8, <1>10 DEF RingOK, DuplicatesCount, Headroom, NeverFull
<1> QED BY <1>4, <1>8, <1>12, <1>13, <1>15, <1>16 DEF QueOK, RingOK, r

\* advance of a queue whose head's monitor keeps its slot.
LEMMA AdvanceKeeps ==
    ASSUME NEW q \in QueInner, ~reader_gone(q.subs[HeadEntry(q).id.slot])
    PROVE  advance(q) = Retired(q)
<1> DEFINE slot == HeadEntry(q).id.slot
           x == [q EXCEPT !.ring[q.getix] = NoEntry, !.getix = ix(q, 1), !.used = @ - 1,
                          !.taken = @ + 1, !.draining = q.used > 1]
           npend == q.subs[slot].npend - 1
           r == [x EXCEPT !.subs[slot].npend = npend,
                          !.n_duplicates = IF npend > 0 THEN @ - 1 ELSE @]
<1>1. x.subs = q.subs BY DEF QueInner
<1>2. advance(q) = release(x, slot) BY DEF advance
<1>3. Retired(q) = r BY DEF Retired, QueInner
<1> HIDE DEF x
<1>4. release(x, slot) = r BY <1>1 DEF release
<1> QED BY <1>2, <1>3, <1>4

\* take_for's move to the head, against one that keeps every mark right: they
\* differ in the mark of the monitor whose last entry is about to leave.
LEMMA ToHeadMarks ==
    ASSUME NEW q, QueOK(q), NEW k \in Nat, k < q.used, NEW id, q.ring[ix(q, k)].id = id
    PROVE  LET t == ToHead(q, k)
               r == Rotated(q, k)
           IN  /\ t.subs[id.slot].last \in Places
               /\ t = [r EXCEPT !.subs[id.slot].last = t.subs[id.slot].last]
               /\ Age(q, q.subs[id.slot].last) # k => t = r
<1> DEFINE t == ToHead(q, k)
           r == Rotated(q, k)
           f == Moved(q, k)
           s0 == id.slot
           new(s) == [q.subs[s] EXCEPT !.last = f[q.subs[s].last]]
           moved(s) == q.subs[s] # NoSub /\ q.subs[s].npend > 0 /\ Age(q, q.subs[s].last) < k
           held(s) == q.subs[s] # NoSub /\ q.subs[s].npend > 0
<1>1. q \in QueInner /\ q.used \in Nat /\ q.used < size /\ k < size /\ size \in Nat
    BY PlaceFacts DEF QueOK, RingOK, NeverFull, QueInner
<1>2. /\ t.subs = [s \in Slots |-> IF moved(s) THEN [q.subs[s] EXCEPT !.last = wrap(@ + 1)] ELSE q.subs[s]]
      /\ r.subs = [s \in Slots |-> IF held(s) THEN new(s) ELSE q.subs[s]]
      /\ t.ring = r.ring
    BY <1>1 DEF ToHead, Rotated, QueInner
<1>3. ASSUME NEW s \in Slots, held(s)
      PROVE  /\ q.subs[s].last \in Places /\ q.subs[s] \in SubQ
             /\ Age(q, q.subs[s].last) \in Nat /\ q.subs[s].last \in EntriesOf(q, q.subs[s].id)
             /\ Age(q, q.subs[s].last) > k => f[q.subs[s].last] = q.subs[s].last
             /\ Age(q, q.subs[s].last) < k => f[q.subs[s].last] = wrap(q.subs[s].last + 1)
  <2>1. q.subs[s].last \in Places /\ q.subs[s] \in SubQ BY <1>1, <1>3, SubFacts
  <2>2. s \in Pending(q) BY <1>3 DEF Pending, Attached
  <2>3. q.subs[s].last \in EntriesOf(q, q.subs[s].id)
      BY <2>2 DEF QueOK, RingOK, LastIsNewest
  <2>4. Age(q, q.subs[s].last) \in Nat BY <1>1, <2>1, AgeFacts, PlaceFacts
  <2>5. f[q.subs[s].last] = IF Age(q, q.subs[s].last) > k THEN q.subs[s].last
                            ELSE IF Age(q, q.subs[s].last) = k THEN q.getix ELSE wrap(q.subs[s].last + 1)
      BY <2>1 DEF Moved
  <2> HIDE DEF f
  <2> QED BY <2>1, <2>3, <2>4, <2>5
<1>4. ASSUME NEW s \in Slots, held(s), Age(q, q.subs[s].last) = k PROVE s = s0
  <2>1. ix(q, k) \in Places /\ Age(q, ix(q, k)) = k BY <1>1, IxAge
  <2>2. ix(q, k) = q.subs[s].last BY <1>1, <1>3, <1>4, <2>1, AgeInjective
  <2>3. q.subs[s].id = id BY <1>3, <1>4, <2>2 DEF EntriesOf
  <2>4. s \in Attached(q) BY <1>4 DEF Attached
  <2>5. q.subs[s].id.slot = s BY <2>4 DEF QueOK, SlotsOK, SlotsNamed
  <2> QED BY <2>3, <2>5
<1>5. ASSUME NEW s \in Slots, ~(held(s) /\ Age(q, q.subs[s].last) = k)
      PROVE  t.subs[s] = r.subs[s]
  <2>1. CASE ~held(s) BY <1>2, <2>1
  <2>2. CASE held(s) /\ Age(q, q.subs[s].last) < k
    <3>1. t.subs[s] = [q.subs[s] EXCEPT !.last = wrap(q.subs[s].last + 1)] BY <1>2, <2>2
    <3> QED BY <1>2, <1>3, <2>2, <3>1
  <2>3. CASE held(s) /\ Age(q, q.subs[s].last) > k
    <3>1. t.subs[s] = q.subs[s] BY <1>2, <1>3, <2>3
    <3>2. r.subs[s] = [q.subs[s] EXCEPT !.last = q.subs[s].last] BY <1>2, <1>3, <2>3
    <3>3. [q.subs[s] EXCEPT !.last = q.subs[s].last] = q.subs[s] BY <1>3, <2>3 DEF SubQ
    <3> QED BY <3>1, <3>2, <3>3
  <2> QED BY <1>3, <1>5, <2>1, <2>2, <2>3
<1>6. ASSUME NEW s \in Slots, held(s), Age(q, q.subs[s].last) = k
      PROVE  t.subs[s] = [r.subs[s] EXCEPT !.last = t.subs[s].last]
  <2>1. t.subs[s] = q.subs[s] BY <1>2, <1>6
  <2>2. r.subs[s] = new(s) BY <1>2, <1>6
  <2>3. q.subs[s] \in SubQ BY <1>3, <1>6
  <2>4. [new(s) EXCEPT !.last = q.subs[s].last] = q.subs[s] BY <2>3 DEF SubQ
  <2> QED BY <2>1, <2>2, <2>4
<1>7. /\ ix(q, k) \in Places /\ Age(q, ix(q, k)) = k /\ q.ring[ix(q, k)] \in Entry /\ Live(q, id)
      /\ s0 \in Slots /\ q.subs[s0] \in SubQ
  <2>1. ix(q, k) \in Places /\ Age(q, ix(q, k)) = k BY <1>1, IxAge
  <2>2. ix(q, k) \in Occupied(q) BY <2>1 DEF QueOK, RingOK, Contiguous, Occupied
  <2>3. Live(q, id) BY <2>2 DEF QueOK, RingOK, Contiguous
  <2>4. q.ring[ix(q, k)] \in Entry BY <1>1, <2>2 DEF QueInner, Occupied
  <2>5. s0 \in Slots BY <2>4 DEF Entry, AttachId
  <2> QED BY <1>1, <2>1, <2>3, <2>4, <2>5, SubFacts DEF Live
<1>8. t.subs[s0] = [r.subs[s0] EXCEPT !.last = t.subs[s0].last] /\ t.subs[s0].last \in Places
  <2>1. r \in QueInner /\ Remarks(q, r) BY RotatedEntries
  <2>2. r.subs[s0] \in SubQ
    <3>1. q.subs[s0] # NoSub BY <1>7, SentinelAssumption
    <3>2. r.subs[s0] # NoSub BY <1>7, <2>1, <3>1 DEF Remarks
    <3> QED BY <1>7, <2>1, <3>2, SubFacts
  <2>3. CASE held(s0) /\ Age(q, q.subs[s0].last) = k
    <3>1. t.subs[s0] = q.subs[s0] BY <1>2, <1>7, <2>3
    <3> QED BY <1>3, <1>6, <1>7, <2>3, <3>1
  <2>4. CASE ~(held(s0) /\ Age(q, q.subs[s0].last) = k)
    <3>1. t.subs[s0] = r.subs[s0] BY <1>5, <1>7, <2>4
    <3>2. [r.subs[s0] EXCEPT !.last = r.subs[s0].last] = r.subs[s0] BY <2>2 DEF SubQ
    <3> QED BY <2>2, <3>1, <3>2 DEF SubQ
  <2> QED BY <2>3, <2>4
<1>9. t.subs = [r.subs EXCEPT ![s0] = [r.subs[s0] EXCEPT !.last = t.subs[s0].last]]
  <2>1. t.subs = [s \in Slots |-> t.subs[s]] /\ r.subs = [s \in Slots |-> r.subs[s]] BY <1>2
  <2>2. \A s \in Slots : s # s0 => t.subs[s] = r.subs[s] BY <1>4, <1>5
  <2> HIDE DEF t, r
  <2> QED BY <1>7, <1>8, <2>1, <2>2
<1>10. /\ t = [q EXCEPT !.ring = t.ring, !.subs = t.subs]
       /\ r = [q EXCEPT !.ring = t.ring, !.subs = r.subs]
  <2>1. t = [q EXCEPT !.ring = t.ring, !.subs = t.subs] BY <1>1 DEF ToHead, QueInner
  <2>2. r = [q EXCEPT !.ring = r.ring, !.subs = r.subs] BY <1>1 DEF Rotated, QueInner
  <2> QED BY <1>2, <2>1, <2>2
<1>11. Age(q, q.subs[s0].last) # k => t = r
  <2>1. Age(q, q.subs[s0].last) # k => \A s \in Slots : t.subs[s] = r.subs[s] BY <1>4, <1>5, <1>7
  <2>2. t.subs = [s \in Slots |-> t.subs[s]] /\ r.subs = [s \in Slots |-> r.subs[s]] BY <1>2
  <2> HIDE DEF t, r
  <2>3. Age(q, q.subs[s0].last) # k => t.subs = r.subs BY <2>1, <2>2
  <2> QED BY <1>10, <2>3
<1>12. t = [r EXCEPT !.subs[s0].last = t.subs[s0].last]
  <2> HIDE DEF t, r
  <2>1. [r EXCEPT !.subs[s0].last = t.subs[s0].last]
         = [r EXCEPT !.subs = [r.subs EXCEPT ![s0] = [r.subs[s0] EXCEPT !.last = t.subs[s0].last]]]
      OBVIOUS
  <2>2. [r EXCEPT !.subs[s0].last = t.subs[s0].last] = [r EXCEPT !.subs = t.subs] BY <1>9, <2>1
  <2>3. [[q EXCEPT !.ring = t.ring, !.subs = r.subs] EXCEPT !.subs = t.subs]
         = [q EXCEPT !.ring = t.ring, !.subs = t.subs]
      BY <1>1 DEF QueInner
  <2> QED BY <1>10, <2>2, <2>3
<1> QED BY <1>8, <1>11, <1>12

\* take_for: bringing a monitor's oldest entry to the head and retiring it
\* leaves a sound queue, the one that retiring it from Rotated leaves but for a
\* mark that is not read.
LEMMA TakeForOK ==
    ASSUME NEW q, QueOK(q), NEW id \in AttachId, Live(q, id), ~reader_gone(q.subs[id.slot]),
           NEW h \in EntriesOf(q, id), \A p \in EntriesOf(q, id) : Age(q, h) <= Age(q, p)
    PROVE  LET t == ToHead(q, Age(q, h))
               r == Rotated(q, Age(q, h))
               u == advance(t)
               v == advance(r)
           IN  /\ QueOK(r) /\ r.used > 0 /\ HeadEntry(r) = q.ring[h] /\ HeadEntry(t) = q.ring[h]
               /\ QueOK(u) /\ QueOK(v) /\ u.ring = v.ring /\ u.getix = v.getix
               /\ Remarks(v, u)
               /\ \A s \in Slots : v.subs[s] # NoSub /\ v.subs[s].npend > 0 => u.subs[s].last = v.subs[s].last
<1> DEFINE k == Age(q, h)
           t == ToHead(q, k)
           r == Rotated(q, k)
           u == advance(t)
           v == advance(r)
           f == Moved(q, k)
           s0 == id.slot
           E == EntriesOf(q, id)
<1>1. q \in QueInner /\ h \in Places /\ q.ring[h].id = id /\ h \in Occupied(q) /\ s0 \in Slots
    BY DEF QueOK, EntriesOf, Occupied, AttachId
<1>2. k \in Nat /\ k < q.used /\ k < size
  <2>1. k \in Nat /\ k < size BY <1>1, AgeFacts, PlaceFacts
  <2>2. k < q.used BY <1>1 DEF QueOK, RingOK, Contiguous, Occupied
  <2> QED BY <2>1, <2>2
<1>3. ix(q, k) = h
  <2>1. ix(q, k) \in Places /\ Age(q, ix(q, k)) = k BY <1>1, <1>2, IxAge
  <2> QED BY <1>1, <2>1, AgeInjective
<1> HIDE DEF k
<1>4. QueOK(r)
  <2>1. \A p \in EntriesOf(q, q.ring[ix(q, k)].id) : k <= Age(q, p) BY <1>1, <1>3 DEF k
  <2> QED BY <1>2, <2>1, RotatedOK
<1>5. /\ r \in QueInner /\ r.getix = q.getix /\ r.used = q.used /\ Remarks(q, r)
      /\ \A p \in Places : r.ring[f[p]] = q.ring[p]
      /\ \A s \in Pending(q) : r.subs[s].last = f[q.subs[s].last]
  <2>1. /\ r \in QueInner /\ r.getix = q.getix /\ r.used = q.used
        /\ r.n_duplicates = q.n_duplicates /\ r.quota = q.quota /\ r.free = q.free
        /\ r.unreported_ends = q.unreported_ends
        /\ Remarks(q, r)
        /\ \A s \in Pending(q) : r.subs[s].last = f[q.subs[s].last]
        /\ \A p \in Places : r.ring[f[p]] = q.ring[p]
        /\ \A x : EntriesOf(r, x) = {f[p] : p \in EntriesOf(q, x)}
        /\ \A p : Age(r, p) = Age(q, p)
      BY <1>2, RotatedEntries
  <2> QED BY <2>1
<1>6. r.used > 0 BY <1>2, <1>1, <1>5 DEF QueInner
<1>7. /\ t.subs[s0].last \in Places /\ t = [r EXCEPT !.subs[s0].last = t.subs[s0].last]
      /\ Age(q, q.subs[s0].last) # k => t = r
    BY <1>1, <1>2, <1>3, ToHeadMarks
<1>8. HeadEntry(r) = q.ring[h]
  <2>1. f[h] = q.getix
    <3>1. f[h] = IF Age(q, h) > k THEN h ELSE IF Age(q, h) = k THEN q.getix ELSE wrap(h + 1)
        BY <1>1 DEF Moved
    <3> QED BY <1>2, <3>1 DEF k
  <2> QED BY <1>1, <1>5, <2>1 DEF HeadEntry
<1> HIDE DEF f, t, r
<1>9. t.ring = r.ring /\ t.getix = r.getix BY <1>5, <1>7 DEF QueInner
<1>10. HeadEntry(t) = q.ring[h] BY <1>8, <1>9 DEF HeadEntry
<1>11. QueOK(v) BY <1>4, <1>6, AdvanceOK
<1>12. CASE Age(q, q.subs[s0].last) # k
  <2>1. u = v BY <1>7, <1>12
  <2>2. Remarks(v, u) BY <2>1 DEF Remarks
  <2> QED BY <1>4, <1>6, <1>8, <1>10, <1>11, <2>1, <2>2 DEF t, r, k
<1>13. CASE Age(q, q.subs[s0].last) = k
  <2>1. q.subs[s0] # NoSub /\ q.subs[s0].id = id /\ s0 \in Attached(q) BY <1>1 DEF Live, Attached
  <2>2. q.subs[s0].npend = Cardinality(E) /\ IsFiniteSet(E)
      BY <1>1, <2>1, SetFacts DEF QueOK, RingOK, NpendCounts
  <2>3. s0 \in Pending(q)
    <3>1. Cardinality(E) \in Nat /\ Cardinality(E) # 0 BY <2>2, FS_EmptySet, FS_CardinalityType
    <3> QED BY <2>1, <2>2, <3>1 DEF Pending
  <2>4. q.subs[s0].last \in E /\ \A p \in E : Age(q, p) <= k
      BY <1>13, <2>1, <2>3 DEF QueOK, RingOK, LastIsNewest
  <2>5. E = {h}
    <3> SUFFICES ASSUME NEW p \in E PROVE p = h OBVIOUS
    <3>1. p \in Places /\ Age(q, p) \in Nat BY <1>1, AgeFacts, PlaceFacts DEF EntriesOf, Occupied
    <3>2. Age(q, p) <= k /\ k <= Age(q, p) BY <2>4 DEF k
    <3>3. Age(q, p) = Age(q, h) BY <1>2, <3>1, <3>2 DEF k
    <3> QED BY <1>1, <3>1, <3>3, AgeInjective
  <2>6. q.subs[s0].npend = 1 BY <2>2, <2>5, FS_Singleton
  <2>7. /\ r.subs[s0] \in SubQ /\ r.subs[s0].npend = 1 /\ ~reader_gone(r.subs[s0])
    <3>1. r.subs[s0] # NoSub /\ r.subs[s0].npend = 1 /\ r.subs[s0].gone = q.subs[s0].gone
        BY <1>1, <1>5, <2>1, <2>6 DEF Remarks
    <3> QED BY <1>1, <1>5, <3>1, SubFacts DEF reader_gone
  <2>8. t \in QueInner /\ t.subs[s0].npend = 1 /\ t.subs[s0].gone = r.subs[s0].gone
    <3> DEFINE l == t.subs[s0].last
    <3>1. l \in Places /\ t = [r EXCEPT !.subs[s0].last = l] BY <1>7
    <3> HIDE DEF l
    <3>2. [r.subs[s0] EXCEPT !.last = l] \in SubQ BY <2>7, <3>1 DEF SubQ
    <3>3. [r EXCEPT !.subs[s0].last = l] \in QueInner
      <4> DEFINE m == [r.subs[s0] EXCEPT !.last = l]
      <4>1. [r EXCEPT !.subs[s0].last = l] = [r EXCEPT !.subs = [r.subs EXCEPT ![s0] = m]] OBVIOUS
      <4>2. m \in SubQ BY <3>2
      <4> HIDE DEF m
      <4> QED BY <1>1, <1>5, <4>1, <4>2 DEF QueInner
    <3>4. [r EXCEPT !.subs[s0].last = l].subs[s0] = [r.subs[s0] EXCEPT !.last = l]
        BY <1>1, <1>5 DEF QueInner
    <3> QED BY <2>7, <3>1, <3>3, <3>4 DEF SubQ
  <2>9. u = Retired(t) /\ v = Retired(r)
    <3>1. ~reader_gone(t.subs[HeadEntry(t).id.slot]) BY <1>1, <1>10, <2>7, <2>8 DEF reader_gone
    <3>2. ~reader_gone(r.subs[HeadEntry(r).id.slot]) BY <1>1, <1>8, <2>7
    <3> QED BY <1>5, <2>8, <3>1, <3>2, AdvanceKeeps
  <2> DEFINE l == t.subs[s0].last
             R(x, b) == [x EXCEPT !.ring = [x.ring EXCEPT ![x.getix] = NoEntry], !.getix = ix(x, 1), !.used = @ - 1,
                       !.taken = @ + 1, !.draining = x.used > 1,
                       !.subs = b, !.n_duplicates = x.n_duplicates]
  <2>10. /\ Retired(r) = R(r, [r.subs EXCEPT ![s0] = [r.subs[s0] EXCEPT !.npend = 0]])
         /\ Retired(t) = R(t, [t.subs EXCEPT ![s0] = [t.subs[s0] EXCEPT !.npend = 0]])
    <3>1. HeadEntry(r).id.slot = s0 /\ HeadEntry(t).id.slot = s0 BY <1>1, <1>8, <1>10
    <3>2. r.subs[s0].npend - 1 = 0 /\ t.subs[s0].npend - 1 = 0 BY <2>7, <2>8
    <3>3. ASSUME NEW x \in QueInner, HeadEntry(x).id.slot = s0, x.subs[s0].npend - 1 = 0
          PROVE  Retired(x) = R(x, [x.subs EXCEPT ![s0] = [x.subs[s0] EXCEPT !.npend = 0]])
      <4>1. Retired(x) = [x EXCEPT !.ring[x.getix] = NoEntry, !.getix = ix(x, 1), !.used = @ - 1,
                                   !.taken = @ + 1, !.draining = x.used > 1,
                                   !.subs[s0].npend = 0,
                                   !.n_duplicates = IF 0 > 0 THEN @ - 1 ELSE @]
          BY <3>3 DEF Retired
      <4> HIDE DEF s0
      <4>2. Retired(x) = [x EXCEPT !.ring[x.getix] = NoEntry, !.getix = ix(x, 1), !.used = @ - 1,
                                   !.taken = @ + 1, !.draining = x.used > 1,
                                   !.subs[s0].npend = 0, !.n_duplicates = x.n_duplicates]
          BY <4>1
      <4> QED BY <4>2 DEF QueInner
    <3> QED BY <1>5, <2>8, <3>1, <3>2, <3>3
  <2>11. [t.subs EXCEPT ![s0] = [t.subs[s0] EXCEPT !.npend = 0]]
         = [r.subs EXCEPT ![s0] = [[r.subs[s0] EXCEPT !.npend = 0] EXCEPT !.last = l]]
    <3>1. t.subs = [r.subs EXCEPT ![s0] = [r.subs[s0] EXCEPT !.last = l]] BY <1>5, <1>7 DEF QueInner
    <3>2. t.subs[s0] = [r.subs[s0] EXCEPT !.last = l] BY <1>1, <1>5, <3>1 DEF QueInner
    <3> HIDE DEF l
    <3>3. [[r.subs[s0] EXCEPT !.last = l] EXCEPT !.npend = 0] = [[r.subs[s0] EXCEPT !.npend = 0] EXCEPT !.last = l]
        BY <2>7 DEF SubQ
    <3> QED BY <1>1, <1>5, <3>1, <3>2, <3>3 DEF QueInner
  <2>12. /\ v.subs = [r.subs EXCEPT ![s0] = [r.subs[s0] EXCEPT !.npend = 0]]
         /\ v.ring = [r.ring EXCEPT ![r.getix] = NoEntry] /\ v.getix = ix(r, 1)
      BY <1>5, <2>9, <2>10 DEF QueInner
  <2>13. v.subs[s0] = [r.subs[s0] EXCEPT !.npend = 0] /\ v.subs[s0].npend = 0 /\ v.subs[s0] # NoSub
    <3>1. v.subs[s0] = [r.subs[s0] EXCEPT !.npend = 0] BY <1>1, <1>5, <2>12 DEF QueInner
    <3>2. v.subs[s0] \in SubQ /\ v.subs[s0].npend = 0 BY <2>7, <3>1 DEF SubQ
    <3> QED BY <3>1, <3>2, SentinelAssumption
  <2>14. u = [v EXCEPT !.subs[s0].last = l]
    <3> DEFINE b == [r.subs EXCEPT ![s0] = [[r.subs[s0] EXCEPT !.npend = 0] EXCEPT !.last = l]]
    <3>1. u = R(t, b) BY <2>9, <2>10, <2>11
    <3>2. b = [v.subs EXCEPT ![s0] = [v.subs[s0] EXCEPT !.last = l]]
        BY <1>1, <1>5, <2>12, <2>13 DEF QueInner
    <3>3. [v EXCEPT !.subs[s0].last = l] = [v EXCEPT !.subs = [v.subs EXCEPT ![s0] = [v.subs[s0] EXCEPT !.last = l]]]
        OBVIOUS
    <3>4. v = R(r, v.subs) BY <2>9, <2>10, <2>12
    <3>5. t = [r EXCEPT !.subs = t.subs] BY <1>5, <1>7 DEF QueInner
    <3> HIDE DEF b
    <3>6. R([r EXCEPT !.subs = t.subs], b) = R(r, b) BY <1>5 DEF QueInner, ix
    <3>7. [R(r, v.subs) EXCEPT !.subs = b] = R(r, b) BY <1>5 DEF QueInner
    <3> QED BY <3>1, <3>2, <3>3, <3>4, <3>5, <3>6, <3>7
  <2>0. QueOK(v) BY <1>11
  <2>15. QueOK([v EXCEPT !.subs[s0].last = l]) BY <1>1, <1>7, <1>11, <2>13, MarkUnread
  <2>16. v \in QueInner BY <1>11 DEF QueOK
  <2> HIDE DEF u, v, l
  <2>17. u.ring = v.ring /\ u.getix = v.getix BY <2>14, <2>16 DEF QueInner
  <2>18. u.subs[s0] = [v.subs[s0] EXCEPT !.last = l] /\ \A s \in Slots : s # s0 => u.subs[s] = v.subs[s]
      BY <1>1, <2>14, <2>16 DEF QueInner
  <2>19. v.subs[s0] \in SubQ BY <1>1, <2>13, <2>16, SubFacts
  <2>20. /\ u.subs[s0] # NoSub
         /\ u.subs[s0].id = v.subs[s0].id /\ u.subs[s0].kind = v.subs[s0].kind
         /\ u.subs[s0].npend = v.subs[s0].npend /\ u.subs[s0].gone = v.subs[s0].gone
         /\ u.subs[s0].end_reported = v.subs[s0].end_reported
    <3>1. l \in Places BY <1>7 DEF l
    <3>2. u.subs[s0] \in SubQ BY <2>18, <2>19, <3>1 DEF SubQ
    <3> QED BY <2>18, <2>19, <3>2, SentinelAssumption DEF SubQ
  <2>21. Remarks(v, u) BY <2>13, <2>18, <2>20 DEF Remarks
  <2>22. \A s \in Slots : v.subs[s] # NoSub /\ v.subs[s].npend > 0 => u.subs[s].last = v.subs[s].last
    <3>1. ~(v.subs[s0].npend > 0) BY <2>13
    <3> HIDE DEF s0
    <3> QED BY <2>18, <3>1
  <2>23. QueOK(u) BY <2>14, <2>15
  <2>24. /\ QueOK(r) /\ r.used > 0 /\ HeadEntry(r) = q.ring[h] /\ HeadEntry(t) = q.ring[h]
         /\ QueOK(u) /\ QueOK(v) /\ u.ring = v.ring /\ u.getix = v.getix
         /\ Remarks(v, u)
         /\ \A s \in Slots : v.subs[s] # NoSub /\ v.subs[s].npend > 0 => u.subs[s].last = v.subs[s].last
      BY <1>4, <1>6, <1>8, <1>10, <2>0, <2>17, <2>21, <2>22, <2>23
  <2> QED BY <2>24 DEF u, v, t, r, k
<1> QED BY <1>12, <1>13

\* The entries of a sound queue.
LEMMA EntryFacts ==
    ASSUME NEW q, QueOK(q), NEW id
    PROVE  \A p \in EntriesOf(q, id) :
             /\ p \in Occupied(q) /\ p \in Places /\ q.ring[p] \in Entry /\ q.ring[p].log \in PostLog
             /\ q.ring[p].id = id /\ Live(q, id) /\ id \in AttachId /\ Age(q, p) \in Nat
             /\ q.ring[p].log.value \in Nat
<1>1. q \in QueInner BY DEF QueOK
<1> SUFFICES ASSUME NEW p \in EntriesOf(q, id)
             PROVE  /\ p \in Occupied(q) /\ p \in Places /\ q.ring[p] \in Entry /\ q.ring[p].log \in PostLog
                    /\ q.ring[p].id = id /\ Live(q, id) /\ id \in AttachId /\ Age(q, p) \in Nat
                    /\ q.ring[p].log.value \in Nat
    OBVIOUS
<1>2. p \in Occupied(q) /\ p \in Places /\ q.ring[p].id = id BY DEF EntriesOf, Occupied
<1>3. q.ring[p] \in Entry BY <1>1, <1>2 DEF Occupied, QueInner
<1>4. Live(q, id) BY <1>2 DEF QueOK, RingOK, Contiguous
<1>5. Age(q, p) \in Nat BY <1>1, <1>2, AgeFacts, PlaceFacts
<1> QED BY <1>2, <1>3, <1>4, <1>5 DEF Entry, PostLog

\* npend, of a live monitor: 0 without entries, 1 with a single one, and last
\* is the newest of them.
LEMMA NpendFacts ==
    ASSUME NEW q, QueOK(q), NEW id \in AttachId, Live(q, id)
    PROVE  LET sub == q.subs[id.slot]
               E == EntriesOf(q, id)
           IN  /\ id.slot \in Slots /\ sub \in SubQ /\ sub.npend \in Nat /\ sub.id = id
               /\ sub.npend = 0 <=> E = {}
               /\ sub.npend > 0 => sub.last \in E /\ \A p \in E : Age(q, p) <= Age(q, sub.last)
               /\ sub.npend <= 1 => \A p, s \in E : p = s
               /\ sub.end_reported => producer_gone(sub)
<1> DEFINE sub == q.subs[id.slot]
           E == EntriesOf(q, id)
<1>1. q \in QueInner /\ id.slot \in Slots /\ sub # NoSub /\ sub.id = id
    BY DEF QueOK, Live, AttachId
<1>2. sub \in SubQ /\ sub.npend \in Nat BY <1>1, SubFacts
<1>3. id.slot \in Attached(q) BY <1>1 DEF Attached
<1>4. sub.npend = Cardinality(E) /\ IsFiniteSet(E)
    BY <1>1, <1>3, SetFacts DEF QueOK, RingOK, NpendCounts
<1>5. sub.npend = 0 <=> E = {} BY <1>4, FS_EmptySet
<1>6. sub.npend > 0 => sub.last \in E /\ \A p \in E : Age(q, p) <= Age(q, sub.last)
    BY <1>1, <1>3 DEF QueOK, RingOK, LastIsNewest, Pending
<1>7. sub.npend <= 1 => \A p, s \in E : p = s
  <2>1. CASE sub.npend = 0 BY <1>5, <2>1
  <2>2. CASE sub.npend = 1
    <3>1. PICK x : E = {x} BY <1>4, <2>2, FS_Singleton
    <3> QED BY <3>1
  <2> QED BY <1>2, <2>1, <2>2
<1>8. sub.end_reported => producer_gone(sub)
    BY <1>3 DEF QueOK, SlotsOK, EndsCounted
<1> QED BY <1>1, <1>2, <1>5, <1>6, <1>7, <1>8

\* A drain pass begins or ends: nothing else of the queue moves.
LEMMA DrainingOK ==
    ASSUME NEW q, QueOK(q), NEW b \in BOOLEAN
    PROVE  QueOK([q EXCEPT !.draining = b])
<1> DEFINE r == [q EXCEPT !.draining = b]
<1>1. q \in QueInner BY DEF QueOK
<1>2. r \in QueInner BY <1>1 DEF QueInner
<1>3. /\ r.ring = q.ring /\ r.getix = q.getix /\ r.used = q.used /\ r.n_duplicates = q.n_duplicates
      /\ r.subs = q.subs /\ r.quota = q.quota /\ r.free = q.free /\ r.unreported_ends = q.unreported_ends
    BY <1>1 DEF QueInner
<1> HIDE DEF r
<1>4. SameRing(q, r) BY <1>3 DEF SameRing
<1>5. RingOK(r) BY <1>1, <1>2, <1>4, SameRingOK DEF QueOK
<1>6. Remarks(q, r) BY <1>3 DEF Remarks
<1>7. SlotsOK(r) BY <1>1, <1>2, <1>3, <1>6, RemarkSlots DEF QueOK
<1> QED BY <1>2, <1>5, <1>7 DEF QueOK, r
=============================================================================
