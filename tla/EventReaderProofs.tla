-------------------------- MODULE EventReaderProofs --------------------------
(***************************************************************************)
(* What holds of monitors read one by one, for every number of readers,    *)
(* producers and posts and every ring size: the ring stays sound when a    *)
(* reader takes its oldest entry from behind the head, and each reader     *)
(* gets its own values in order, the newest of them and then the end.      *)
(*                                                                         *)
(* Each operation of the queue is treated twice, as in EventUserProofs:    *)
(* for the monitor it is about, and for the others.                        *)
(*                                                                         *)
(* Then the delivery of a PVA client (DeliveryFence), for every number of  *)
(* subscriptions, replies and frames: callbacks in wire order, and no      *)
(* frame lost on its way to one.                                           *)
(*                                                                         *)
(* Last the map a record's posts walk (SubscriberList), for every number   *)
(* of writers and posts: a version is never freed twice, lost, or freed    *)
(* under the post that walks it.                                           *)
(***************************************************************************)
EXTENDS EventReader, DeliveryFence, SubscriberList, EvQueProofs, SequenceTheorems,
        WellFoundedInduction

-----------------------------------------------------------------------------
(* One monitor and the queue it is on.                                     *)

\* A live monitor's slot says which of its ends are gone; the slot is given
\* back only once the reader is.
HandleOK(x, mon) ==
    LET sub == x.subs[mon.id.slot]
    IN  IF Live(x, mon.id)
        THEN /\ mon.reader <=> ~reader_gone(sub)
             /\ mon.sink <=> ~producer_gone(sub)
             /\ sub.kind = "Val"
        ELSE ~mon.reader

\* A monitor's entries are newer than what its reader got, in order, and the
\* newest of them is its newest post; at the end there are none.
StreamOK(x, mon) ==
    LET own == EntriesOf(x, mon.id)
        sub == x.subs[mon.id.slot]
    IN  /\ mon.seen <= mon.posted
        /\ \A p \in own : mon.seen < x.ring[p].log.value /\ x.ring[p].log.value <= mon.posted
        /\ \A p, s \in own : Age(x, p) < Age(x, s) => x.ring[p].log.value < x.ring[s].log.value
        /\ Live(x, mon.id) =>
                /\ sub.npend > 0 => x.ring[sub.last].log.value = mon.posted
                /\ sub.npend = 0 /\ mon.reader => mon.seen = mon.posted
        /\ mon.eof => own = {} /\ ~mon.sink /\ mon.seen = mon.posted

MonOK(x, mon) == HandleOK(x, mon) /\ StreamOK(x, mon)

\* While a take is under way, its reader has an entry to take.
Taking ==
    pc = "take" => /\ want \in DOMAIN mons /\ mons[want].reader
                   /\ q.subs[mons[want].id.slot].npend > 0

ReaderInv ==
    /\ TypeOK /\ QueOK(q) /\ Taking
    /\ \A m \in DOMAIN mons : mons[m].id.gen = m /\ MonOK(q, mons[m])

\* A monitor's record, field by field.
LEMMA MonType ==
    ASSUME NEW mon \in Monitor
    PROVE  /\ mon.id \in AttachId /\ mon.id.slot \in Slots
           /\ mon.sink \in BOOLEAN /\ mon.reader \in BOOLEAN /\ mon.eof \in BOOLEAN
           /\ mon.posted \in Nat /\ mon.seen \in Nat
BY DEF Monitor, AttachId

\* An operation that leaves a monitor's entries in their order, each at f of
\* its place, and its slot as it was but for a mark that follows its entry.
LEMMA MonFrame ==
    ASSUME NEW x, QueOK(x), NEW y, NEW f, NEW mon \in Monitor, MonOK(x, mon),
           EntriesOf(y, mon.id) = {f[p] : p \in EntriesOf(x, mon.id)},
           \A p \in EntriesOf(x, mon.id) : y.ring[f[p]].log = x.ring[p].log,
           \A p, s \in EntriesOf(x, mon.id) : Age(y, f[p]) < Age(y, f[s]) => Age(x, p) < Age(x, s),
           Live(y, mon.id) <=> Live(x, mon.id),
           Live(x, mon.id) =>
                /\ y.subs[mon.id.slot].gone = x.subs[mon.id.slot].gone
                /\ y.subs[mon.id.slot].kind = x.subs[mon.id.slot].kind
                /\ y.subs[mon.id.slot].npend = x.subs[mon.id.slot].npend
                /\ x.subs[mon.id.slot].npend > 0 =>
                        y.subs[mon.id.slot].last = f[x.subs[mon.id.slot].last]
    PROVE  MonOK(y, mon)
<1> DEFINE E == EntriesOf(x, mon.id)
           a == x.subs[mon.id.slot]
           b == y.subs[mon.id.slot]
<1>1. mon.id \in AttachId BY MonType
<1>2. Live(x, mon.id) /\ a.npend > 0 => a.last \in E BY <1>1, NpendFacts
<1>3. HandleOK(y, mon) BY DEF MonOK, HandleOK, reader_gone, producer_gone
<1>4. StreamOK(y, mon)
  <2>1. \A s \in EntriesOf(y, mon.id) :
            mon.seen < y.ring[s].log.value /\ y.ring[s].log.value <= mon.posted
      BY DEF MonOK, StreamOK
  <2>2. ASSUME NEW p \in EntriesOf(y, mon.id), NEW s \in EntriesOf(y, mon.id), Age(y, p) < Age(y, s)
        PROVE  y.ring[p].log.value < y.ring[s].log.value
    <3>1. PICK o \in E : p = f[o] OBVIOUS
    <3>2. PICK w \in E : s = f[w] OBVIOUS
    <3>3. Age(x, o) < Age(x, w) BY <2>2, <3>1, <3>2
    <3>4. x.ring[o].log.value < x.ring[w].log.value BY <3>3 DEF MonOK, StreamOK
    <3> QED BY <3>1, <3>2, <3>4
  <2>3. Live(y, mon.id) =>
            /\ b.npend > 0 => y.ring[b.last].log.value = mon.posted
            /\ b.npend = 0 /\ mon.reader => mon.seen = mon.posted
      BY <1>2 DEF MonOK, StreamOK
  <2>4. mon.eof => EntriesOf(y, mon.id) = {} /\ ~mon.sink /\ mon.seen = mon.posted
      BY DEF MonOK, StreamOK
  <2>5. mon.seen <= mon.posted BY DEF MonOK, StreamOK
  <2> QED BY <2>1, <2>2, <2>3, <2>4, <2>5 DEF StreamOK
<1> QED BY <1>3, <1>4 DEF MonOK

\* One that leaves the entries where they are.
LEMMA MonStays ==
    ASSUME NEW x, QueOK(x), NEW y, NEW mon \in Monitor, MonOK(x, mon),
           EntriesOf(y, mon.id) = EntriesOf(x, mon.id),
           \A p \in EntriesOf(x, mon.id) : y.ring[p].log = x.ring[p].log,
           \A p, s \in EntriesOf(x, mon.id) : Age(y, p) < Age(y, s) => Age(x, p) < Age(x, s),
           Live(y, mon.id) <=> Live(x, mon.id),
           Live(x, mon.id) =>
                /\ y.subs[mon.id.slot].gone = x.subs[mon.id.slot].gone
                /\ y.subs[mon.id.slot].kind = x.subs[mon.id.slot].kind
                /\ y.subs[mon.id.slot].npend = x.subs[mon.id.slot].npend
                /\ x.subs[mon.id.slot].npend > 0 =>
                        y.subs[mon.id.slot].last = x.subs[mon.id.slot].last
    PROVE  MonOK(y, mon)
<1> DEFINE E == EntriesOf(x, mon.id)
           f == [p \in E |-> p]
<1>1. mon.id \in AttachId BY MonType
<1>2. Live(x, mon.id) /\ x.subs[mon.id.slot].npend > 0 => x.subs[mon.id.slot].last \in E
    BY <1>1, NpendFacts
<1>3. \A p \in E : f[p] = p OBVIOUS
<1>4. E = {f[p] : p \in E} OBVIOUS
<1> HIDE DEF f
<1>5. EntriesOf(y, mon.id) = {f[p] : p \in EntriesOf(x, mon.id)} BY <1>4
<1>6. \A p \in E : y.ring[f[p]].log = x.ring[p].log BY <1>3
<1>7. \A p, s \in E : Age(y, f[p]) < Age(y, f[s]) => Age(x, p) < Age(x, s) BY <1>3
<1>8. Live(x, mon.id) /\ x.subs[mon.id.slot].npend > 0 =>
            y.subs[mon.id.slot].last = f[x.subs[mon.id.slot].last]
    BY <1>2, <1>3
<1> QED BY <1>5, <1>6, <1>7, <1>8, MonFrame

-----------------------------------------------------------------------------
(* The monitors an operation is not about.                                 *)

\* Another slot is filled, marked or given back.
LEMMA ReslotOthers ==
    ASSUME NEW x, QueOK(x), NEW y, NEW s \in Slots, NEW sub, Reslots(x, y, s, sub),
           NEW mon \in Monitor, MonOK(x, mon),
           mon.id.slot = s => ~Live(x, mon.id) /\ (sub = NoSub \/ sub.id # mon.id)
    PROVE  MonOK(y, mon)
<1>1. x \in QueInner /\ mon.id.slot \in Slots BY MonType DEF QueOK
<1>2. y.ring = x.ring /\ y.getix = x.getix /\ y.subs = [x.subs EXCEPT ![s] = sub] BY DEF Reslots
<1>3. EntriesOf(y, mon.id) = EntriesOf(x, mon.id) BY <1>2 DEF EntriesOf, Occupied
<1>4. \A p : Age(y, p) = Age(x, p) BY <1>2 DEF Age
<1>5. y.subs[s] = sub /\ (mon.id.slot # s => y.subs[mon.id.slot] = x.subs[mon.id.slot])
    BY <1>1, <1>2 DEF QueInner
<1>6. Live(y, mon.id) <=> Live(x, mon.id) BY <1>5 DEF Live
<1>7. Live(x, mon.id) => y.subs[mon.id.slot] = x.subs[mon.id.slot] BY <1>5
<1> QED BY <1>2, <1>3, <1>4, <1>6, <1>7, MonStays

\* The ring and the slots' records are the same.
LEMMA SameQueue ==
    ASSUME NEW x, QueOK(x), NEW y, y.ring = x.ring, y.getix = x.getix, y.subs = x.subs,
           NEW mon \in Monitor, MonOK(x, mon)
    PROVE  MonOK(y, mon)
<1>1. EntriesOf(y, mon.id) = EntriesOf(x, mon.id) BY DEF EntriesOf, Occupied
<1>2. \A p : Age(y, p) = Age(x, p) BY DEF Age
<1>3. Live(y, mon.id) <=> Live(x, mon.id) BY DEF Live
<1> QED BY <1>1, <1>2, <1>3, MonStays

\* A post to another monitor.
LEMMA PostOthers ==
    ASSUME NEW x, QueOK(x), NEW fl \in BOOLEAN, NEW id \in AttachId, NEW log \in PostLog,
           PostOutcome(x, fl, id, log) # "Closed", NEW mon \in Monitor, MonOK(x, mon), mon.id # id
    PROVE  MonOK(post(x, fl, id, log), mon)
<1> DEFINE y == post(x, fl, id, log)
           sub == x.subs[id.slot]
<1>1. x \in QueInner /\ mon.id.slot \in Slots /\ Live(x, id) /\ id.slot \in Slots /\ sub \in SubQ
    BY MonType, OutcomeFacts DEF QueOK, AttachId
<1>2. ForKind(log, sub.kind) \in PostLog BY ForKindType
<1>3. CASE PostOutcome(x, fl, id, log) = "Appended"
  <2>1. Appends(x, y, id, log) BY <1>3, PostFields
  <2> HIDE DEF y
  <2>2. /\ EntriesOf(y, mon.id) = EntriesOf(x, mon.id)
        /\ \A p \in Occupied(x) : y.ring[p] = x.ring[p]
        /\ \A p : Age(y, p) = Age(x, p)
      BY <1>2, <2>1, AppendEntries
  <2>3. y.subs = [x.subs EXCEPT ![id.slot] = [sub EXCEPT !.npend = @ + 1, !.last = TailPlace(x)]]
      BY <2>1 DEF Appends
  <2>4. y.subs[id.slot].id = id
    <3>1. y.subs[id.slot] = [sub EXCEPT !.npend = @ + 1, !.last = TailPlace(x)]
        BY <1>1, <2>3 DEF QueInner
    <3>2. sub.id = id BY <1>1 DEF Live
    <3> QED BY <1>1, <3>1, <3>2 DEF SubQ
  <2>5. mon.id.slot # id.slot => y.subs[mon.id.slot] = x.subs[mon.id.slot]
      BY <1>1, <2>3 DEF QueInner
  <2>6. mon.id.slot = id.slot => ~Live(x, mon.id) /\ ~Live(y, mon.id)
      BY <1>1, <2>4 DEF Live
  <2>7. Live(y, mon.id) <=> Live(x, mon.id) BY <2>5, <2>6 DEF Live
  <2>8. \A p \in EntriesOf(x, mon.id) : y.ring[p].log = x.ring[p].log BY <2>2 DEF EntriesOf
  <2>9. MonOK(y, mon) BY <2>2, <2>5, <2>6, <2>7, <2>8, MonStays
  <2> QED BY <2>9 DEF y
<1>4. CASE PostOutcome(x, fl, id, log) # "Appended"
  <2>1. Relogs(x, y, sub.last, Joined(x, fl, id, log)) BY <1>4, PostFields
  <2>2. sub.npend > 0 BY <1>4, OutcomeFacts
  <2>3. /\ sub.last \in Occupied(x) /\ x.ring[sub.last].id = id /\ x.ring[sub.last].log \in PostLog
      BY <1>1, <2>2, LastFacts
  <2>4. Joined(x, fl, id, log) \in PostLog BY <1>2, <2>3 DEF Joined, PostLog
  <2> HIDE DEF y
  <2>5. /\ EntriesOf(y, mon.id) = EntriesOf(x, mon.id)
        /\ \A p \in Occupied(x) : p # sub.last => y.ring[p] = x.ring[p]
        /\ \A p : Age(y, p) = Age(x, p)
      BY <2>1, <2>3, <2>4, RelogEntries
  <2>6. y.subs = x.subs BY <2>1 DEF Relogs
  <2>7. Live(y, mon.id) <=> Live(x, mon.id) BY <2>6 DEF Live
  <2>8. \A p \in EntriesOf(x, mon.id) : y.ring[p].log = x.ring[p].log
      BY <2>3, <2>5 DEF EntriesOf
  <2>9. MonOK(y, mon) BY <2>5, <2>6, <2>7, <2>8, MonStays
  <2> QED BY <2>9 DEF y
<1> QED BY <1>3, <1>4

\* The head of another monitor leaves.
LEMMA AdvanceOthers ==
    ASSUME NEW x, QueOK(x), x.used > 0, NEW y, Advances(x, y), NEW mon \in Monitor, MonOK(x, mon),
           mon.id # HeadEntry(x).id
    PROVE  MonOK(y, mon)
<1> DEFINE id == HeadEntry(x).id
           sub == x.subs[id.slot]
<1>1. /\ x \in QueInner /\ id \in AttachId /\ Live(x, id) /\ x.getix \in EntriesOf(x, id)
      /\ mon.id.slot \in Slots /\ id.slot \in Slots
    BY HeadFacts, MonType DEF AttachId
<1>2. sub \in SubQ /\ sub.id = id BY <1>1, SubFacts DEF Live
<1>3. x.getix \notin EntriesOf(x, mon.id) BY <1>1 DEF EntriesOf
<1>4. /\ EntriesOf(y, mon.id) = EntriesOf(x, mon.id)
      /\ \A p \in EntriesOf(x, mon.id) : /\ y.ring[p] = x.ring[p] /\ Age(y, p) = Age(x, p) - 1
                                         /\ Age(x, p) \in Nat
  <2>1. EntriesOf(y, mon.id) = EntriesOf(x, mon.id) \ {x.getix} BY AdvanceEntries
  <2>2. EntriesOf(x, mon.id) \subseteq Occupied(x) BY DEF EntriesOf
  <2>3. \A p \in Occupied(x) : p # x.getix => /\ y.ring[p] = x.ring[p] /\ Age(y, p) = Age(x, p) - 1
                                             /\ Age(x, p) \in Nat
      BY AdvanceEntries
  <2> QED BY <1>3, <2>1, <2>2, <2>3
<1>5. y.subs = [x.subs EXCEPT ![id.slot] =
                    IF sub.npend - 1 = 0 /\ reader_gone(sub) THEN NoSub
                    ELSE [sub EXCEPT !.npend = sub.npend - 1]]
    BY DEF Advances
<1>6. mon.id.slot # id.slot => y.subs[mon.id.slot] = x.subs[mon.id.slot]
    BY <1>1, <1>5 DEF QueInner
<1>7. y.subs[id.slot] = NoSub \/ y.subs[id.slot].id = id
  <2>1. y.subs[id.slot] = IF sub.npend - 1 = 0 /\ reader_gone(sub) THEN NoSub
                          ELSE [sub EXCEPT !.npend = sub.npend - 1]
      BY <1>1, <1>5 DEF QueInner
  <2>2. [sub EXCEPT !.npend = sub.npend - 1].id = id BY <1>2 DEF SubQ
  <2> QED BY <2>1, <2>2
<1>8. mon.id.slot = id.slot => ~Live(x, mon.id) /\ ~Live(y, mon.id)
    BY <1>1, <1>7 DEF Live
<1>9. Live(y, mon.id) <=> Live(x, mon.id) BY <1>6, <1>8 DEF Live
<1>10. \A p, s \in EntriesOf(x, mon.id) : Age(y, p) < Age(y, s) => Age(x, p) < Age(x, s)
    BY <1>4
<1> HIDE DEF id, sub
<1> QED BY <1>4, <1>6, <1>8, <1>9, <1>10, MonStays

-----------------------------------------------------------------------------
(* The monitor an operation is about.                                      *)

\* A live monitor's producer or reader goes, the slot being kept.
LEMMA MarkOwn ==
    ASSUME NEW x, QueOK(x), NEW mon \in Monitor, MonOK(x, mon), Live(x, mon.id),
           NEW y, NEW sub, Reslots(x, y, mon.id.slot, sub), sub # NoSub,
           sub.id = mon.id, sub.kind = x.subs[mon.id.slot].kind,
           sub.npend = x.subs[mon.id.slot].npend, sub.last = x.subs[mon.id.slot].last,
           NEW n, n.id = mon.id, n.posted = mon.posted, n.seen = mon.seen, n.eof = mon.eof,
           n.reader => mon.reader, n.sink => mon.sink,
           n.reader <=> ~reader_gone(sub), n.sink <=> ~producer_gone(sub)
    PROVE  MonOK(y, n)
<1>1. x \in QueInner /\ mon.id.slot \in Slots BY MonType DEF QueOK
<1>2. y.ring = x.ring /\ y.getix = x.getix /\ y.subs = [x.subs EXCEPT ![mon.id.slot] = sub]
    BY DEF Reslots
<1>3. y.subs[mon.id.slot] = sub BY <1>1, <1>2 DEF QueInner
<1>4. Live(y, n.id) BY <1>3 DEF Live
<1>5. EntriesOf(y, n.id) = EntriesOf(x, mon.id) BY <1>2 DEF EntriesOf, Occupied
<1>6. \A p : Age(y, p) = Age(x, p) BY <1>2 DEF Age
<1>7. HandleOK(y, n) BY <1>3, <1>4 DEF HandleOK, MonOK
<1>8. StreamOK(y, n) BY <1>2, <1>3, <1>4, <1>5, <1>6 DEF MonOK, StreamOK
<1> QED BY <1>7, <1>8 DEF MonOK

\* A monitor whose reader goes when it has no entries, or had gone: its slot is
\* not its own any more.
LEMMA GoneOwn ==
    ASSUME NEW x, QueOK(x), NEW mon \in Monitor, MonOK(x, mon),
           NEW y, QueOK(y), ~Live(y, mon.id),
           NEW n, n.id = mon.id, n.posted = mon.posted, n.seen = mon.seen, n.eof = mon.eof,
           ~n.reader, n.sink => mon.sink
    PROVE  MonOK(y, n)
<1>1. EntriesOf(y, n.id) = {} BY EntryFacts
<1>2. HandleOK(y, n) BY DEF HandleOK
<1>3. StreamOK(y, n) BY <1>1 DEF MonOK, StreamOK
<1> QED BY <1>2, <1>3 DEF MonOK

\* A monitor just attached.
LEMMA AttachOwn ==
    ASSUME NEW y, QueOK(y), NEW n \in Monitor, Live(y, n.id), n.sink, n.reader, ~n.eof,
           n.posted = 0, n.seen = 0, y.subs[n.id.slot].npend = 0, y.subs[n.id.slot].gone = {},
           y.subs[n.id.slot].kind = "Val"
    PROVE  MonOK(y, n)
<1>1. n.id \in AttachId BY MonType
<1>2. EntriesOf(y, n.id) = {} BY <1>1, NpendFacts
<1>3. HandleOK(y, n) BY DEF HandleOK, reader_gone, producer_gone
<1>4. StreamOK(y, n) BY <1>2 DEF StreamOK
<1> QED BY <1>3, <1>4 DEF MonOK

\* A post to the monitor itself: its newest entry has the value posted.
LEMMA PostOwn ==
    ASSUME NEW x, QueOK(x), NEW fl \in BOOLEAN, NEW mon \in Monitor, MonOK(x, mon),
           NEW log \in PostLog, log.data = "Val", log.value = mon.posted + 1,
           PostOutcome(x, fl, mon.id, log) # "Closed",
           NEW n, n.id = mon.id, n.sink = mon.sink, n.reader = mon.reader, n.eof = mon.eof,
           n.seen = mon.seen, n.posted = mon.posted + 1
    PROVE  MonOK(post(x, fl, mon.id, log), n)
<1> DEFINE id == mon.id
           y == post(x, fl, id, log)
           sub == x.subs[id.slot]
           E == EntriesOf(x, id)
<1>1. /\ id \in AttachId /\ mon.posted \in Nat /\ mon.seen \in Nat
      /\ mon.reader \in BOOLEAN /\ mon.sink \in BOOLEAN
    BY MonType
<1>2. /\ x \in QueInner /\ Live(x, id) /\ sub.gone = {} /\ sub \in SubQ /\ sub.npend \in Nat
      /\ id.slot \in Slots
    BY <1>1, OutcomeFacts DEF AttachId
<1>3. sub.kind = "Val" /\ ForKind(log, sub.kind) = log /\ ~is_ref(log)
  <2>1. sub.kind = "Val" BY <1>2 DEF MonOK, HandleOK
  <2> QED BY <2>1 DEF ForKind, is_ref
<1>4. mon.sink /\ mon.reader /\ ~mon.eof
  <2>1. mon.sink /\ mon.reader BY <1>2 DEF MonOK, HandleOK, reader_gone, producer_gone
  <2> QED BY <2>1 DEF MonOK, StreamOK
<1>5. /\ mon.seen <= mon.posted
      /\ \A p \in E : mon.seen < x.ring[p].log.value /\ x.ring[p].log.value <= mon.posted
      /\ \A p, s \in E : Age(x, p) < Age(x, s) => x.ring[p].log.value < x.ring[s].log.value
    BY DEF MonOK, StreamOK
<1>6. \A p \in E : p \in Occupied(x) /\ x.ring[p].log.value \in Nat /\ Age(x, p) \in Nat BY EntryFacts
<1>7. sub.npend > 0 => sub.last \in E /\ \A p \in E : Age(x, p) <= Age(x, sub.last)
    BY <1>1, <1>2, NpendFacts
<1>8. CASE PostOutcome(x, fl, id, log) = "Appended"
  <2> DEFINE t == TailPlace(x)
  <2>1. Appends(x, y, id, log) BY <1>1, <1>8, PostFields
  <2> HIDE DEF y
  <2>2. /\ t \in Places /\ t \notin Occupied(x)
        /\ EntriesOf(y, id) = E \cup {t} /\ y.ring[t].log = log
        /\ \A p \in Occupied(x) : y.ring[p] = x.ring[p]
        /\ \A p : Age(y, p) = Age(x, p)
        /\ \A p \in Occupied(x) : Age(x, p) \in Nat /\ Age(x, p) < Age(x, t)
        /\ Age(x, t) = x.used
    <3>1. ForKind(log, sub.kind) \in PostLog BY <1>3
    <3> QED BY <1>1, <1>3, <2>1, <3>1, AppendEntries
  <2>3. y.subs[id.slot] = [sub EXCEPT !.npend = sub.npend + 1, !.last = t]
      BY <1>2, <2>1 DEF Appends, QueInner
  <2> HIDE DEF t
  <2>4. /\ y.subs[id.slot].id = id /\ y.subs[id.slot].kind = "Val" /\ y.subs[id.slot].gone = {}
        /\ y.subs[id.slot].npend = sub.npend + 1 /\ y.subs[id.slot].last = t
        /\ y.subs[id.slot] # NoSub
    <3>1. sub.id = id BY <1>2 DEF Live
    <3>2. [sub EXCEPT !.npend = sub.npend + 1, !.last = t] \in SubQ
      <4>1. sub.npend + 1 \in Nat /\ t \in Places BY <1>2, <2>2
      <4> HIDE DEF sub
      <4> QED BY <1>2, <4>1 DEF SubQ
    <3> QED BY <1>2, <1>3, <2>3, <3>1, <3>2, SentinelAssumption DEF SubQ
  <2>5. Live(y, id) BY <2>4 DEF Live
  <2>6. HandleOK(y, n) BY <1>4, <2>4, <2>5 DEF HandleOK, reader_gone, producer_gone
  <2>7. \A p \in E \cup {t} : n.seen < y.ring[p].log.value /\ y.ring[p].log.value <= n.posted
    <3>1. n.seen < y.ring[t].log.value /\ y.ring[t].log.value <= n.posted BY <1>1, <1>5, <2>2
    <3>2. \A p \in E : y.ring[p].log.value = x.ring[p].log.value BY <1>6, <2>2
    <3>3. \A p \in E : n.seen < y.ring[p].log.value /\ y.ring[p].log.value <= n.posted
        BY <1>1, <1>5, <1>6, <3>2
    <3> QED BY <3>1, <3>3
  <2>8. ASSUME NEW p \in E \cup {t}, NEW s \in E \cup {t}, Age(y, p) < Age(y, s)
        PROVE  y.ring[p].log.value < y.ring[s].log.value
    <3>1. Age(x, p) < Age(x, s) BY <2>2, <2>8
    <3>2. p \in E
      <4>1. x.used \in Nat BY <1>2 DEF QueInner
      <4> SUFFICES ASSUME p = t PROVE FALSE OBVIOUS
      <4>2. s \in E BY <3>1, <2>2, <4>1
      <4>3. Age(x, s) \in Nat /\ Age(x, s) < Age(x, t) BY <1>6, <2>2, <4>2
      <4> QED BY <2>2, <3>1, <4>1, <4>3
    <3>3. y.ring[p].log.value = x.ring[p].log.value BY <1>6, <2>2, <3>2
    <3>4. CASE s = t
      <4>1. x.ring[p].log.value < mon.posted + 1 BY <1>1, <1>5, <1>6, <3>2
      <4> QED BY <2>2, <3>3, <3>4, <4>1
    <3>5. CASE s \in E
      <4>1. y.ring[s].log.value = x.ring[s].log.value BY <1>6, <2>2, <3>5
      <4> QED BY <1>5, <3>1, <3>2, <3>3, <3>5, <4>1
    <3> QED BY <3>4, <3>5
  <2>9. StreamOK(y, n)
    <3>1. n.seen <= n.posted BY <1>1, <1>5
    <3>2. y.ring[y.subs[id.slot].last].log.value = n.posted BY <2>2, <2>4
    <3>3. y.subs[id.slot].npend # 0 BY <1>2, <2>4
    <3> QED BY <1>4, <2>2, <2>7, <2>8, <3>1, <3>2, <3>3 DEF StreamOK
  <2> QED BY <2>6, <2>9 DEF MonOK, y
<1>9. CASE PostOutcome(x, fl, id, log) # "Appended"
  <2> DEFINE l == sub.last
             lg == Joined(x, fl, id, log)
  <2>1. Relogs(x, y, l, lg) BY <1>1, <1>9, PostFields
  <2>2. sub.npend > 0 /\ PostOutcome(x, fl, id, log) = "Replaced" BY <1>1, <1>3, <1>9, OutcomeFacts
  <2>3. l \in Occupied(x) /\ x.ring[l].log \in PostLog /\ l \in E BY <1>1, <1>2, <1>7, <2>2, LastFacts
  <2>4. lg \in PostLog /\ lg.value = mon.posted + 1
    <3>1. lg = [log EXCEPT !.mask = @ \cup x.ring[l].log.mask] BY <1>3, <2>2 DEF Joined
    <3> QED BY <2>3, <3>1 DEF PostLog
  <2> HIDE DEF y, lg
  <2>5. /\ EntriesOf(y, id) = E /\ y.ring[l].log = lg
        /\ \A p \in Occupied(x) : p # l => y.ring[p] = x.ring[p]
        /\ \A p : Age(y, p) = Age(x, p)
    <3>1. /\ \A i : EntriesOf(y, i) = EntriesOf(x, i) /\ y.ring[l].log = lg
          /\ \A p \in Occupied(x) : p # l => y.ring[p] = x.ring[p]
          /\ \A p : Age(y, p) = Age(x, p)
        BY <2>1, <2>3, <2>4, RelogEntries
    <3> QED BY <3>1
  <2>6. y.subs = x.subs BY <2>1 DEF Relogs
  <2>7. Live(y, id) BY <1>2, <2>6 DEF Live
  <2>8. HandleOK(y, n) BY <1>2, <1>3, <1>4, <2>6, <2>7 DEF HandleOK, reader_gone, producer_gone
  <2>9. \A p \in E : p # l => y.ring[p].log.value = x.ring[p].log.value BY <1>6, <2>5
  <2>10. \A p \in E : n.seen < y.ring[p].log.value /\ y.ring[p].log.value <= n.posted
    <3>1. n.seen < y.ring[l].log.value /\ y.ring[l].log.value <= n.posted BY <1>1, <1>5, <2>4, <2>5
    <3>2. \A p \in E : p # l => n.seen < y.ring[p].log.value /\ y.ring[p].log.value <= n.posted
        BY <1>1, <1>5, <1>6, <2>9
    <3> QED BY <3>1, <3>2
  <2>11. ASSUME NEW p \in E, NEW s \in E, Age(y, p) < Age(y, s)
         PROVE  y.ring[p].log.value < y.ring[s].log.value
    <3>1. Age(x, p) < Age(x, s) /\ Age(x, p) \in Nat /\ Age(x, s) \in Nat BY <1>6, <2>5, <2>11
    <3>2. p # l BY <1>7, <2>2, <3>1
    <3>3. CASE s = l
      <4>1. x.ring[p].log.value < mon.posted + 1 BY <1>1, <1>5, <1>6
      <4> QED BY <2>4, <2>5, <2>9, <3>2, <3>3, <4>1
    <3>4. CASE s # l BY <1>5, <2>9, <3>1, <3>2, <3>4
    <3> QED BY <3>3, <3>4
  <2>12. StreamOK(y, n)
    <3>1. n.seen <= n.posted BY <1>1, <1>5
    <3>2. y.ring[sub.last].log.value = n.posted BY <2>4, <2>5
    <3>3. sub.npend # 0 BY <1>2, <2>2
    <3> QED BY <1>4, <2>5, <2>6, <2>10, <2>11, <3>1, <3>2, <3>3 DEF StreamOK
  <2> QED BY <2>8, <2>12 DEF MonOK, y
<1> QED BY <1>8, <1>9

\* The head leaves: delivered to its own reader, or dropped with its cancelled
\* monitor.
LEMMA AdvanceOwn ==
    ASSUME NEW x, QueOK(x), x.used > 0, NEW y, QueOK(y), Advances(x, y),
           NEW mon \in Monitor, MonOK(x, mon), mon.id = HeadEntry(x).id,
           NEW n, n.id = mon.id, n.sink = mon.sink, n.reader = mon.reader, n.eof = mon.eof,
           n.posted = mon.posted,
           n.seen = IF HeadLive(x) THEN HeadEntry(x).log.value ELSE mon.seen
    PROVE  MonOK(y, n)
<1> DEFINE id == mon.id
           sub == x.subs[id.slot]
           new == y.subs[id.slot]
           E == EntriesOf(x, id)
           F == EntriesOf(y, id)
           h == x.getix
<1>1. /\ x \in QueInner /\ id \in AttachId /\ Live(x, id) /\ h \in E
    BY HeadFacts
<1>2. /\ id.slot \in Slots /\ sub \in SubQ /\ sub.npend \in Nat /\ (sub.npend = 0 <=> E = {})
      /\ sub.npend > 0 => sub.last \in E
      /\ sub.npend <= 1 => \A p, s \in E : p = s
    BY <1>1, NpendFacts
<1>3. sub.npend > 0 BY <1>1, <1>2
<1>4. F = E \ {h} BY AdvanceEntries
<1>5. E \subseteq Occupied(x) BY DEF EntriesOf
<1>6. /\ \A p \in Occupied(x) : p # h => y.ring[p] = x.ring[p] /\ Age(y, p) = Age(x, p) - 1
      /\ \A p \in Occupied(x) : Age(x, p) \in Nat /\ (p # h => Age(x, p) > 0)
      /\ Age(x, h) = 0
    BY AdvanceEntries
<1>7. \A p \in F : p \in E /\ p # h /\ y.ring[p] = x.ring[p] BY <1>4, <1>5, <1>6
<1>8. \A p, s \in F : Age(y, p) < Age(y, s) => Age(x, p) < Age(x, s) BY <1>5, <1>6, <1>7
<1>9. /\ mon.seen <= mon.posted
      /\ \A p \in E : mon.seen < x.ring[p].log.value /\ x.ring[p].log.value <= mon.posted
      /\ \A p, s \in E : Age(x, p) < Age(x, s) => x.ring[p].log.value < x.ring[s].log.value
    BY DEF MonOK, StreamOK
<1>10. x.ring[sub.last].log.value = mon.posted BY <1>1, <1>3 DEF MonOK, StreamOK
<1>11. mon.posted \in Nat /\ mon.seen \in Nat /\ mon.reader \in BOOLEAN BY MonType
<1>12. \A p \in E : x.ring[p].log.value \in Nat BY EntryFacts
<1>13. mon.reader <=> HeadLive(x) BY <1>1 DEF MonOK, HandleOK, HeadLive
<1>14. n.seen \in Nat /\ n.seen <= n.posted
  <2>1. HeadEntry(x).log.value \in Nat /\ HeadEntry(x).log.value <= mon.posted
      BY <1>1, <1>9, <1>12 DEF HeadEntry
  <2> QED BY <1>9, <1>11, <2>1
<1>15. ASSUME NEW p \in F PROVE n.seen < y.ring[p].log.value /\ y.ring[p].log.value <= n.posted
  <2>1. p \in E /\ p # h /\ y.ring[p] = x.ring[p] BY <1>7
  <2>2. Age(x, h) < Age(x, p) BY <1>5, <1>6, <2>1
  <2>3. x.ring[h].log.value < x.ring[p].log.value BY <1>1, <1>9, <2>1, <2>2
  <2> QED BY <1>9, <2>1, <2>3 DEF HeadEntry
<1>16. \A p, s \in F : Age(y, p) < Age(y, s) => y.ring[p].log.value < y.ring[s].log.value
    BY <1>7, <1>8, <1>9
<1>17. n.eof => F = {} /\ ~n.sink /\ n.seen = n.posted
  <2>1. ~mon.eof BY <1>1 DEF MonOK, StreamOK
  <2> QED BY <2>1
<1>18. new = IF sub.npend - 1 = 0 /\ reader_gone(sub) THEN NoSub
             ELSE [sub EXCEPT !.npend = sub.npend - 1]
    BY <1>1, <1>2 DEF Advances, QueInner
<1>19. CASE sub.npend - 1 = 0 /\ reader_gone(sub)
  <2>1. new = NoSub BY <1>18, <1>19
  <2>2. ~Live(y, id) BY <2>1 DEF Live
  <2>3. ~n.reader BY <1>1, <1>19 DEF MonOK, HandleOK
  <2>4. HandleOK(y, n) BY <2>2, <2>3 DEF HandleOK
  <2>5. StreamOK(y, n) BY <1>14, <1>15, <1>16, <1>17, <2>2 DEF StreamOK
  <2> QED BY <2>4, <2>5 DEF MonOK
<1>20. CASE ~(sub.npend - 1 = 0 /\ reader_gone(sub))
  <2>1. new = [sub EXCEPT !.npend = sub.npend - 1] BY <1>18, <1>20
  <2>2. /\ new.npend = sub.npend - 1 /\ new.last = sub.last /\ new.id = sub.id /\ new.kind = sub.kind
        /\ new.gone = sub.gone
      BY <1>2, <2>1 DEF SubQ
  <2>3. new # NoSub
    <3>1. sub.npend - 1 \in Nat BY <1>2, <1>3
    <3>2. new \in SubQ BY <1>2, <2>1, <3>1 DEF SubQ
    <3> QED BY <3>2, SentinelAssumption
  <2>4. Live(y, id) BY <1>1, <2>2, <2>3 DEF Live
  <2>5. new.npend > 0 => new.last \in F BY <1>1, <2>4, NpendFacts
  <2> HIDE DEF new
  <2>6. HandleOK(y, n)
      BY <1>1, <2>2, <2>4 DEF MonOK, HandleOK, new, reader_gone, producer_gone
  <2>7. new.npend > 0 => y.ring[new.last].log.value = n.posted BY <1>7, <1>10, <2>2, <2>5
  <2>8. new.npend = 0 /\ n.reader => n.seen = n.posted
    <3> SUFFICES ASSUME new.npend = 0, n.reader PROVE n.seen = n.posted OBVIOUS
    <3>1. sub.npend <= 1 BY <1>2, <2>2
    <3>2. sub.last = h BY <1>1, <1>2, <1>3, <3>1
    <3> QED BY <1>10, <1>13, <3>2 DEF HeadEntry
  <2>9. StreamOK(y, n) BY <1>14, <1>15, <1>16, <1>17, <2>7, <2>8 DEF StreamOK, new
  <2> QED BY <2>6, <2>9 DEF MonOK
<1> QED BY <1>19, <1>20

\* take_for: the entry is its reader's oldest, and comes to the head past the
\* entries of others; it is delivered, and every monitor's stream is in order.
LEMMA TakeKeeps ==
    ASSUME NEW x, QueOK(x), NEW own \in Monitor, MonOK(x, own), own.reader,
           NEW h \in EntriesOf(x, own.id), \A p \in EntriesOf(x, own.id) : Age(x, h) <= Age(x, p),
           NEW mon \in Monitor, MonOK(x, mon), NEW n \in Monitor,
           n.id = mon.id, n.sink = mon.sink, n.reader = mon.reader, n.eof = mon.eof,
           n.posted = mon.posted,
           mon.id = own.id => n.seen = x.ring[h].log.value, mon.id # own.id => n = mon
    PROVE  MonOK(advance(ToHead(x, Age(x, h))), n)
<1> DEFINE id == own.id
           j == Age(x, h)
           f == Moved(x, j)
           r == Rotated(x, j)
           u == advance(ToHead(x, j))
           v == advance(r)
           E == EntriesOf(x, mon.id)
<1>1. /\ id \in AttachId /\ Live(x, id) /\ h \in Places /\ h \in Occupied(x) /\ j \in Nat
      /\ x \in QueInner /\ x.ring[h].id = id
    BY EntryFacts DEF QueOK
<1>2. ~reader_gone(x.subs[id.slot]) BY <1>1 DEF MonOK, HandleOK
<1>3. /\ QueOK(r) /\ r.used > 0 /\ HeadEntry(r) = x.ring[h]
      /\ QueOK(u) /\ QueOK(v) /\ u.ring = v.ring /\ u.getix = v.getix
      /\ Remarks(v, u)
      /\ \A s \in Slots : v.subs[s] # NoSub /\ v.subs[s].npend > 0 => u.subs[s].last = v.subs[s].last
  <2>1. /\ QueOK(r) /\ r.used > 0 /\ HeadEntry(r) = x.ring[h] /\ HeadEntry(ToHead(x, j)) = x.ring[h]
        /\ QueOK(u) /\ QueOK(v) /\ u.ring = v.ring /\ u.getix = v.getix
        /\ Remarks(v, u)
        /\ \A s \in Slots : v.subs[s] # NoSub /\ v.subs[s].npend > 0 => u.subs[s].last = v.subs[s].last
      BY <1>1, <1>2, TakeForOK
  <2> QED BY <2>1
<1>4. j < x.used /\ j < size
  <2>1. j < x.used BY <1>1 DEF QueOK, RingOK, Contiguous, Occupied
  <2>2. j < size BY <1>1, AgeFacts, PlaceFacts
  <2> QED BY <2>1, <2>2
<1>5. /\ Remarks(x, r)
      /\ \A s \in Pending(x) : r.subs[s].last = f[x.subs[s].last]
      /\ \A p \in Places : r.ring[f[p]] = x.ring[p]
      /\ \A i : EntriesOf(r, i) = {f[p] : p \in EntriesOf(x, i)}
      /\ \A p : Age(r, p) = Age(x, p)
  <2>1. /\ r \in QueInner /\ r.getix = x.getix /\ r.used = x.used
        /\ r.n_duplicates = x.n_duplicates /\ r.quota = x.quota /\ r.free = x.free
        /\ r.unreported_ends = x.unreported_ends
        /\ Remarks(x, r)
        /\ \A s \in Pending(x) : r.subs[s].last = f[x.subs[s].last]
        /\ \A p \in Places : r.ring[f[p]] = x.ring[p]
        /\ \A i : EntriesOf(r, i) = {f[p] : p \in EntriesOf(x, i)}
        /\ \A p : Age(r, p) = Age(x, p)
      BY <1>1, <1>4, RotatedEntries
  <2> QED BY <2>1
<1>6. \A p \in Places : Age(x, f[p]) = IF Age(x, p) > j THEN Age(x, p)
                                       ELSE IF Age(x, p) = j THEN 0 ELSE Age(x, p) + 1
  <2>1. /\ f \in [Places -> Places]
        /\ \A p \in Places : Age(x, f[p]) = IF Age(x, p) > j THEN Age(x, p)
                                            ELSE IF Age(x, p) = j THEN 0 ELSE Age(x, p) + 1
        /\ \A p, s \in Places : f[p] = f[s] => p = s
        /\ \A y \in Places : \E p \in Places : f[p] = y
        /\ \A p \in Places : ToHead(x, j).ring[f[p]] = x.ring[p]
      BY <1>1, <1>4, MovedFacts
  <2> QED BY <2>1
<1>7. \A p \in E : p \in Places /\ Age(x, p) \in Nat /\ x.ring[p].id = mon.id BY EntryFacts
<1>8. mon.id \in AttachId /\ mon.id.slot \in Slots BY MonType
<1> HIDE DEF f, r, u, v
<1>9. MonOK(r, mon)
  <2>1. EntriesOf(r, mon.id) = {f[p] : p \in E} BY <1>5
  <2>2. \A p \in E : r.ring[f[p]].log = x.ring[p].log BY <1>5, <1>7
  <2>3. ASSUME NEW p \in E, NEW s \in E, Age(r, f[p]) < Age(r, f[s])
        PROVE  Age(x, p) < Age(x, s)
    <3>1. /\ p \in Places /\ s \in Places /\ Age(x, p) \in Nat /\ Age(x, s) \in Nat
          /\ Age(x, f[p]) < Age(x, f[s])
        BY <1>5, <1>7, <2>3
    <3>2. CASE Age(x, p) = j
      <4>1. p = h BY <1>1, <3>1, <3>2, AgeInjective
      <4>2. mon.id = id BY <1>1, <1>7, <4>1
      <4>3. j <= Age(x, s) BY <4>2
      <4>4. Age(x, s) # j BY <1>6, <3>1, <3>2
      <4> HIDE DEF j
      <4> QED BY <1>1, <3>1, <3>2, <4>3, <4>4
    <3>3. CASE Age(x, p) # j
      <4>1. /\ Age(x, f[p]) = IF Age(x, p) > j THEN Age(x, p) ELSE Age(x, p) + 1
            /\ Age(x, f[s]) = IF Age(x, s) > j THEN Age(x, s)
                              ELSE IF Age(x, s) = j THEN 0 ELSE Age(x, s) + 1
          BY <1>6, <3>1, <3>3
      <4> HIDE DEF j
      <4> QED BY <1>1, <3>1, <3>3, <4>1
    <3> QED BY <3>2, <3>3
  <2>4. Live(r, mon.id) <=> Live(x, mon.id) BY <1>5, <1>8 DEF Remarks, Live
  <2>5. Live(x, mon.id) =>
            /\ r.subs[mon.id.slot].gone = x.subs[mon.id.slot].gone
            /\ r.subs[mon.id.slot].kind = x.subs[mon.id.slot].kind
            /\ r.subs[mon.id.slot].npend = x.subs[mon.id.slot].npend
            /\ x.subs[mon.id.slot].npend > 0 =>
                    r.subs[mon.id.slot].last = f[x.subs[mon.id.slot].last]
      BY <1>5, <1>8 DEF Remarks, Live, Pending, Attached
  <2> QED BY <2>1, <2>2, <2>3, <2>4, <2>5, MonFrame
<1>10. Advances(r, v) BY <1>3, AdvanceFields DEF v
<1>11. MonOK(v, n)
  <2>1. CASE mon.id = id
    <3>1. HeadLive(r)
      <4>1. r.subs[id.slot].gone = x.subs[id.slot].gone
          BY <1>1, <1>5, <1>8, <2>1 DEF Remarks, Live
      <4> QED BY <1>1, <1>2, <1>3, <4>1 DEF HeadLive, reader_gone
    <3>2. n.seen = IF HeadLive(r) THEN HeadEntry(r).log.value ELSE mon.seen BY <1>3, <2>1, <3>1
    <3>3. mon.id = HeadEntry(r).id BY <1>1, <1>3, <2>1
    <3> QED BY <1>3, <1>9, <1>10, <3>2, <3>3, AdvanceOwn
  <2>2. CASE mon.id # id BY <1>1, <1>3, <1>9, <1>10, <2>2, AdvanceOthers
  <2> QED BY <2>1, <2>2
<1>12. MonOK(u, n)
  <2>1. EntriesOf(u, n.id) = EntriesOf(v, n.id) BY <1>3 DEF EntriesOf, Occupied
  <2>2. \A p : Age(u, p) = Age(v, p) BY <1>3 DEF Age
  <2>3. Live(u, n.id) <=> Live(v, n.id) BY <1>3, <1>8 DEF Remarks, Live
  <2>4. Live(v, n.id) =>
            /\ u.subs[n.id.slot].gone = v.subs[n.id.slot].gone
            /\ u.subs[n.id.slot].kind = v.subs[n.id.slot].kind
            /\ u.subs[n.id.slot].npend = v.subs[n.id.slot].npend
            /\ v.subs[n.id.slot].npend > 0 => u.subs[n.id.slot].last = v.subs[n.id.slot].last
      BY <1>3, <1>8 DEF Remarks, Live
  <2> QED BY <1>3, <1>11, <2>1, <2>2, <2>3, <2>4, MonStays
<1> QED BY <1>12 DEF u

-----------------------------------------------------------------------------
(* The invariant, action by action.                                        *)

\* What the type says of the monitors.
LEMMA MonsType ==
    ASSUME TypeOK
    PROVE  /\ DOMAIN mons = 1 .. Len(mons) /\ Len(mons) \in Nat
           /\ \A m \in DOMAIN mons : mons[m] \in Monitor
<1>1. mons \in Seq(Monitor) BY DEF TypeOK
<1>2. DOMAIN mons = 1 .. Len(mons) /\ Len(mons) \in Nat BY <1>1, LenProperties
<1>3. \A m \in 1 .. Len(mons) : mons[m] \in Monitor BY <1>1, ElementOfSeq
<1> QED BY <1>2, <1>3

\* One monitor's record changes.
LEMMA OneChanges ==
    ASSUME TypeOK, NEW m \in DOMAIN mons, NEW n \in Monitor, mons' = [mons EXCEPT ![m] = n]
    PROVE  /\ mons' \in Seq(Monitor) /\ Len(mons') = Len(mons) /\ DOMAIN mons' = DOMAIN mons
           /\ mons'[m] = n /\ \A j \in DOMAIN mons : j # m => mons'[j] = mons[j]
<1>1. mons \in Seq(Monitor) /\ DOMAIN mons = 1 .. Len(mons) BY MonsType DEF TypeOK
<1>2. /\ mons' \in Seq(Monitor) /\ Len(mons') = Len(mons)
      /\ \A j \in 1 .. Len(mons) : mons'[j] = IF j = m THEN n ELSE mons[j]
    BY <1>1, ExceptSeq
<1>3. DOMAIN mons' = DOMAIN mons OBVIOUS
<1> QED BY <1>1, <1>2, <1>3

\* Two monitors have different handles.
LEMMA IdsDiffer ==
    ASSUME ReaderInv, NEW m \in DOMAIN mons, NEW j \in DOMAIN mons, j # m
    PROVE  mons[j].id # mons[m].id
BY DEF ReaderInv

\* A step that changes neither the queue nor a monitor, and begins no take.
LEMMA Quiet ==
    ASSUME ReaderInv, TypeOK', UNCHANGED <<q, mons>>,
           pc' = "take" => pc = "take" /\ want' = want
    PROVE  ReaderInv'
<1>1. TypeOK /\ QueOK(q) /\ Taking /\ \A m \in DOMAIN mons : mons[m].id.gen = m /\ MonOK(q, mons[m])
    BY DEF ReaderInv
<1>2. QueOK(q)' BY <1>1
<1>3. Taking' BY <1>1 DEF Taking
<1>4. \A m \in DOMAIN mons' : mons'[m].id.gen = m /\ MonOK(q', mons'[m]) BY <1>1
<1> QED BY <1>2, <1>3, <1>4 DEF ReaderInv

\* A step that changes one monitor's record and perhaps the queue.
LEMMA OneStep ==
    ASSUME ReaderInv, NEW m \in DOMAIN mons, NEW n \in Monitor, mons' = [mons EXCEPT ![m] = n],
           n.id = mons[m].id, TypeOK', Taking', QueOK(q'), MonOK(q', n),
           \A j \in DOMAIN mons : j # m => MonOK(q', mons[j])
    PROVE  ReaderInv'
<1>1. TypeOK /\ \A j \in DOMAIN mons : mons[j].id.gen = j BY DEF ReaderInv
<1>2. /\ DOMAIN mons' = DOMAIN mons
      /\ mons'[m] = n /\ \A j \in DOMAIN mons : j # m => mons'[j] = mons[j]
    BY <1>1, OneChanges
<1>3. \A j \in DOMAIN mons' : mons'[j].id.gen = j /\ MonOK(q', mons'[j])
  <2> SUFFICES ASSUME NEW j \in DOMAIN mons PROVE mons'[j].id.gen = j /\ MonOK(q', mons'[j])
      BY <1>2
  <2>1. CASE j = m BY <1>1, <1>2, <2>1
  <2>2. CASE j # m BY <1>1, <1>2, <2>2
  <2> QED BY <2>1, <2>2
<1>4. QueOK(q)' OBVIOUS
<1> QED BY <1>3, <1>4 DEF ReaderInv

\* The type of what a step leaves to the task, the bursts and the counters.
LEMMA QuietSteps ==
    ASSUME ReaderInv,
           \/ OwedWake \/ flow_ctrl_on \/ flow_ctrl_off \/ FlowReleased \/ Resume \/ Park \/ SkipReader
           \/ \E p \in Producers : BurstWake(p)
           \/ \E m \in DOMAIN mons : PollNothing(m)
    PROVE  ReaderInv'
<1>1. TypeOK BY DEF ReaderInv
<1>2. Len(mons) \in Nat BY <1>1, MonsType
<1>3. CASE OwedWake
  <2>1. TypeOK'
    <3>1. wakesOwed' \in 0 .. 1 BY <1>3 DEF OwedWake
    <3>2. notified' \in BOOLEAN /\ parked' \in BOOLEAN BY <1>1, <1>3 DEF OwedWake, wake_readers, TypeOK
    <3> QED BY <1>1, <1>3, <3>1, <3>2 DEF OwedWake, taskVars, TypeOK
  <2> QED BY <1>3, <2>1, Quiet DEF OwedWake, taskVars
<1>4. CASE flow_ctrl_on
  <2>1. TypeOK' BY <1>1, <1>4 DEF flow_ctrl_on, taskVars, TypeOK
  <2> QED BY <1>4, <2>1, Quiet DEF flow_ctrl_on, taskVars
<1>5. CASE flow_ctrl_off
  <2>1. TypeOK' BY <1>1, <1>5 DEF flow_ctrl_off, taskVars, TypeOK
  <2> QED BY <1>5, <2>1, Quiet DEF flow_ctrl_off, taskVars
<1>6. CASE FlowReleased
  <2>1. TypeOK' BY <1>1, <1>6 DEF FlowReleased, wake_readers, taskVars, TypeOK
  <2> QED BY <1>6, <2>1, Quiet DEF FlowReleased, taskVars
<1>7. CASE Resume
  <2>1. TypeOK' BY <1>1, <1>7 DEF Resume, TypeOK
  <2> QED BY <1>7, <2>1, Quiet DEF Resume
<1>8. CASE Park
  <2>1. k' \in 1 .. (Len(mons) + 1) /\ pc' \in {"poll", "idle"} BY <1>1, <1>2, <1>8 DEF Park, NextReader, TypeOK
  <2>2. TypeOK' BY <1>1, <1>8, <2>1 DEF Park, TypeOK
  <2> QED BY <1>8, <2>1, <2>2, Quiet DEF Park
<1>9. CASE SkipReader
  <2>1. k' \in 1 .. (Len(mons) + 1) /\ pc' \in {"poll", "idle"} BY <1>1, <1>2, <1>9 DEF SkipReader, NextReader, TypeOK
  <2>2. TypeOK' BY <1>1, <1>9, <2>1 DEF SkipReader, TypeOK
  <2> QED BY <1>9, <2>1, <2>2, Quiet DEF SkipReader
<1>10. ASSUME NEW p \in Producers, BurstWake(p) PROVE ReaderInv'
  <2>1. TypeOK' BY <1>1, <1>10 DEF BurstWake, wake_readers, taskVars, TypeOK
  <2> QED BY <1>10, <2>1, Quiet DEF BurstWake, taskVars
<1>11. ASSUME NEW m \in DOMAIN mons, PollNothing(m) PROVE ReaderInv'
  <2>1. TypeOK' BY <1>1, <1>11 DEF PollNothing, TypeOK
  <2> QED BY <1>11, <2>1, Quiet DEF PollNothing
<1> QED BY <1>3, <1>4, <1>5, <1>6, <1>7, <1>8, <1>9, <1>10, <1>11

\* A step that changes the queue's flags only.
LEMMA FlagStep ==
    ASSUME ReaderInv, TypeOK', Taking', QueOK(q'), mons' = mons,
           q'.ring = q.ring, q'.getix = q.getix, q'.subs = q.subs
    PROVE  ReaderInv'
<1>1. TypeOK /\ QueOK(q) /\ \A m \in DOMAIN mons : mons[m].id.gen = m /\ MonOK(q, mons[m])
    BY DEF ReaderInv
<1>2. \A m \in DOMAIN mons : mons[m] \in Monitor BY <1>1, MonsType
<1>3. \A m \in DOMAIN mons : MonOK(q', mons[m])
  <2> SUFFICES ASSUME NEW m \in DOMAIN mons PROVE MonOK(q', mons[m]) OBVIOUS
  <2>1. MonOK(q, mons[m]) /\ mons[m] \in Monitor BY <1>1, <1>2
  <2> DEFINE y == q'
             mon == mons[m]
  <2>2. y.ring = q.ring /\ y.getix = q.getix /\ y.subs = q.subs /\ mon \in Monitor /\ MonOK(q, mon) BY <2>1
  <2> HIDE DEF y, mon
  <2>3. MonOK(y, mon) BY <1>1, <2>2, SameQueue
  <2> QED BY <2>3 DEF y, mon
<1>4. \A m \in DOMAIN mons' : mons'[m].id.gen = m /\ MonOK(q', mons'[m]) BY <1>1, <1>3
<1>5. QueOK(q)' OBVIOUS
<1> QED BY <1>4, <1>5 DEF ReaderInv

\* A reader begins a take: it has an entry.
LEMMA BeginTakeKeeps ==
    ASSUME ReaderInv, NEW m \in DOMAIN mons, BeginTake(m)
    PROVE  ReaderInv'
<1>1. TypeOK /\ QueOK(q) /\ q \in QueInner BY DEF ReaderInv, QueOK
<1>2. DOMAIN mons = 1 .. Len(mons) /\ Len(mons) \in Nat BY <1>1, MonsType
<1>3. q' = [q EXCEPT !.draining = TRUE] /\ pc' = "take" /\ want' = m /\ mons' = mons
      /\ mons[m].reader /\ q.subs[mons[m].id.slot].npend > 0
    BY DEF BeginTake, Sub
<1>4. q' \in QueInner /\ q'.ring = q.ring /\ q'.getix = q.getix /\ q'.subs = q.subs
    BY <1>1, <1>3 DEF QueInner
<1>5. QueOK(q') BY <1>1, <1>3, DrainingOK
<1>6. TypeOK'
  <2>1. want' \in 0 .. Len(mons) BY <1>2, <1>3
  <2> QED BY <1>1, <1>3, <1>4, <2>1 DEF BeginTake, TypeOK
<1>7. Taking' BY <1>3, <1>4 DEF Taking
<1> QED BY <1>3, <1>4, <1>5, <1>6, <1>7, FlagStep

\* A burst is over.
LEMMA WakeChainKeeps ==
    ASSUME ReaderInv, NEW p \in Producers, wake_chain(p)
    PROVE  ReaderInv'
<1>1. TypeOK /\ QueOK(q) /\ q \in QueInner BY DEF ReaderInv, QueOK
<1>2. q' = [q EXCEPT !.in_burst = FALSE] /\ pc' = pc /\ mons' = mons /\ pc # "take"
    BY DEF wake_chain, QueLocked, taskVars
<1>3. q' \in QueInner /\ q'.ring = q.ring /\ q'.getix = q.getix /\ q'.subs = q.subs
    BY <1>1, <1>2 DEF QueInner
<1>4. QueOK(q') BY <1>1, <1>2, InBurstOK
<1>5. TypeOK' BY <1>1, <1>3 DEF wake_chain, taskVars, TypeOK
<1>6. Taking' BY <1>2 DEF Taking
<1> QED BY <1>2, <1>3, <1>4, <1>5, <1>6, FlagStep

\* The end of the stream: nothing is queued, and the reader got the last post.
LEMMA EndKeeps ==
    ASSUME ReaderInv, NEW m \in DOMAIN mons, EndOfStream(m)
    PROVE  ReaderInv'
<1> DEFINE mon == mons[m]
           n == [mon EXCEPT !.eof = TRUE]
<1>1. TypeOK /\ QueOK(q) /\ Taking /\ \A j \in DOMAIN mons : MonOK(q, mons[j]) BY DEF ReaderInv
<1>2. mon \in Monitor /\ Len(mons) \in Nat BY <1>1, MonsType
<1>3. /\ n \in Monitor /\ n.id = mon.id /\ n.sink = mon.sink /\ n.reader = mon.reader /\ n.eof = TRUE
      /\ n.posted = mon.posted /\ n.seen = mon.seen
    BY <1>2 DEF Monitor
<1>4. /\ mon.reader /\ q.subs[mon.id.slot].npend = 0 /\ producer_gone(q.subs[mon.id.slot])
      /\ mons' = [mons EXCEPT ![m] = n] /\ q' = q /\ pc' = pc /\ want' = want /\ k' = 1 /\ pc = "poll"
    BY DEF EndOfStream, Polled, Sub
<1> HIDE DEF n, mon
<1>5. Live(q, mon.id) /\ ~mon.sink
  <2>1. MonOK(q, mon) BY <1>1 DEF mon
  <2>2. Live(q, mon.id) BY <1>4, <2>1 DEF MonOK, HandleOK
  <2> QED BY <1>4, <2>1, <2>2 DEF MonOK, HandleOK
<1>6. MonOK(q, n)
  <2>1. MonOK(q, mon) BY <1>1 DEF mon
  <2>2. mon.id \in AttachId BY <1>2, MonType
  <2>3. EntriesOf(q, mon.id) = {} BY <1>1, <1>4, <1>5, <2>2, NpendFacts
  <2>4. mon.seen = mon.posted BY <1>4, <1>5, <2>1 DEF MonOK, StreamOK
  <2>5. HandleOK(q, n) BY <1>3, <2>1 DEF MonOK, HandleOK
  <2>6. StreamOK(q, n)
    <3>1. mon.seen <= mon.posted BY <2>1 DEF MonOK, StreamOK
    <3>2. q.subs[mon.id.slot].npend = 0 => ~(q.subs[mon.id.slot].npend > 0) OBVIOUS
    <3> QED BY <1>3, <1>4, <1>5, <2>3, <2>4, <3>1, <3>2 DEF StreamOK
  <2> QED BY <2>5, <2>6 DEF MonOK
<1>7. mons' \in Seq(Monitor) /\ Len(mons') = Len(mons) BY <1>1, <1>3, <1>4, OneChanges
<1>8. TypeOK'
  <2>1. k' \in 1 .. (Len(mons') + 1) BY <1>2, <1>4, <1>7
  <2> QED BY <1>1, <1>7, <2>1 DEF EndOfStream, TypeOK
<1>9. Taking' BY <1>4 DEF Taking
<1>10. n.id = mons[m].id /\ QueOK(q') /\ MonOK(q', n) /\ \A j \in DOMAIN mons : MonOK(q', mons[j])
    BY <1>1, <1>3, <1>4, <1>6 DEF mon
<1> QED BY <1>3, <1>4, <1>8, <1>9, <1>10, OneStep

\* The type after a step that changes one monitor and leaves the task alone.
LEMMA OneType ==
    ASSUME TypeOK, NEW m \in DOMAIN mons, NEW n \in Monitor, mons' = [mons EXCEPT ![m] = n],
           q' \in QueInner, wakesOwed' \in 0 .. 1, posts' \in Nat,
           bursts' \in [Producers -> {"posting", "chained", "waking"}],
           UNCHANGED <<flow_on, parked, notified, releasing, toggles, taskVars>>
    PROVE  TypeOK'
<1>1. mons' \in Seq(Monitor) /\ Len(mons') = Len(mons) BY OneChanges
<1> QED BY <1>1 DEF TypeOK, taskVars

\* A slot's record changes for the monitor it holds: the others are not on it.
LEMMA OthersReslotted ==
    ASSUME ReaderInv, NEW m \in DOMAIN mons, Live(q, mons[m].id), NEW y, NEW sub,
           Reslots(q, y, mons[m].id.slot, sub), sub = NoSub \/ sub.id = mons[m].id
    PROVE  \A j \in DOMAIN mons : j # m => MonOK(y, mons[j])
<1> SUFFICES ASSUME NEW j \in DOMAIN mons, j # m PROVE MonOK(y, mons[j]) OBVIOUS
<1>1. TypeOK /\ QueOK(q) /\ MonOK(q, mons[j]) BY DEF ReaderInv
<1>2. mons[j] \in Monitor /\ mons[m] \in Monitor BY <1>1, MonsType
<1>3. mons[j].id # mons[m].id BY IdsDiffer
<1>4. mons[m].id.slot \in Slots BY <1>2, MonType
<1>5. mons[j].id.slot = mons[m].id.slot => ~Live(q, mons[j].id) BY <1>3 DEF Live
<1> QED BY <1>1, <1>2, <1>3, <1>4, <1>5, ReslotOthers

\* A producer goes: its monitor's slot says so.
LEMMA CloseProducerKeeps ==
    ASSUME ReaderInv, NEW m \in DOMAIN mons, CloseProducer(m)
    PROVE  ReaderInv'
<1> DEFINE mon == mons[m]
           id == mon.id
           n == [mon EXCEPT !.sink = FALSE]
           old == q.subs[id.slot]
           sub == [old EXCEPT !.gone = old.gone \cup {"producer"}]
<1>1. TypeOK /\ QueOK(q) /\ q \in QueInner /\ \A j \in DOMAIN mons : MonOK(q, mons[j])
    BY DEF ReaderInv, QueOK
<1>2. mon \in Monitor /\ id \in AttachId /\ id.slot \in Slots BY <1>1, MonsType, MonType
<1>3. /\ n \in Monitor /\ n.id = id /\ n.sink = FALSE /\ n.reader = mon.reader /\ n.eof = mon.eof
      /\ n.posted = mon.posted /\ n.seen = mon.seen
    BY <1>2 DEF Monitor
<1>4. /\ mons' = [mons EXCEPT ![m] = n] /\ pc # "take" /\ pc' = pc /\ posts' = posts /\ bursts' = bursts
      /\ UNCHANGED <<flow_on, parked, notified, releasing, toggles, taskVars>>
    BY DEF CloseProducer, QueLocked, taskVars
<1>5. Taking' BY <1>4 DEF Taking
<1>6. /\ posts \in Nat /\ wakesOwed \in 0 .. 1
      /\ bursts \in [Producers -> {"posting", "chained", "waking"}]
    BY <1>1 DEF TypeOK
<1>7. MonOK(q, mon) BY <1>1
<1>8. CASE Live(q, id)
  <2>1. q' = close_producer(q, id) /\ wakesOwed' = 1 BY <1>8 DEF CloseProducer
  <2>2. QueOK(q') BY <1>1, <1>2, <1>8, <2>1, CloseProducerOK
  <2>3. Reslots(q, q', id.slot, sub) BY <1>1, <1>2, <1>8, <2>1, CloseProducerFields
  <2>4. /\ old \in SubQ /\ old.id = id BY <1>1, <1>2, <1>8, SubFacts DEF Live
  <2>5. /\ sub # NoSub /\ sub.id = id /\ sub.kind = old.kind /\ sub.npend = old.npend
        /\ sub.last = old.last /\ sub.gone = old.gone \cup {"producer"}
    <3>1. sub \in SubQ BY <2>4 DEF SubQ, Gone
    <3> QED BY <2>4, <3>1, SentinelAssumption DEF SubQ
  <2> HIDE DEF n, sub
  <2>6. reader_gone(sub) <=> reader_gone(old) BY <2>5 DEF reader_gone
  <2>7. producer_gone(sub) BY <2>5 DEF producer_gone
  <2>8. mon.reader <=> ~reader_gone(old) BY <1>7, <1>8 DEF MonOK, HandleOK
  <2>9. MonOK(q', n)
    <3> DEFINE y == q'
    <3>1. Reslots(q, y, mon.id.slot, sub) BY <2>3
    <3> HIDE DEF y, mon, old
    <3>2. n.reader => mon.reader BY <1>3
    <3>3. n.reader <=> ~reader_gone(sub) BY <1>3, <2>6, <2>8
    <3>4. n.sink <=> ~producer_gone(sub) BY <1>3, <2>7
    <3>5. MonOK(y, n) BY <1>1, <1>2, <1>3, <1>7, <1>8, <2>5, <3>1, <3>2, <3>3, <3>4, MarkOwn DEF old
    <3> QED BY <3>5 DEF y
  <2>10. \A j \in DOMAIN mons : j # m => MonOK(q', mons[j]) BY <1>8, <2>3, <2>5, OthersReslotted
  <2>11. q' \in QueInner /\ wakesOwed' \in 0 .. 1 BY <2>1, <2>2 DEF QueOK
  <2>12. TypeOK' BY <1>1, <1>3, <1>4, <1>6, <2>11, OneType
  <2> QED BY <1>3, <1>4, <1>5, <2>2, <2>9, <2>10, <2>12, OneStep
<1>9. CASE ~Live(q, id)
  <2>1. q' = q /\ wakesOwed' = wakesOwed BY <1>9 DEF CloseProducer
  <2>2. TypeOK' BY <1>1, <1>3, <1>4, <1>6, <2>1, OneType
  <2>3. MonOK(q, n)
    <3>1. ~mon.reader BY <1>7, <1>9 DEF MonOK, HandleOK
    <3> HIDE DEF mon, n
    <3> QED BY <1>1, <1>2, <1>3, <1>7, <1>9, <3>1, GoneOwn
  <2> HIDE DEF n
  <2> QED BY <1>1, <1>3, <1>4, <1>5, <2>1, <2>2, <2>3, OneStep
<1> QED BY <1>8, <1>9

\* A reader goes: its slot is given back when it has no entries, and kept for
\* the drain otherwise.
LEMMA CloseReaderKeeps ==
    ASSUME ReaderInv, NEW m \in DOMAIN mons, CloseReader(m)
    PROVE  ReaderInv'
<1> DEFINE mon == mons[m]
           id == mon.id
           n == [mon EXCEPT !.reader = FALSE]
           old == q.subs[id.slot]
           sub == [old EXCEPT !.gone = old.gone \cup {"reader"}]
<1>1. TypeOK /\ QueOK(q) /\ q \in QueInner /\ \A j \in DOMAIN mons : MonOK(q, mons[j])
    BY DEF ReaderInv, QueOK
<1>2. mon \in Monitor /\ id \in AttachId /\ id.slot \in Slots BY <1>1, MonsType, MonType
<1>3. /\ n \in Monitor /\ n.id = id /\ n.reader = FALSE /\ n.sink = mon.sink /\ n.eof = mon.eof
      /\ n.posted = mon.posted /\ n.seen = mon.seen
    BY <1>2 DEF Monitor
<1>4. /\ mons' = [mons EXCEPT ![m] = n] /\ pc = "poll" /\ pc' = pc /\ posts' = posts /\ bursts' = bursts
      /\ UNCHANGED <<flow_on, parked, notified, releasing, toggles, taskVars>>
    BY DEF CloseReader, taskVars
<1>5. Taking' BY <1>4 DEF Taking
<1>6. /\ posts \in Nat /\ wakesOwed \in 0 .. 1
      /\ bursts \in [Producers -> {"posting", "chained", "waking"}]
    BY <1>1 DEF TypeOK
<1>7. MonOK(q, mon) BY <1>1
<1>8. CASE Live(q, id)
  <2>1. q' = close_reader(q, id) /\ wakesOwed' = 1 BY <1>8 DEF CloseReader
  <2>2. QueOK(q') BY <1>1, <1>2, <1>8, <2>1, CloseReaderOK
  <2>3. Reslots(q, q', id.slot, IF old.npend = 0 THEN NoSub ELSE sub)
      BY <1>1, <1>2, <1>8, <2>1, CloseReaderFields
  <2>4. q' \in QueInner /\ wakesOwed' \in 0 .. 1 BY <2>1, <2>2 DEF QueOK
  <2>5. TypeOK' BY <1>1, <1>3, <1>4, <1>6, <2>4, OneType
  <2>6. old \in SubQ /\ old.id = id BY <1>1, <1>2, <1>8, SubFacts DEF Live
  <2>7. CASE old.npend = 0
    <3>1. Reslots(q, q', id.slot, NoSub) BY <2>3, <2>7
    <3>2. MonOK(q', n)
      <4> DEFINE y == q'
      <4>1. Reslots(q, y, mon.id.slot, NoSub) /\ QueOK(y) BY <2>2, <3>1
      <4> HIDE DEF y, mon, n
      <4>2. y.subs[mon.id.slot] = NoSub BY <1>1, <1>2, <4>1 DEF Reslots, QueInner
      <4>3. ~Live(y, mon.id) BY <4>2 DEF Live
      <4>4. MonOK(y, n) BY <1>1, <1>2, <1>3, <1>7, <4>1, <4>3, GoneOwn
      <4> QED BY <4>4 DEF y
    <3>3. \A j \in DOMAIN mons : j # m => MonOK(q', mons[j])
      <4> DEFINE y == q'
      <4>1. Reslots(q, y, mons[m].id.slot, NoSub) BY <3>1
      <4> HIDE DEF y
      <4>2. \A j \in DOMAIN mons : j # m => MonOK(y, mons[j]) BY <1>8, <4>1, OthersReslotted
      <4> QED BY <4>2 DEF y
    <3> HIDE DEF n
    <3> QED BY <1>3, <1>4, <1>5, <2>2, <2>5, <3>2, <3>3, OneStep
  <2>8. CASE old.npend # 0
    <3>1. Reslots(q, q', id.slot, sub) BY <2>3, <2>8
    <3>2. /\ sub # NoSub /\ sub.id = id /\ sub.kind = old.kind /\ sub.npend = old.npend
          /\ sub.last = old.last /\ sub.gone = old.gone \cup {"reader"}
      <4>1. sub \in SubQ BY <2>6 DEF SubQ, Gone
      <4> QED BY <2>6, <4>1, SentinelAssumption DEF SubQ
    <3> HIDE DEF n, sub
    <3>3. producer_gone(sub) <=> producer_gone(old) BY <3>2 DEF producer_gone
    <3>4. reader_gone(sub) BY <3>2 DEF reader_gone
    <3>5. mon.sink <=> ~producer_gone(old) BY <1>7, <1>8 DEF MonOK, HandleOK
    <3>6. MonOK(q', n)
      <4> DEFINE y == q'
      <4>1. Reslots(q, y, mon.id.slot, sub) BY <3>1
      <4> HIDE DEF y, mon, old
      <4>2. n.sink => mon.sink BY <1>3
      <4>3. n.sink <=> ~producer_gone(sub) BY <1>3, <3>3, <3>5
      <4>4. n.reader <=> ~reader_gone(sub) BY <1>3, <3>4
      <4>5. MonOK(y, n) BY <1>1, <1>2, <1>3, <1>7, <1>8, <3>2, <4>1, <4>2, <4>3, <4>4, MarkOwn DEF old
      <4> QED BY <4>5 DEF y
    <3>7. \A j \in DOMAIN mons : j # m => MonOK(q', mons[j]) BY <1>8, <3>1, <3>2, OthersReslotted
    <3> QED BY <1>3, <1>4, <1>5, <2>2, <2>5, <3>6, <3>7, OneStep
  <2> QED BY <2>7, <2>8
<1>9. CASE ~Live(q, id)
  <2>1. ~mon.reader BY <1>7, <1>9 DEF MonOK, HandleOK
  <2> QED BY <2>1 DEF CloseReader
<1> QED BY <1>8, <1>9

\* A post: the monitor's newest entry has the new value.
LEMMA PostKeeps ==
    ASSUME ReaderInv, NEW p \in Producers, NEW m \in DOMAIN mons, Post(p, m)
    PROVE  ReaderInv'
<1> DEFINE mon == mons[m]
           n == [mon EXCEPT !.posted = mon.posted + 1]
           log == [data |-> "Val", value |-> mon.posted + 1, mask |-> Classes]
<1>1. TypeOK /\ QueOK(q) /\ \A j \in DOMAIN mons : MonOK(q, mons[j]) /\ mons[j] \in Monitor
    BY MonsType DEF ReaderInv
<1>2. mon \in Monitor /\ mon.id \in AttachId /\ mon.posted \in Nat BY <1>1, MonType
<1>3. /\ n \in Monitor /\ n.id = mon.id /\ n.reader = mon.reader /\ n.sink = mon.sink /\ n.eof = mon.eof
      /\ n.posted = mon.posted + 1 /\ n.seen = mon.seen
    BY <1>2 DEF Monitor
<1>4. log \in PostLog /\ log.data = "Val" /\ log.value = mon.posted + 1 BY <1>2 DEF PostLog, LogData
<1>5. /\ mons' = [mons EXCEPT ![m] = n] /\ pc # "take" /\ pc' = pc /\ posts' = posts + 1
      /\ wakesOwed' = wakesOwed
      /\ q' = post(q, flow_on, mon.id, log) /\ PostOutcome(q, flow_on, mon.id, log) # "Closed"
      /\ UNCHANGED <<flow_on, parked, notified, releasing, toggles, taskVars>>
    BY DEF Post, QueLocked, taskVars
<1>6. bursts' \in [Producers -> {"posting", "chained", "waking"}] BY <1>1 DEF Post, TypeOK
<1> HIDE DEF n, log
<1>7. /\ posts' \in Nat /\ wakesOwed' \in 0 .. 1 /\ flow_on \in BOOLEAN BY <1>1, <1>5 DEF TypeOK
<1>8. Taking' BY <1>5 DEF Taking
<1>9. QueOK(q') BY <1>1, <1>2, <1>4, <1>5, <1>7, PostOK
<1>10. q' \in QueInner BY <1>9 DEF QueOK
<1>11. TypeOK' BY <1>1, <1>3, <1>5, <1>6, <1>7, <1>10, OneType
<1>12. MonOK(q', n)
  <2>1. MonOK(post(q, flow_on, mon.id, log), n)
    <3>1. MonOK(q, mon) BY <1>1
    <3> HIDE DEF mon
    <3> QED BY <1>1, <1>2, <1>3, <1>4, <1>5, <1>7, <3>1, PostOwn
  <2> QED BY <1>5, <2>1
<1>13. ASSUME NEW j \in DOMAIN mons, j # m PROVE MonOK(q', mons[j])
  <2>1. mons[j].id # mon.id BY <1>13, IdsDiffer
  <2>2. MonOK(post(q, flow_on, mon.id, log), mons[j])
      BY <1>1, <1>2, <1>4, <1>5, <1>7, <2>1, PostOthers
  <2> QED BY <1>5, <2>2
<1> QED BY <1>3, <1>5, <1>8, <1>9, <1>11, <1>12, <1>13, OneStep

\* A reader is attached: a slot nobody is on becomes its own.
LEMMA AttachKeeps ==
    ASSUME ReaderInv, Attach
    PROVE  ReaderInv'
<1>1. /\ TypeOK /\ QueOK(q) /\ q \in QueInner
      /\ \A j \in DOMAIN mons : mons[j].id.gen = j /\ MonOK(q, mons[j]) /\ mons[j] \in Monitor
    BY MonsType DEF ReaderInv, QueOK
<1>2. DOMAIN mons = 1 .. Len(mons) /\ Len(mons) \in Nat /\ mons \in Seq(Monitor)
    BY <1>1, MonsType DEF TypeOK
<1> DEFINE g == Len(mons) + 1
           mon(slot) == [id |-> [gen |-> g, slot |-> slot], sink |-> TRUE, reader |-> TRUE,
                         eof |-> FALSE, posted |-> 0, seen |-> 0]
<1>3. PICK s \in q.free : q' = try_attach(q, g, s, "Val") /\ mons' = Append(mons, mon(s))
    BY DEF Attach
<1> DEFINE n == mon(s)
           id == [gen |-> g, slot |-> s]
           sub == [id |-> id, kind |-> "Val", npend |-> 0, last |-> 0, gone |-> {}, end_reported |-> FALSE]
<1>4. s \in Slots /\ q.subs[s] = NoSub BY <1>1 DEF QueOK, SlotsOK, QuotaCounts, Attached
<1>5. g \in Nat /\ id \in AttachId BY <1>2, <1>4 DEF AttachId
<1>6. /\ n \in Monitor /\ n.id = id /\ n.sink = TRUE /\ n.reader = TRUE /\ n.eof = FALSE
      /\ n.posted = 0 /\ n.seen = 0 /\ n.id.slot = s /\ id.gen = g
    BY <1>5 DEF Monitor
<1>7. QueOK(q')
  <2>1. CanAttach(q) /\ "Val" \in LogKind BY DEF Attach, LogKind
  <2> QED BY <1>1, <1>3, <1>5, <2>1, AttachOK
<1>8. Reslots(q, q', s, sub) BY <1>1, <1>3, <1>4, AttachFields
<1>9. sub.id = id /\ sub.kind = "Val" /\ sub.npend = 0 /\ sub.gone = {} /\ sub # NoSub
  <2>1. 0 \in Places BY PlaceFacts
  <2>2. sub \in SubQ BY <1>5, <2>1 DEF SubQ, LogKind
  <2> QED BY <2>2, SentinelAssumption
<1> HIDE DEF n, sub, id
<1>10. q'.subs[s] = sub BY <1>1, <1>4, <1>8 DEF Reslots, QueInner
<1>11. /\ mons' = Append(mons, n) /\ mons' \in Seq(Monitor) /\ Len(mons') = g
       /\ DOMAIN mons' = 1 .. g /\ mons'[g] = n /\ \A j \in DOMAIN mons : mons'[j] = mons[j]
  <2>1. mons' = Append(mons, n) BY <1>3 DEF n
  <2> QED BY <1>2, <1>6, <2>1, AppendProperties, LenProperties
<1>12. MonOK(q', n)
  <2> DEFINE y == q'
  <2>1. QueOK(y) /\ y.subs[s] = sub BY <1>7, <1>10
  <2> HIDE DEF y
  <2>2. Live(y, n.id) BY <1>6, <1>9, <2>1 DEF Live
  <2>3. MonOK(y, n) BY <1>6, <1>9, <2>1, <2>2, AttachOwn
  <2> QED BY <2>3 DEF y
<1>13. ASSUME NEW j \in DOMAIN mons PROVE MonOK(q', mons[j])
  <2> DEFINE y == q'
  <2>1. Reslots(q, y, s, sub) BY <1>8
  <2> HIDE DEF y
  <2>2. mons[j].id.gen = j /\ j # g BY <1>1, <1>2
  <2>3. sub.id # mons[j].id BY <1>6, <1>9, <2>2
  <2>4. mons[j].id.slot = s => ~Live(q, mons[j].id) BY <1>4 DEF Live
  <2>5. MonOK(y, mons[j]) BY <1>1, <1>4, <2>1, <2>3, <2>4, ReslotOthers
  <2> QED BY <2>5 DEF y
<1>14. TypeOK'
  <2>1. q' \in QueInner BY <1>7 DEF QueOK
  <2>2. k' \in 1 .. (Len(mons') + 1) /\ want' \in 0 .. Len(mons')
      BY <1>1, <1>2, <1>11 DEF Attach, taskVars, TypeOK
  <2> QED BY <1>1, <1>11, <2>1, <2>2 DEF Attach, taskVars, TypeOK
<1>15. Taking' BY DEF Attach, taskVars, Taking
<1>16. \A j \in DOMAIN mons' : mons'[j].id.gen = j /\ MonOK(q', mons'[j])
  <2> SUFFICES ASSUME NEW j \in DOMAIN mons' PROVE mons'[j].id.gen = j /\ MonOK(q', mons'[j]) OBVIOUS
  <2>1. j = g \/ j \in DOMAIN mons BY <1>2, <1>11
  <2>2. CASE j = g BY <1>6, <1>11, <1>12, <2>2
  <2>3. CASE j \in DOMAIN mons BY <1>1, <1>11, <1>13, <2>3
  <2> QED BY <2>1, <2>2, <2>3
<1>17. QueOK(q)' BY <1>7
<1> QED BY <1>14, <1>15, <1>16, <1>17 DEF ReaderInv

\* A cancelled entry at the head is dropped: it is not of the reader that
\* takes.
LEMMA PurgeKeeps ==
    ASSUME ReaderInv, Purge
    PROVE  ReaderInv'
<1> DEFINE own == mons[want]
           id == HeadEntry(q).id
<1>1. /\ TypeOK /\ QueOK(q) /\ q \in QueInner /\ Taking
      /\ \A j \in DOMAIN mons : mons[j].id.gen = j /\ MonOK(q, mons[j]) /\ mons[j] \in Monitor
    BY MonsType DEF ReaderInv, QueOK
<1>2. /\ pc = "take" /\ ~HeadLive(q) /\ q' = advance(q) /\ mons' = mons /\ want' = want
    BY DEF Purge, taskVars
<1>3. /\ want \in DOMAIN mons /\ own.reader /\ q.subs[own.id.slot].npend > 0
    BY <1>1, <1>2 DEF Taking
<1>4. own \in Monitor /\ MonOK(q, own) /\ own.id \in AttachId /\ own.id.slot \in Slots
    BY <1>1, <1>3, MonType
<1>5. Live(q, own.id) /\ ~reader_gone(q.subs[own.id.slot]) BY <1>3, <1>4 DEF MonOK, HandleOK
<1>6. q.used > 0
  <2> HIDE DEF own
  <2>1. q.subs[own.id.slot].last \in EntriesOf(q, own.id) BY <1>1, <1>3, <1>4, <1>5, NpendFacts
  <2>2. PICK o \in EntriesOf(q, own.id) : TRUE BY <2>1
  <2>3. o \in Places /\ q.ring[o] # NoEntry /\ Age(q, o) \in Nat
      BY <1>1, EntryFacts DEF EntriesOf, Occupied
  <2>4. Age(q, o) < q.used BY <1>1, <2>3 DEF QueOK, RingOK, Contiguous
  <2>5. q.used \in Nat BY <1>1 DEF QueInner
  <2> QED BY <2>3, <2>4, <2>5
<1>7. Advances(q, q') /\ QueOK(q') BY <1>1, <1>2, <1>6, AdvanceFields, AdvanceOK
<1>8. id \in AttachId /\ id.slot \in Slots BY <1>1, <1>6, HeadFacts DEF AttachId
<1>9. own.id.slot # id.slot BY <1>2, <1>5 DEF HeadLive
<1>10. q'.subs[own.id.slot] = q.subs[own.id.slot]
    BY <1>1, <1>4, <1>7, <1>8, <1>9 DEF Advances, QueInner
<1>11. Taking' BY <1>2, <1>3, <1>10 DEF Taking
<1>12. ASSUME NEW j \in DOMAIN mons PROVE MonOK(q', mons[j])
  <2> DEFINE y == q'
             mon == mons[j]
  <2>1. Advances(q, y) /\ QueOK(y) /\ mon \in Monitor /\ MonOK(q, mon) BY <1>1, <1>7
  <2> HIDE DEF y, mon
  <2>2. CASE mon.id = id
    <3>1. mon.seen = IF HeadLive(q) THEN HeadEntry(q).log.value ELSE mon.seen BY <1>2
    <3>2. MonOK(y, mon) BY <1>1, <1>6, <2>1, <2>2, <3>1, AdvanceOwn
    <3> QED BY <3>2 DEF y, mon
  <2>3. CASE mon.id # id
    <3>1. MonOK(y, mon) BY <1>1, <1>6, <2>1, <2>3, AdvanceOthers
    <3> QED BY <3>1 DEF y, mon
  <2> QED BY <2>2, <2>3
<1>13. TypeOK'
  <2>1. q' \in QueInner BY <1>7 DEF QueOK
  <2> QED BY <1>1, <1>2, <2>1 DEF Purge, taskVars, TypeOK
<1>14. \A j \in DOMAIN mons' : mons'[j].id.gen = j /\ MonOK(q', mons'[j]) BY <1>1, <1>2, <1>12
<1>15. QueOK(q)' BY <1>7
<1> QED BY <1>11, <1>13, <1>14, <1>15 DEF ReaderInv

\* A set of numbers that is not empty has a least one.
LEMMA LeastOne ==
    ASSUME NEW S, S \subseteq Nat, S # {}
    PROVE  \E x \in S : \A y \in S : x <= y
<1>1. PICK x \in S : \A y \in S : <<y, x>> \notin OpToRel(<, Nat)
  BY WFMin, NatLessThanWellFounded, Zenon
<1>2. \A y \in S : ~(y < x) BY <1>1 DEF OpToRel
<1>3. \A y \in S : x <= y BY <1>2
<1> QED BY <1>3

\* A monitor with entries has an oldest one, of the age Oldest.
LEMMA OldestFacts ==
    ASSUME QueOK(q), NEW m, EntriesOf(q, mons[m].id) # {}
    PROVE  \E h \in EntriesOf(q, mons[m].id) :
             /\ Age(q, h) = Oldest(m)
             /\ \A p \in EntriesOf(q, mons[m].id) : Age(q, h) <= Age(q, p)
<1> DEFINE E == EntriesOf(q, mons[m].id)
           ages == {Age(q, p) : p \in E}
<1>1. \A p \in E : Age(q, p) \in Nat BY EntryFacts
<1>2. ages \subseteq Nat /\ ages # {} BY <1>1
<1>3. \E a \in ages : \A b \in ages : a <= b BY <1>2, LeastOne
<1>4. Oldest(m) = CHOOSE a \in ages : \A b \in ages : a <= b BY DEF Oldest
<1>5. Oldest(m) \in ages /\ \A b \in ages : Oldest(m) <= b BY <1>3, <1>4
<1>6. PICK h \in E : Age(q, h) = Oldest(m) BY <1>5
<1> QED BY <1>5, <1>6

\* A take: the reader gets its oldest entry's value.
LEMMA TakeForKeeps ==
    ASSUME ReaderInv, take_for
    PROVE  ReaderInv'
<1> DEFINE own == mons[want]
           q1 == ToHead(q, Oldest(want))
           n == [own EXCEPT !.seen = HeadEntry(q1).log.value]
<1>1. /\ TypeOK /\ QueOK(q) /\ q \in QueInner /\ Taking /\ Len(mons) \in Nat
      /\ \A j \in DOMAIN mons : mons[j].id.gen = j /\ MonOK(q, mons[j]) /\ mons[j] \in Monitor
    BY MonsType DEF ReaderInv, QueOK
<1>2. /\ pc = "take" /\ q' = advance(q1) /\ mons' = [mons EXCEPT ![want] = n]
      /\ pc' = "poll" /\ want' = 0 /\ k' = 1
      /\ UNCHANGED <<flow_on, parked, notified, bursts, wakesOwed, releasing, posts, toggles>>
    BY DEF take_for
<1>3. /\ want \in DOMAIN mons /\ own.reader /\ q.subs[own.id.slot].npend > 0
    BY <1>1, <1>2 DEF Taking
<1>4. own \in Monitor /\ MonOK(q, own) /\ own.id \in AttachId BY <1>1, <1>3, MonType
<1>5. Live(q, own.id) /\ ~reader_gone(q.subs[own.id.slot]) BY <1>3, <1>4 DEF MonOK, HandleOK
<1>6. EntriesOf(q, own.id) # {}
  <2> HIDE DEF own
  <2>1. q.subs[own.id.slot].last \in EntriesOf(q, own.id) BY <1>1, <1>3, <1>4, <1>5, NpendFacts
  <2> QED BY <2>1
<1>7. PICK h \in EntriesOf(q, own.id) : /\ Age(q, h) = Oldest(want)
                                        /\ \A p \in EntriesOf(q, own.id) : Age(q, h) <= Age(q, p)
    BY <1>1, <1>6, OldestFacts
<1>8. HeadEntry(q1) = q.ring[h] /\ QueOK(q')
  <2> HIDE DEF own
  <2>1. HeadEntry(ToHead(q, Age(q, h))) = q.ring[h] /\ QueOK(advance(ToHead(q, Age(q, h))))
      BY <1>1, <1>4, <1>5, <1>7, TakeForOK
  <2> QED BY <1>2, <1>7, <2>1
<1>9. q.ring[h].log.value \in Nat BY <1>1, EntryFacts
<1>10. /\ n \in Monitor /\ n.id = own.id /\ n.sink = own.sink /\ n.reader = own.reader /\ n.eof = own.eof
       /\ n.posted = own.posted /\ n.seen = q.ring[h].log.value
    BY <1>4, <1>8, <1>9 DEF Monitor
<1> HIDE DEF n
<1>11. MonOK(q', n)
  <2> HIDE DEF own
  <2>1. ASSUME NEW mon \in Monitor, MonOK(q, mon), mon = own
        PROVE  MonOK(advance(ToHead(q, Age(q, h))), n)
    <3>1. /\ n.id = mon.id /\ n.sink = mon.sink /\ n.reader = mon.reader
          /\ n.eof = mon.eof /\ n.posted = mon.posted
        BY <1>10, <2>1
    <3>2. n.seen = q.ring[h].log.value /\ n \in Monitor BY <1>10
    <3>3. QueOK(q) /\ own.reader /\ own \in Monitor /\ MonOK(q, own) BY <1>1, <1>3, <1>4
    <3>4. mon.id = own.id /\ MonOK(q, mon) BY <2>1
    <3> QED BY <1>7, <3>1, <3>2, <3>3, <3>4, TakeKeeps
  <2>2. MonOK(advance(ToHead(q, Age(q, h))), n) BY <1>4, <2>1
  <2> QED BY <1>2, <1>7, <2>2
<1>12. ASSUME NEW j \in DOMAIN mons, j # want PROVE MonOK(q', mons[j])
  <2> DEFINE mon == mons[j]
  <2>1. mon.id # own.id BY <1>3, <1>12, IdsDiffer
  <2>2. mon \in Monitor /\ MonOK(q, mon) BY <1>1
  <2> HIDE DEF own, mon
  <2>3. MonOK(advance(ToHead(q, Age(q, h))), mon) BY <1>1, <1>3, <1>4, <1>7, <2>1, <2>2, TakeKeeps
  <2> QED BY <1>2, <1>7, <2>3 DEF mon
<1>13. TypeOK'
  <2>1. q' \in QueInner BY <1>8 DEF QueOK
  <2>2. mons' \in Seq(Monitor) /\ Len(mons') = Len(mons) BY <1>1, <1>2, <1>3, <1>10, OneChanges
  <2>3. k' \in 1 .. (Len(mons') + 1) /\ want' \in 0 .. Len(mons') BY <1>1, <1>2, <2>2
  <2> QED BY <1>1, <1>2, <2>1, <2>2, <2>3 DEF TypeOK
<1>14. Taking' BY <1>2 DEF Taking
<1> QED BY <1>2, <1>3, <1>8, <1>10, <1>11, <1>12, <1>13, <1>14, OneStep

\* At the start there is nothing to keep.
LEMMA InitKeeps == Init => ReaderInv
<1> SUFFICES ASSUME Init PROVE ReaderInv OBVIOUS
<1>1. q = NewQue /\ mons = <<>> /\ pc = "poll" BY DEF Init
<1>2. QueOK(q) /\ q \in QueInner BY <1>1, NewQueOK DEF QueOK
<1>3. DOMAIN mons = {} /\ Len(mons) = 0 /\ mons \in Seq(Monitor) BY <1>1
<1>4. k \in 1 .. (Len(mons) + 1) /\ want \in 0 .. Len(mons) /\ wakesOwed \in 0 .. 1
    BY <1>3 DEF Init
<1>5. TypeOK BY <1>2, <1>3, <1>4 DEF Init, TypeOK
<1>6. Taking BY <1>1 DEF Taking
<1> QED BY <1>2, <1>3, <1>5, <1>6 DEF ReaderInv

\* Every step of the task, the producers and flow control keeps it.
LEMMA ReaderInductive == ReaderInv /\ [Next]_vars => ReaderInv'
<1> SUFFICES ASSUME ReaderInv, [Next]_vars PROVE ReaderInv' OBVIOUS
<1>1. CASE UNCHANGED vars
  <2>1. TypeOK BY DEF ReaderInv
  <2>2. TypeOK' BY <1>1, <2>1 DEF vars, taskVars, TypeOK
  <2> QED BY <1>1, <2>2, Quiet DEF vars
<1>2. CASE Attach BY <1>2, AttachKeeps
<1>3. CASE OwedWake \/ flow_ctrl_on \/ flow_ctrl_off \/ FlowReleased BY <1>3, QuietSteps
<1>4. ASSUME NEW m \in DOMAIN mons, CloseProducer(m) \/ CloseReader(m) PROVE ReaderInv'
    BY <1>4, CloseProducerKeeps, CloseReaderKeeps
<1>5. ASSUME NEW p \in Producers,
             wake_chain(p) \/ BurstWake(p) \/ \E m \in DOMAIN mons : Post(p, m)
      PROVE ReaderInv'
    BY <1>5, WakeChainKeeps, QuietSteps, PostKeeps
<1>6. CASE Task
  <2>1. CASE Resume \/ Park \/ SkipReader BY <2>1, QuietSteps
  <2>2. CASE Purge BY <2>2, PurgeKeeps
  <2>3. CASE take_for BY <2>3, TakeForKeeps
  <2>4. ASSUME NEW m \in DOMAIN mons, BeginTake(m) \/ EndOfStream(m) \/ PollNothing(m) PROVE ReaderInv'
      BY <2>4, BeginTakeKeeps, EndKeeps, QuietSteps
  <2> QED BY <1>6, <2>1, <2>2, <2>3, <2>4 DEF Task
<1> QED BY <1>1, <1>2, <1>3, <1>4, <1>5, <1>6 DEF Next

\* The invariant says what the readers rely on.
LEMMA ReaderInvSound == ReaderInv => ReadersSound
<1> SUFFICES ASSUME ReaderInv PROVE ReadersSound OBVIOUS
<1>1. /\ TypeOK /\ QueOK(q) /\ \A j \in DOMAIN mons : MonOK(q, mons[j]) /\ mons[j] \in Monitor
    BY MonsType DEF ReaderInv
<1>2. RotatedRingSound BY <1>1 DEF RotatedRingSound, QueOK
<1>3. ASSUME NEW m \in DOMAIN mons
      PROVE  LET own == EntriesOf(q, mons[m].id)
             IN  /\ \A p, r \in own : Age(q, p) < Age(q, r) => q.ring[p].log.value < q.ring[r].log.value
                 /\ \A p \in own : q.ring[p].log.value > mons[m].seen
                 /\ mons[m].reader /\ mons[m].posted > mons[m].seen =>
                         \E p \in own : q.ring[p].log.value = mons[m].posted
                 /\ mons[m].eof => own = {} /\ mons[m].seen = mons[m].posted
  <2> DEFINE mon == mons[m]
             own == EntriesOf(q, mon.id)
             sub == q.subs[mon.id.slot]
  <2>1. MonOK(q, mon) /\ mon \in Monitor BY <1>1
  <2> HIDE DEF mon
  <2>2. mon.id \in AttachId /\ mon.seen \in Nat /\ mon.posted \in Nat BY <2>1, MonType
  <2>3. \A p \in own : q.ring[p].log.value \in Nat BY <1>1, EntryFacts
  <2>4. \A p, r \in own : Age(q, p) < Age(q, r) => q.ring[p].log.value < q.ring[r].log.value
      BY <2>1 DEF MonOK, StreamOK
  <2>5. \A p \in own : q.ring[p].log.value > mon.seen BY <2>1, <2>2, <2>3 DEF MonOK, StreamOK
  <2>6. ASSUME mon.reader, mon.posted > mon.seen
        PROVE  \E p \in own : q.ring[p].log.value = mon.posted
    <3>1. Live(q, mon.id) BY <2>1, <2>6 DEF MonOK, HandleOK
    <3>2. sub.npend \in Nat /\ (sub.npend > 0 => sub.last \in own) BY <1>1, <2>2, <3>1, NpendFacts
    <3>3. sub.npend # 0 BY <2>1, <2>2, <2>6, <3>1 DEF MonOK, StreamOK
    <3>4. sub.npend > 0 BY <3>2, <3>3
    <3>5. q.ring[sub.last].log.value = mon.posted BY <2>1, <3>1, <3>4 DEF MonOK, StreamOK
    <3> QED BY <3>2, <3>4, <3>5
  <2>7. mon.eof => own = {} /\ mon.seen = mon.posted BY <2>1 DEF MonOK, StreamOK
  <2> QED BY <2>4, <2>5, <2>6, <2>7 DEF mon
<1>4. ReaderInOrder BY <1>3 DEF ReaderInOrder
<1> QED BY <1>1, <1>2, <1>4 DEF ReadersSound

\* take_for's rotation keeps the ring and the newest-entry marks sound, and each
\* reader gets its own monitor's values in the order posted, the newest never
\* lost and the end of the stream after the last: for every number of readers,
\* producers and posts and every ring.
THEOREM ReadersAreSound == Spec => []ReadersSound
<1>1. Spec => []ReaderInv BY InitKeeps, ReaderInductive, PTL DEF Spec
<1> QED BY <1>1, ReaderInvSound, PTL

-----------------------------------------------------------------------------
(* The delivery fence: who owns the frames that are not dealt with.        *)

\* What is with the reader, until it is pushed, or with a subscription.
Own(h) == IF h = Reader THEN IF rpc = "push" THEN {routing.entry} ELSE {}
          ELSE Undelivered(h)

FrameEntry == [ticket : Nat \ {0}, frames : SUBSET (Nat \ {0}), kind : {"data", "finish", "bad"}]

FenceTyped ==
    /\ FenceTypeOK
    /\ queue \in [Subscriptions -> Seq(FrameEntry)]
    /\ held \in [Subscriptions -> FrameEntry \cup {Emptied}]
    /\ routing \in [sub : Threads, entry : FrameEntry \cup {Emptied}]
    /\ at \in [Replies -> Nat] /\ last \in Nat /\ last < next

\* An entry is of frames read and not dealt with, and has the ticket of the oldest.
EntryOK(e) ==
    /\ e \in FrameEntry /\ e.ticket \in e.frames /\ e.frames \subseteq Frames
    /\ \A f \in e.frames : e.ticket <= f /\ f \notin done /\ f \notin discarded

\* No two entries share a frame.
OwnedOnce ==
    \A g, h \in Threads : \A d \in Own(g), e \in Own(h) :
        (\E f : f \in d.frames /\ f \in e.frames) => g = h /\ d = e

OwnedOK == \A h \in Threads : \A e \in Own(h) : EntryOK(e)

\* The outstanding tickets are the entries'.
TicketsOwned == \A t : t \in outstanding <=> \E h \in Threads : \E e \in Own(h) : e.ticket = t

\* What was read is owned or dealt with.
FramesOwned ==
    /\ done \subseteq Frames /\ discarded \subseteq Frames /\ done \cap discarded = {}
    /\ \A f \in Frames : \/ f \in done \/ f \in discarded
                         \/ \E h \in Threads : \E e \in Own(h) : f \in e.frames

\* A backlog is in the order read, behind what its loop holds; and what was put
\* behind a data frame, data too, was put within the limit.
InOrder(log) == \A i, j \in DOMAIN log : i < j => log[i].ticket < log[j].ticket
WithinLimit(log) ==
    \A i \in DOMAIN log : i > 1 /\ log[i].kind = "data" /\ log[i - 1].kind = "data" => i <= Limit

BacklogOK(s) ==
    /\ InOrder(queue[s])
    /\ held[s] # Emptied => \A i \in DOMAIN queue[s] : held[s].ticket < queue[s][i].ticket
    /\ s \notin Pipelined => WithinLimit(queue[s])

\* A loop holds an entry while it waits for its turn or calls back, and the one
\* that calls back has the ticket last called back.
LoopOK(s) ==
    /\ held[s] # Emptied <=> lpc[s] \in {"turn", "waitTurn", "callback"}
    /\ lpc[s] = "callback" => held[s].ticket = last
    /\ registered[s] /\ shut[s] => Abandoned(s)

\* The reader routes to a subscription that is registered, the newest frame.
RoutingOK ==
    /\ rpc = "idle" => routing = [sub |-> Reader, entry |-> Emptied]
    /\ rpc # "idle" => /\ routing.sub \in Subscriptions /\ registered[routing.sub]
                       /\ routing.entry \in FrameEntry /\ routing.entry.frames \subseteq Frames
    /\ rpc = "push" => routing.entry.ticket = next - 1 /\ routing.entry.frames = {next - 1}

ReplyOK(y) ==
    /\ at[y] <= next
    /\ ypc[y] = "settled" => \A f \in Frames : f < at[y] => f \in done \/ f \in discarded

Owned == OwnedOK /\ OwnedOnce /\ TicketsOwned /\ FramesOwned

FenceInv ==
    /\ FenceTyped /\ Owned /\ RoutingOK
    /\ \A s \in Subscriptions : BacklogOK(s) /\ LoopOK(s)
    /\ \A y \in Replies : ReplyOK(y)
    /\ \A t \in outstanding : last <= t
    /\ discarded # {} => \E s \in Subscriptions : Abandoned(s)

\* Nobody's entries change.
LEMMA OwnKept ==
    ASSUME Owned, UNCHANGED <<next, outstanding, done, discarded>>,
           \A h \in Threads : Own(h)' = Own(h)
    PROVE  Owned'
<1>1. Frames' = Frames BY DEF Frames
<1>2. Threads' = Threads BY DEF Threads, Reader
<1>3. \A e : EntryOK(e)' <=> EntryOK(e) BY <1>1 DEF EntryOK, FrameEntry
<1>4. OwnedOK' BY <1>3 DEF Owned, OwnedOK, Threads, Reader
<1>5. OwnedOnce' BY DEF Owned, OwnedOnce, Threads, Reader
<1>6. TicketsOwned' BY DEF Owned, TicketsOwned, Threads, Reader
<1>7. FramesOwned' BY <1>1 DEF Owned, FramesOwned, Threads, Reader
<1> QED BY <1>4, <1>5, <1>6, <1>7 DEF Owned

\* A frame is read.
LEMMA OwnIssues ==
    ASSUME Owned, next \in Nat \ {0}, NEW e \in FrameEntry,
           Own(Reader) = {}, Own(Reader)' = {e}, \A h \in Threads : h # Reader => Own(h)' = Own(h),
           e.ticket = next, e.frames = {next},
           next' = next + 1, outstanding' = outstanding \cup {next}, UNCHANGED <<done, discarded>>
    PROVE  Owned'
<1>1. \A f : f \in Frames' <=> f \in Frames \/ f = next BY DEF Frames
<1>2. next \notin Frames BY DEF Frames
<1>3. Reader \in Threads BY DEF Threads
<1>4. OwnedOK'
  <2> SUFFICES ASSUME NEW h \in Threads, NEW d \in Own(h)' PROVE EntryOK(d)'
      BY DEF OwnedOK, Threads, Reader
  <2>1. CASE h = Reader
    <3>1. d = e BY <2>1
    <3>2. next \notin done /\ next \notin discarded BY <1>2 DEF Owned, FramesOwned
    <3> QED BY <1>1, <3>1, <3>2 DEF EntryOK, FrameEntry
  <2>2. CASE h # Reader
    <3>1. EntryOK(d) BY <2>2 DEF Owned, OwnedOK
    <3> QED BY <1>1, <3>1 DEF EntryOK, FrameEntry
  <2> QED BY <2>1, <2>2
<1>5. \A h \in Threads : h # Reader => \A d \in Own(h) : next \notin d.frames
    BY <1>2 DEF Owned, OwnedOK, EntryOK
<1>6. OwnedOnce'
  <2> SUFFICES ASSUME NEW g \in Threads, NEW h \in Threads, NEW d \in Own(g)', NEW x \in Own(h)',
                      NEW f, f \in d.frames, f \in x.frames
               PROVE  g = h /\ d = x
      BY DEF OwnedOnce, Threads, Reader
  <2>1. CASE g = Reader /\ h = Reader BY <2>1
  <2>2. CASE g # Reader /\ h # Reader BY <2>2 DEF Owned, OwnedOnce
  <2>3. CASE g = Reader /\ h # Reader BY <1>5, <2>3
  <2>4. CASE g # Reader /\ h = Reader BY <1>5, <2>4
  <2> QED BY <2>1, <2>2, <2>3, <2>4
<1>7. TicketsOwned'
  <2> SUFFICES ASSUME NEW t
               PROVE  t \in outstanding' <=> \E h \in Threads : \E d \in Own(h)' : d.ticket = t
      BY DEF TicketsOwned, Threads, Reader
  <2>1. t \in outstanding <=> \E h \in Threads : \E d \in Own(h) : d.ticket = t
      BY DEF Owned, TicketsOwned
  <2> QED BY <1>3, <2>1
<1>8. FramesOwned'
  <2>1. /\ done \subseteq Frames /\ discarded \subseteq Frames /\ done \cap discarded = {}
        /\ \A f \in Frames : \/ f \in done \/ f \in discarded
                             \/ \E h \in Threads : \E d \in Own(h) : f \in d.frames
      BY DEF Owned, FramesOwned
  <2>2. \A f \in Frames' : \/ f \in done \/ f \in discarded
                           \/ \E h \in Threads : \E d \in Own(h)' : f \in d.frames
      BY <1>1, <1>3, <2>1
  <2> QED BY <1>1, <2>1, <2>2 DEF FramesOwned, Threads, Reader
<1> QED BY <1>4, <1>6, <1>7, <1>8 DEF Owned

\* What the reader has goes to a subscription.
LEMMA OwnMoves ==
    ASSUME Owned, NEW s \in Threads, s # Reader, NEW e,
           Own(Reader) = {e}, Own(Reader)' = {}, Own(s)' = Own(s) \cup {e},
           \A h \in Threads : h # Reader /\ h # s => Own(h)' = Own(h),
           UNCHANGED <<next, outstanding, done, discarded>>
    PROVE  Owned'
<1>1. Frames' = Frames BY DEF Frames
<1>2. Reader \in Threads BY DEF Threads
<1>3. \A d : EntryOK(d)' <=> EntryOK(d) BY <1>1 DEF EntryOK, FrameEntry
<1> DEFINE From(h, d) == IF h = s /\ d = e THEN Reader ELSE h
<1>4. \A h \in Threads : \A d \in Own(h)' : From(h, d) \in Threads /\ d \in Own(From(h, d)) BY <1>2
<1>5. OwnedOK' BY <1>3, <1>4 DEF Owned, OwnedOK, Threads, Reader
<1>6. OwnedOnce'
  <2> SUFFICES ASSUME NEW g \in Threads, NEW h \in Threads, NEW d \in Own(g)', NEW x \in Own(h)',
                      NEW f, f \in d.frames, f \in x.frames
               PROVE  g = h /\ d = x
      BY DEF OwnedOnce, Threads, Reader
  <2>1. From(g, d) = From(h, x) /\ d = x
    <3>1. /\ From(g, d) \in Threads /\ d \in Own(From(g, d))
          /\ From(h, x) \in Threads /\ x \in Own(From(h, x))
        BY <1>4
    <3> HIDE DEF From
    <3> QED BY <3>1 DEF Owned, OwnedOnce
  <2>2. g # Reader /\ h # Reader OBVIOUS
  <2> QED BY <2>1, <2>2
<1> HIDE DEF From
<1>7. \A h \in Threads : \A d \in Own(h) : \E g \in Threads : d \in Own(g)' BY DEF From
<1>8. TicketsOwned' BY <1>4, <1>7 DEF Owned, TicketsOwned, Threads, Reader
<1>9. FramesOwned'
  <2>1. /\ done \subseteq Frames /\ discarded \subseteq Frames /\ done \cap discarded = {}
        /\ \A f \in Frames : \/ f \in done \/ f \in discarded
                             \/ \E h \in Threads : \E d \in Own(h) : f \in d.frames
      BY DEF Owned, FramesOwned
  <2>2. \A f \in Frames : \/ f \in done \/ f \in discarded
                          \/ \E h \in Threads : \E d \in Own(h)' : f \in d.frames
      BY <1>7, <2>1
  <2> QED BY <1>1, <2>1, <2>2 DEF FramesOwned, Threads, Reader
<1> QED BY <1>5, <1>6, <1>8, <1>9 DEF Owned

\* What the reader has is merged into an older entry of a subscription, and its
\* ticket released.
LEMMA OwnMerges ==
    ASSUME Owned, NEW s \in Threads, s # Reader, NEW e, NEW d \in Own(s), NEW x \in FrameEntry,
           Own(Reader) = {e}, Own(Reader)' = {}, Own(s)' = (Own(s) \ {d}) \cup {x},
           \A h \in Threads : h # Reader /\ h # s => Own(h)' = Own(h),
           x.ticket = d.ticket, x.frames = d.frames \cup e.frames, \A f \in e.frames : d.ticket <= f,
           outstanding' = outstanding \ {e.ticket}, UNCHANGED <<next, done, discarded>>
    PROVE  Owned'
<1>1. Frames' = Frames BY DEF Frames
<1>2. Reader \in Threads BY DEF Threads
<1>3. \A z : EntryOK(z)' <=> EntryOK(z) BY <1>1 DEF EntryOK, FrameEntry
<1>4. EntryOK(d) /\ EntryOK(e) BY <1>2 DEF Owned, OwnedOK
<1>5. EntryOK(x) BY <1>4 DEF EntryOK
<1>6. OwnedOK' BY <1>3, <1>5 DEF Owned, OwnedOK, Threads, Reader
<1>7. \A g, h \in Threads : \A y \in Own(g), z \in Own(h) :
        (\E f : f \in y.frames /\ f \in z.frames) => g = h /\ y = z
    BY DEF Owned, OwnedOnce
<1>8. \A h \in Threads : \A z \in Own(h)' :
        /\ h # Reader
        /\ \/ z \in Own(h) /\ ~(h = s /\ z = d)
           \/ z = x /\ h = s
    OBVIOUS
<1>9. \A h \in Threads : \A z \in Own(h) : (h # Reader /\ ~(h = s /\ z = d)) =>
        \A f \in x.frames : f \notin z.frames
  <2> SUFFICES ASSUME NEW h \in Threads, NEW z \in Own(h), h # Reader, ~(h = s /\ z = d),
                      NEW f \in x.frames, f \in z.frames
               PROVE  FALSE
      OBVIOUS
  <2>1. CASE f \in d.frames BY <1>7, <2>1
  <2>2. CASE f \in e.frames
    <3>1. e \in Own(Reader) OBVIOUS
    <3> QED BY <1>2, <1>7, <2>2, <3>1
  <2> QED BY <2>1, <2>2
<1>10. OwnedOnce'
  <2> SUFFICES ASSUME NEW g \in Threads, NEW h \in Threads, NEW y \in Own(g)', NEW z \in Own(h)',
                      NEW f, f \in y.frames, f \in z.frames
               PROVE  g = h /\ y = z
      BY DEF OwnedOnce, Threads, Reader
  <2>1. CASE y = x /\ g = s /\ z = x /\ h = s BY <2>1
  <2>2. CASE ~(y = x /\ g = s) /\ z = x /\ h = s BY <1>8, <1>9, <2>2
  <2>3. CASE y = x /\ g = s /\ ~(z = x /\ h = s) BY <1>8, <1>9, <2>3
  <2>4. CASE ~(y = x /\ g = s) /\ ~(z = x /\ h = s) BY <1>7, <1>8, <2>4
  <2> QED BY <2>1, <2>2, <2>3, <2>4
<1>11. TicketsOwned'
  <2> SUFFICES ASSUME NEW t
               PROVE  t \in outstanding' <=> \E h \in Threads : \E z \in Own(h)' : z.ticket = t
      BY DEF TicketsOwned, Threads, Reader
  <2>1. t \in outstanding <=> \E h \in Threads : \E z \in Own(h) : z.ticket = t
      BY DEF Owned, TicketsOwned
  <2>2. ASSUME NEW h \in Threads, NEW z \in Own(h)', z.ticket = t PROVE t \in outstanding'
    <3>1. e.ticket \in e.frames BY <1>4 DEF EntryOK
    <3>2. e \in Own(Reader) OBVIOUS
    <3>3. \E y \in Own(h) : h # Reader /\ y.ticket = t BY <1>8, <2>2
    <3>4. PICK y \in Own(h) : h # Reader /\ y.ticket = t BY <3>3
    <3>5. t \in y.frames BY <3>4 DEF Owned, OwnedOK, EntryOK
    <3>6. t # e.ticket BY <1>2, <1>7, <3>1, <3>2, <3>4, <3>5
    <3> QED BY <2>1, <3>4, <3>6
  <2>3. ASSUME t \in outstanding' PROVE \E h \in Threads : \E z \in Own(h)' : z.ticket = t
    <3>1. PICK h \in Threads : \E z \in Own(h) : z.ticket = t BY <2>1, <2>3
    <3>2. PICK z \in Own(h) : z.ticket = t BY <3>1
    <3>3. h # Reader BY <2>3, <3>2
    <3>4. CASE h = s /\ z = d
      <4>1. x \in Own(s)' /\ x.ticket = t BY <3>2, <3>4
      <4> QED BY <4>1
    <3>5. CASE ~(h = s /\ z = d)
      <4>1. z \in Own(h)' BY <3>3, <3>5
      <4> QED BY <3>2, <4>1
    <3> QED BY <3>4, <3>5
  <2> QED BY <2>2, <2>3
<1>12. FramesOwned'
  <2>1. /\ done \subseteq Frames /\ discarded \subseteq Frames /\ done \cap discarded = {}
        /\ \A f \in Frames : \/ f \in done \/ f \in discarded
                             \/ \E h \in Threads : \E z \in Own(h) : f \in z.frames
      BY DEF Owned, FramesOwned
  <2>2. ASSUME NEW h \in Threads, NEW z \in Own(h), NEW f \in z.frames
        PROVE  \E g \in Threads : \E y \in Own(g)' : f \in y.frames
    <3>1. x \in Own(s)' OBVIOUS
    <3>2. CASE h = Reader \/ (h = s /\ z = d)
      <4>1. f \in x.frames BY <2>2, <3>2
      <4> QED BY <3>1, <4>1
    <3>3. CASE ~(h = Reader \/ (h = s /\ z = d))
      <4>1. z \in Own(h)' BY <3>3
      <4> QED BY <2>2, <4>1
    <3> QED BY <3>2, <3>3
  <2>3. \A f \in Frames : \/ f \in done \/ f \in discarded
                          \/ \E h \in Threads : \E z \in Own(h)' : f \in z.frames
      BY <2>1, <2>2
  <2> QED BY <1>1, <2>1, <2>3 DEF FramesOwned, Threads, Reader
<1> QED BY <1>6, <1>10, <1>11, <1>12 DEF Owned

\* An entry is dealt with, and its ticket released.
LEMMA OwnDrops ==
    ASSUME Owned, NEW s \in Threads, NEW e \in Own(s), Own(s)' = Own(s) \ {e},
           \A h \in Threads : h # s => Own(h)' = Own(h),
           outstanding' = outstanding \ {e.ticket}, next' = next,
           \/ done' = done \cup e.frames /\ discarded' = discarded
           \/ discarded' = discarded \cup e.frames /\ done' = done
    PROVE  Owned'
<1>1. Frames' = Frames BY DEF Frames
<1>2. EntryOK(e) BY DEF Owned, OwnedOK
<1>3. \A g, h \in Threads : \A y \in Own(g), z \in Own(h) :
        (\E f : f \in y.frames /\ f \in z.frames) => g = h /\ y = z
    BY DEF Owned, OwnedOnce
<1>4. \A h \in Threads : \A z \in Own(h)' : z \in Own(h) /\ ~(h = s /\ z = e) OBVIOUS
<1>5. \A h \in Threads : \A z \in Own(h) : ~(h = s /\ z = e) => z \in Own(h)' OBVIOUS
<1>6. OwnedOK'
  <2> SUFFICES ASSUME NEW h \in Threads, NEW z \in Own(h)' PROVE EntryOK(z)'
      BY DEF OwnedOK, Threads, Reader
  <2>1. z \in Own(h) /\ ~(h = s /\ z = e) BY <1>4
  <2>2. EntryOK(z) BY <2>1 DEF Owned, OwnedOK
  <2>3. \A f \in z.frames : f \notin e.frames BY <1>3, <2>1
  <2> QED BY <1>1, <2>2, <2>3 DEF EntryOK, FrameEntry
<1>7. OwnedOnce'
  <2> SUFFICES ASSUME NEW g \in Threads, NEW h \in Threads, NEW y \in Own(g)', NEW z \in Own(h)',
                      NEW f, f \in y.frames, f \in z.frames
               PROVE  g = h /\ y = z
      BY DEF OwnedOnce, Threads, Reader
  <2> QED BY <1>3, <1>4
<1>8. TicketsOwned'
  <2> SUFFICES ASSUME NEW t
               PROVE  t \in outstanding' <=> \E h \in Threads : \E z \in Own(h)' : z.ticket = t
      BY DEF TicketsOwned, Threads, Reader
  <2>1. t \in outstanding <=> \E h \in Threads : \E z \in Own(h) : z.ticket = t
      BY DEF Owned, TicketsOwned
  <2>2. ASSUME NEW h \in Threads, NEW z \in Own(h)', z.ticket = t PROVE t \in outstanding'
    <3>1. e.ticket \in e.frames BY <1>2 DEF EntryOK
    <3>2. z \in Own(h) /\ ~(h = s /\ z = e) BY <1>4
    <3>3. t \in z.frames BY <2>2, <3>2 DEF Owned, OwnedOK, EntryOK
    <3>4. t # e.ticket BY <1>3, <3>1, <3>2, <3>3
    <3> QED BY <2>1, <2>2, <3>2, <3>4
  <2> QED BY <1>5, <2>1, <2>2
<1>9. FramesOwned'
  <2>1. /\ done \subseteq Frames /\ discarded \subseteq Frames /\ done \cap discarded = {}
        /\ \A f \in Frames : \/ f \in done \/ f \in discarded
                             \/ \E h \in Threads : \E z \in Own(h) : f \in z.frames
      BY DEF Owned, FramesOwned
  <2>2. \A f \in e.frames : f \in Frames /\ f \notin done /\ f \notin discarded BY <1>2 DEF EntryOK
  <2>3. /\ done' \subseteq Frames /\ discarded' \subseteq Frames /\ done' \cap discarded' = {}
      BY <2>1, <2>2
  <2>4. \A f \in Frames : \/ f \in done' \/ f \in discarded'
                          \/ \E h \in Threads : \E z \in Own(h)' : f \in z.frames
      BY <1>5, <2>1
  <2> QED BY <1>1, <2>3, <2>4 DEF FramesOwned, Threads, Reader
<1> QED BY <1>6, <1>7, <1>8, <1>9 DEF Owned

\* A subscription nothing changes for.
LEMMA SubKept ==
    ASSUME NEW s \in Subscriptions, BacklogOK(s), LoopOK(s), last' = last,
           queue'[s] = queue[s], held'[s] = held[s], lpc'[s] = lpc[s],
           registered'[s] = registered[s], shut'[s] = shut[s]
    PROVE  BacklogOK(s)' /\ LoopOK(s)'
BY DEF BacklogOK, LoopOK, Abandoned, Emptied

\* Replies as more is dealt with.
LEMMA RepliesKept ==
    ASSUME FenceInv, UNCHANGED <<at, ypc>>, next' = next \/ next' = next + 1,
           done \subseteq done', discarded \subseteq discarded'
    PROVE  \A y \in Replies : ReplyOK(y)'
<1> SUFFICES ASSUME NEW y \in Replies PROVE ReplyOK(y)' OBVIOUS
<1>1. next \in Nat /\ at[y] \in Nat BY DEF FenceInv, FenceTyped, FenceTypeOK, Frames
<1>2. ReplyOK(y) BY DEF FenceInv
<1>3. \A f \in Frames' : f < at[y] => f \in Frames BY <1>1, <1>2 DEF Frames, ReplyOK
<1> QED BY <1>1, <1>2, <1>3 DEF ReplyOK

\* The release of a ticket.
LEMMA DropEffect ==
    ASSUME NEW h, NEW t, drop(h, t)
    PROVE  outstanding' = outstanding \ {t} /\ waiter' \subseteq waiter /\ t \notin waiter'
BY DEF drop

\* The oldest of the outstanding tickets.
LEMMA OldestIs ==
    ASSUME FenceInv, outstanding # {}
    PROVE  OldestOf(outstanding) \in outstanding /\ \A t \in outstanding : OldestOf(outstanding) <= t
<1>1. outstanding \subseteq Nat BY DEF FenceInv, FenceTyped, FenceTypeOK, Frames
<1>2. \E x \in outstanding : \A y \in outstanding : x <= y BY <1>1, LeastOne
<1> QED BY <1>2 DEF OldestOf, Min

\* What a subscription has.
LEMMA SubOwns ==
    ASSUME FenceInv, NEW s \in Subscriptions
    PROVE  /\ s \in Threads /\ s # Reader /\ Own(s) = Undelivered(s)
           /\ queue[s] \in Seq(FrameEntry)
           /\ \A i \in DOMAIN queue[s] : queue[s][i] \in Own(s)
           /\ held[s] # Emptied => held[s] \in Own(s) /\ held[s] \in FrameEntry
           /\ \A e \in Own(s) : e.ticket \in outstanding /\ EntryOK(e)
<1>1. s \in Threads /\ s # Reader BY FenceBounds DEF Threads
<1>2. Own(s) = Undelivered(s) BY <1>1 DEF Own
<1>3. queue[s] \in Seq(FrameEntry) /\ held[s] \in FrameEntry \cup {Emptied}
    BY DEF FenceInv, FenceTyped
<1>4. \A i \in DOMAIN queue[s] : queue[s][i] \in Own(s) BY <1>2 DEF Undelivered, ToSet
<1>5. held[s] # Emptied => held[s] \in Own(s) /\ held[s] \in FrameEntry BY <1>2, <1>3 DEF Undelivered
<1>6. \A e \in Own(s) : e.ticket \in outstanding /\ EntryOK(e)
    BY <1>1 DEF FenceInv, Owned, OwnedOK, TicketsOwned
<1> QED BY <1>1, <1>2, <1>3, <1>4, <1>5, <1>6

\* Nobody's entries change when neither backlogs, loops' entries nor the reader do.
LEMMA OwnStays ==
    ASSUME Owned, UNCHANGED <<next, outstanding, done, discarded, queue, held, rpc, routing>>
    PROVE  Owned'
<1>1. \A h \in Threads : Own(h)' = Own(h) BY DEF Own, Undelivered, Emptied, Reader
<1> QED BY <1>1, OwnKept

\* The steps of a reply.
LEMMA ReplyKept ==
    ASSUME FenceInv, NEW y \in Replies, point(y) \/ ReplyStep(y)
    PROVE  FenceInv'
<1>1. /\ FenceTyped /\ Owned /\ RoutingOK
      /\ \A s \in Subscriptions : BacklogOK(s) /\ LoopOK(s)
      /\ \A x \in Replies : ReplyOK(x)
      /\ \A t \in outstanding : last <= t
      /\ discarded # {} => \E s \in Subscriptions : Abandoned(s)
    BY DEF FenceInv
<1>2. UNCHANGED <<next, outstanding, waiter, owed, queue, shut, permit, registered, lpc, held,
                  rpc, routing, last, done, discarded, ends>>
    BY DEF point, ReplyStep, enable, check, Await, ticketVars, loopVars, readerVars, history
<1>3. next \in Nat \ {0} /\ at \in [Replies -> Nat] BY <1>1 DEF FenceTyped, FenceTypeOK, Frames
<1> DEFINE Steps == {"unrouted", "enable", "check", "poll", "await", "settled"}
<1>4. ypc \in [Replies -> Steps] /\ told \in [Replies -> {"no", "waiting", "fired"}]
    BY <1>1 DEF FenceTyped, FenceTypeOK
<1>5. ypc' \in [Replies -> Steps]
    BY <1>4 DEF point, ReplyStep, enable, check, Await
<1>6. told' \in [Replies -> {"no", "waiting", "fired"}]
    BY <1>4 DEF point, ReplyStep, enable, check, Await
<1>7. at' \in [Replies -> Nat] BY <1>3 DEF point, ReplyStep, enable, check, Await
<1>8. FenceTyped'
    BY <1>1, <1>2, <1>5, <1>6, <1>7 DEF FenceTyped, FenceTypeOK, Frames, FrameEntry, Threads, Emptied, Reader
<1>9. Owned' BY <1>1, <1>2, OwnStays
<1>10. RoutingOK' BY <1>1, <1>2 DEF RoutingOK, Frames, FrameEntry, Reader, Emptied
<1>11. \A s \in Subscriptions : BacklogOK(s)' /\ LoopOK(s)' BY <1>1, <1>2, SubKept
<1>12. ASSUME NEW x \in Replies PROVE ReplyOK(x)'
  <2>1. ReplyOK(x) /\ Frames' = Frames BY <1>1, <1>2 DEF Frames
  <2>2. CASE x # y
    <3>1. at'[x] = at[x] /\ ypc'[x] = ypc[x]
        BY <1>3, <1>4, <2>2 DEF point, ReplyStep, enable, check, Await
    <3> QED BY <1>2, <2>1, <3>1 DEF ReplyOK
  <2>3. CASE x = y
    <3>1. CASE point(y)
      <4>1. ypc'[y] = "enable" /\ (at'[y] = 0 \/ at'[y] = next) BY <1>3, <1>4, <3>1 DEF point
      <4> QED BY <1>2, <1>3, <2>3, <4>1 DEF ReplyOK
    <3>2. CASE enable(y)
      <4>1. at' = at /\ (ypc'[y] = "settled" => at[y] = 0) BY <1>4, <3>2 DEF enable
      <4>2. \A f \in Frames : ~(f < 0) BY DEF Frames
      <4> QED BY <1>2, <2>1, <2>3, <4>1, <4>2 DEF ReplyOK
    <3>3. CASE check(y)
      <4>1. at' = at /\ (ypc'[y] = "settled" => reached(y)) BY <1>4, <3>3 DEF check
      <4>2. ASSUME reached(y), NEW f \in Frames, f < at[y] PROVE f \in done \/ f \in discarded
        <5> SUFFICES ASSUME f \notin done, f \notin discarded PROVE FALSE OBVIOUS
        <5>1. PICK h \in Threads : \E e \in Own(h) : f \in e.frames BY <1>1 DEF Owned, FramesOwned
        <5>2. PICK e \in Own(h) : f \in e.frames BY <5>1
        <5>3. EntryOK(e) BY <1>1 DEF Owned, OwnedOK
        <5>4. e.ticket \in Nat /\ f \in Nat /\ at[y] \in Nat /\ e.ticket <= f
            BY <1>3, <5>2, <5>3 DEF EntryOK, FrameEntry, Frames
        <5>5. e.ticket \in outstanding BY <1>1 DEF Owned, TicketsOwned
        <5>6. OldestOf(outstanding) \in outstanding /\ OldestOf(outstanding) <= e.ticket
            BY <5>5, OldestIs
        <5>7. OldestOf(outstanding) \in Nat
          <6>1. outstanding \subseteq Nat BY <1>1 DEF FenceTyped, FenceTypeOK, Frames
          <6> QED BY <5>6, <6>1
        <5>8. OldestOf(outstanding) >= at[y] BY <4>2, <5>5 DEF reached
        <5> QED BY <4>2, <5>4, <5>6, <5>7, <5>8
      <4> QED BY <1>2, <2>1, <2>3, <4>1, <4>2 DEF ReplyOK
    <3>4. CASE Await(y)
      <4>1. at' = at /\ ypc'[y] # "settled" BY <1>4, <3>4 DEF Await
      <4> QED BY <1>2, <2>1, <2>3, <4>1 DEF ReplyOK
    <3> QED BY <3>1, <3>2, <3>3, <3>4 DEF ReplyStep
  <2> QED BY <2>2, <2>3
<1>13. \A t \in outstanding' : last' <= t BY <1>1, <1>2
<1>14. discarded' # {} => \E s \in Subscriptions : Abandoned(s)' BY <1>1, <1>2 DEF Abandoned
<1> QED BY <1>8, <1>9, <1>10, <1>11, <1>12, <1>13, <1>14 DEF FenceInv

\* The wakes a release owes.
LEMMA SignalKept ==
    ASSUME FenceInv, NEW t \in Threads, Signal(t)
    PROVE  FenceInv'
<1>1. /\ FenceTyped /\ Owned /\ RoutingOK
      /\ \A s \in Subscriptions : BacklogOK(s) /\ LoopOK(s)
      /\ \A x \in Replies : ReplyOK(x)
      /\ \A x \in outstanding : last <= x
      /\ discarded # {} => \E s \in Subscriptions : Abandoned(s)
    BY DEF FenceInv
<1>2. UNCHANGED <<next, outstanding, waiter, queue, shut, permit, registered, held, rpc, routing,
                  ypc, at, last, done, discarded, ends>>
    BY DEF Signal, readerVars, history
<1> DEFINE Steps == {"recv", "wait", "turn", "waitTurn", "callback", "abandon", "discard"}
<1>3. lpc \in [Subscriptions -> Steps] /\ told \in [Replies -> {"no", "waiting", "fired"}]
    BY <1>1 DEF FenceTyped, FenceTypeOK
<1>4. \A s \in Subscriptions : lpc'[s] = lpc[s] \/ (lpc[s] = "waitTurn" /\ lpc'[s] = "turn")
    BY DEF Signal
<1>5. lpc' \in [Subscriptions -> Steps] BY <1>3 DEF Signal
<1>6. told' \in [Replies -> {"no", "waiting", "fired"}] BY <1>3 DEF Signal
<1>7. FenceTyped'
    BY <1>1, <1>2, <1>5, <1>6 DEF FenceTyped, FenceTypeOK, Frames, FrameEntry, Threads, Emptied, Reader
<1>8. Owned' BY <1>1, <1>2, OwnStays
<1>9. RoutingOK' BY <1>1, <1>2 DEF RoutingOK, Frames, FrameEntry, Reader, Emptied
<1>10. ASSUME NEW s \in Subscriptions PROVE BacklogOK(s)' /\ LoopOK(s)'
  <2>1. BacklogOK(s)' BY <1>1, <1>2 DEF BacklogOK, Emptied
  <2>2. LoopOK(s)' BY <1>1, <1>2, <1>4 DEF LoopOK, Emptied, Abandoned
  <2> QED BY <2>1, <2>2
<1>11. \A y \in Replies : ReplyOK(y)' BY <1>2, RepliesKept
<1>12. \A x \in outstanding' : last' <= x BY <1>1, <1>2
<1>13. discarded' # {} => \E s \in Subscriptions : Abandoned(s)' BY <1>1, <1>2, <1>4 DEF Abandoned
<1> QED BY <1>7, <1>8, <1>9, <1>10, <1>11, <1>12, <1>13 DEF FenceInv

\* A subscription's slot is taken away.
LEMMA CloseKept ==
    ASSUME FenceInv, NEW s \in Subscriptions, close(s)
    PROVE  FenceInv'
<1>1. /\ FenceTyped /\ Owned /\ RoutingOK
      /\ \A x \in Subscriptions : BacklogOK(x) /\ LoopOK(x)
      /\ \A x \in Replies : ReplyOK(x)
      /\ \A x \in outstanding : last <= x
      /\ discarded # {} => \E x \in Subscriptions : Abandoned(x)
    BY DEF FenceInv
<1>2. UNCHANGED <<next, outstanding, waiter, queue, lpc, held, rpc, routing,
                  ypc, at, told, last, done, discarded, ends>>
    BY DEF close, ticketVars, loopVars, readerVars, replyVars, history
<1>3. shut \in [Subscriptions -> BOOLEAN] /\ permit \in [Subscriptions -> BOOLEAN]
      /\ registered \in [Subscriptions -> BOOLEAN]
    BY <1>1 DEF FenceTyped, FenceTypeOK
<1>4. shut' \in [Subscriptions -> BOOLEAN] /\ permit' \in [Subscriptions -> BOOLEAN]
      /\ registered' \in [Subscriptions -> BOOLEAN]
    BY <1>3 DEF close
<1>5. FenceTyped'
    BY <1>1, <1>2, <1>4 DEF FenceTyped, FenceTypeOK, Frames, FrameEntry, Threads, Emptied, Reader
<1>6. Owned' BY <1>1, <1>2, OwnStays
<1>7. /\ ~registered'[s] /\ routing.sub # s
      /\ \A x \in Subscriptions : x # s => registered'[x] = registered[x] /\ shut'[x] = shut[x]
    BY <1>3 DEF close
<1>8. RoutingOK' BY <1>1, <1>2, <1>7 DEF RoutingOK, Frames, FrameEntry, Reader, Emptied
<1>9. ASSUME NEW x \in Subscriptions PROVE BacklogOK(x)' /\ LoopOK(x)'
  <2>1. CASE x # s BY <1>1, <1>2, <1>7, <2>1, SubKept
  <2>2. CASE x = s
    <3>1. BacklogOK(x)' BY <1>1, <1>2 DEF BacklogOK, Emptied
    <3>2. LoopOK(x)' BY <1>1, <1>2, <1>7, <2>2 DEF LoopOK, Emptied, Abandoned
    <3> QED BY <3>1, <3>2
  <2> QED BY <2>1, <2>2
<1>10. \A y \in Replies : ReplyOK(y)' BY <1>2, RepliesKept
<1>11. \A x \in outstanding' : last' <= x BY <1>1, <1>2
<1>12. discarded' # {} => \E x \in Subscriptions : Abandoned(x)' BY <1>1, <1>2 DEF Abandoned
<1> QED BY <1>5, <1>6, <1>8, <1>9, <1>10, <1>11, <1>12 DEF FenceInv

\* A loop is woken by its backlog, or closes it on its way out.
LEMMA LoopMoves ==
    ASSUME FenceInv, NEW s \in Subscriptions, Notified(s) \/ abandon(s)
    PROVE  FenceInv'
<1>1. /\ FenceTyped /\ Owned /\ RoutingOK
      /\ \A x \in Subscriptions : BacklogOK(x) /\ LoopOK(x)
      /\ \A x \in Replies : ReplyOK(x)
      /\ \A x \in outstanding : last <= x
      /\ discarded # {} => \E x \in Subscriptions : Abandoned(x)
    BY DEF FenceInv
<1>2. UNCHANGED <<next, outstanding, waiter, queue, registered, held, rpc, routing,
                  ypc, at, told, last, done, discarded, ends>>
    BY DEF Notified, abandon, ticketVars, readerVars, replyVars, history
<1> DEFINE Steps == {"recv", "wait", "turn", "waitTurn", "callback", "abandon", "discard"}
<1>3. lpc \in [Subscriptions -> Steps] /\ shut \in [Subscriptions -> BOOLEAN]
      /\ permit \in [Subscriptions -> BOOLEAN]
    BY <1>1 DEF FenceTyped, FenceTypeOK
<1>4. lpc' \in [Subscriptions -> Steps] BY <1>3 DEF Notified, abandon
<1>5. shut' \in [Subscriptions -> BOOLEAN] /\ permit' \in [Subscriptions -> BOOLEAN]
    BY <1>3 DEF Notified, abandon
<1>6. FenceTyped'
    BY <1>1, <1>2, <1>4, <1>5 DEF FenceTyped, FenceTypeOK, Frames, FrameEntry, Threads, Emptied, Reader
<1>7. Owned' BY <1>1, <1>2, OwnStays
<1>8. RoutingOK' BY <1>1, <1>2 DEF RoutingOK, Frames, FrameEntry, Reader, Emptied
<1>9. /\ \/ lpc[s] = "wait" /\ lpc'[s] = "recv" /\ shut'[s] = shut[s]
         \/ lpc[s] = "abandon" /\ lpc'[s] = "discard"
      /\ \A x \in Subscriptions : x # s => lpc'[x] = lpc[x] /\ shut'[x] = shut[x]
    BY <1>3 DEF Notified, abandon, LoopAt
<1>10. ASSUME NEW x \in Subscriptions PROVE BacklogOK(x)' /\ LoopOK(x)'
  <2>1. CASE x # s BY <1>1, <1>2, <1>9, <2>1, SubKept
  <2>2. CASE x = s
    <3>1. BacklogOK(x)' BY <1>1, <1>2 DEF BacklogOK, Emptied
    <3>2. LoopOK(x)' BY <1>1, <1>2, <1>9, <2>2 DEF LoopOK, Emptied, Abandoned
    <3> QED BY <3>1, <3>2
  <2> QED BY <2>1, <2>2
<1>11. \A y \in Replies : ReplyOK(y)' BY <1>2, RepliesKept
<1>12. \A x \in outstanding' : last' <= x BY <1>1, <1>2
<1>13. discarded' # {} => \E x \in Subscriptions : Abandoned(x)' BY <1>1, <1>2, <1>9 DEF Abandoned
<1> QED BY <1>6, <1>7, <1>8, <1>10, <1>11, <1>12, <1>13 DEF FenceInv

\* A loop asks for its turn.
LEMMA TurnKept ==
    ASSUME FenceInv, NEW s \in Subscriptions, turn(s)
    PROVE  FenceInv'
<1>1. /\ FenceTyped /\ Owned /\ RoutingOK
      /\ \A x \in Subscriptions : BacklogOK(x) /\ LoopOK(x)
      /\ \A x \in Replies : ReplyOK(x)
      /\ \A x \in outstanding : last <= x
      /\ discarded # {} => \E x \in Subscriptions : Abandoned(x)
    BY DEF FenceInv
<1>2. UNCHANGED <<next, outstanding, queue, shut, permit, registered, held, rpc, routing,
                  ypc, at, told, done, discarded, ends>>
    BY DEF turn, readerVars, replyVars
<1> DEFINE Steps == {"recv", "wait", "turn", "waitTurn", "callback", "abandon", "discard"}
           tk == held[s].ticket
<1>3. lpc \in [Subscriptions -> Steps] /\ outstanding \subseteq Nat /\ waiter \subseteq outstanding
      /\ last \in Nat /\ outstanding \subseteq Frames /\ next \in Nat
    BY <1>1 DEF FenceTyped, FenceTypeOK, Frames
<1>4. lpc[s] = "turn" BY DEF turn, LoopAt
<1>5. held[s] # Emptied BY <1>1, <1>4 DEF LoopOK
<1>6. tk \in outstanding BY <1>5, SubOwns
<1>7. lpc' \in [Subscriptions -> Steps] BY <1>3 DEF turn
<1>8. \A x \in Subscriptions : x # s => lpc'[x] = lpc[x] BY <1>3 DEF turn
<1>9. \/ IsOldest(tk) /\ lpc'[s] = "callback" /\ last' = tk /\ waiter' = waiter
      \/ lpc'[s] = "waitTurn" /\ last' = last /\ waiter' = waiter \cup {tk}
    BY <1>3 DEF turn
<1>10. IsOldest(tk) => \A x \in outstanding : tk <= x
    BY <1>6, OldestIs DEF IsOldest
<1> HIDE DEF tk
<1>11. waiter' \subseteq outstanding' BY <1>2, <1>3, <1>6, <1>9
<1>12. last' \in Nat /\ last' < next'
  <2>1. last < next BY <1>1 DEF FenceTyped
  <2>2. tk \in Nat /\ tk < next BY <1>3, <1>6 DEF Frames
  <2> QED BY <1>2, <1>3, <1>9, <2>1, <2>2
<1>13. FenceTyped'
    BY <1>1, <1>2, <1>7, <1>11, <1>12
    DEF FenceTyped, FenceTypeOK, Frames, FrameEntry, Threads, Emptied, Reader
<1>14. Owned' BY <1>1, <1>2, OwnStays
<1>15. RoutingOK' BY <1>1, <1>2 DEF RoutingOK, Frames, FrameEntry, Reader, Emptied
<1>16. ASSUME NEW x \in Subscriptions PROVE BacklogOK(x)' /\ LoopOK(x)'
  <2>1. BacklogOK(x)' BY <1>1, <1>2 DEF BacklogOK, Emptied
  <2>2. LoopOK(x) BY <1>1
  <2>3. CASE x = s BY <1>2, <1>4, <1>9, <2>1, <2>2, <2>3 DEF LoopOK, Emptied, Abandoned, tk
  <2>4. CASE x # s /\ lpc[x] # "callback"
    <3>1. LoopOK(x)' BY <1>2, <1>8, <2>2, <2>4 DEF LoopOK, Emptied, Abandoned
    <3> QED BY <2>1, <3>1
  <2>5. CASE x # s /\ lpc[x] = "callback"
    <3>1. held[x] # Emptied /\ held[x].ticket = last BY <2>2, <2>5 DEF LoopOK
    <3>2. last \in outstanding BY <3>1, SubOwns
    <3>3. last' = last BY <1>1, <1>3, <1>6, <1>9, <1>10, <3>2
    <3> QED BY <1>1, <1>2, <1>8, <2>5, <3>3, SubKept
  <2> QED BY <2>3, <2>4, <2>5
<1>17. \A y \in Replies : ReplyOK(y)' BY <1>2, RepliesKept
<1>18. \A x \in outstanding' : last' <= x BY <1>1, <1>2, <1>9, <1>10
<1>19. discarded' # {} => \E x \in Subscriptions : Abandoned(x)'
    BY <1>1, <1>2, <1>4, <1>8 DEF Abandoned
<1> QED BY <1>13, <1>14, <1>15, <1>16, <1>17, <1>18, <1>19 DEF FenceInv

\* The first entry leaves a backlog.
LEMMA TailOf ==
    ASSUME NEW log \in Seq(FrameEntry), log # <<>>, InOrder(log)
    PROVE  /\ Head(log) \in FrameEntry /\ Tail(log) \in Seq(FrameEntry) /\ Head(log) \in ToSet(log)
           /\ InOrder(Tail(log))
           /\ WithinLimit(log) => WithinLimit(Tail(log))
           /\ \A i \in DOMAIN Tail(log) : Head(log).ticket < Tail(log)[i].ticket
           /\ ToSet(Tail(log)) = ToSet(log) \ {Head(log)}
           /\ \A i \in DOMAIN Tail(log) : \E j \in DOMAIN log : Tail(log)[i] = log[j]
<1> DEFINE n == Len(log) - 1
           x == Head(log)
           rest == Tail(log)
<1>1. Len(log) \in Nat /\ DOMAIN log = 1 .. Len(log) BY LenProperties
<1>2. Len(log) # 0 BY EmptySeq
<1>3. x \in FrameEntry /\ rest \in Seq(FrameEntry) BY HeadTailProperties
<1>4. /\ Len(rest) = n /\ \A i \in 1 .. Len(rest) : rest[i] = log[i + 1]
    BY HeadTailProperties
<1>5. DOMAIN rest = 1 .. n BY <1>3, <1>4, LenProperties
<1>6. x = log[1] OBVIOUS
<1>7. n \in Nat /\ DOMAIN log = 1 .. n + 1 BY <1>1, <1>2
<1>8. \A i \in 1 .. n : rest[i] = log[i + 1] BY <1>4
<1> HIDE DEF n, x, rest
<1>9. /\ 1 \in 1 .. n + 1 /\ \A i \in 1 .. n : i + 1 \in 1 .. n + 1 /\ 1 < i + 1 /\ i \in Int
    BY <1>7
<1>10. \A i \in 1 .. n : x.ticket < rest[i].ticket BY <1>6, <1>7, <1>8, <1>9 DEF InOrder
<1>11. InOrder(rest)
  <2> SUFFICES ASSUME NEW i \in 1 .. n, NEW j \in 1 .. n, i < j PROVE rest[i].ticket < rest[j].ticket
      BY <1>5 DEF InOrder
  <2>1. i + 1 < j + 1 BY <1>9
  <2> QED BY <1>7, <1>8, <1>9, <2>1 DEF InOrder
<1>12. WithinLimit(log) => WithinLimit(rest)
  <2> SUFFICES ASSUME WithinLimit(log), NEW i \in 1 .. n, i > 1, rest[i].kind = "data",
                      rest[i - 1].kind = "data"
               PROVE  i <= Limit
      BY <1>5 DEF WithinLimit
  <2>1. i - 1 \in 1 .. n /\ (i - 1) + 1 = i /\ (i + 1) - 1 = i /\ i + 1 > 1 BY <1>7
  <2>2. log[i + 1].kind = "data" /\ log[i].kind = "data" BY <1>8, <2>1
  <2>3. i + 1 <= Limit BY <1>7, <1>9, <2>1, <2>2 DEF WithinLimit
  <2> QED BY <2>3, FenceBounds
<1>13. ToSet(rest) = ToSet(log) \ {x}
  <2>1. \A i \in 1 .. n : rest[i] # x
    <3> SUFFICES ASSUME NEW i \in 1 .. n, rest[i] = x PROVE FALSE OBVIOUS
    <3>1. x.ticket \in Nat BY <1>3 DEF FrameEntry
    <3> QED BY <1>10, <3>1
  <2>2. \A i \in 1 .. n : rest[i] \in ToSet(log) BY <1>7, <1>8, <1>9 DEF ToSet
  <2>3. ASSUME NEW i \in 1 .. n + 1, log[i] # x PROVE \E j \in 1 .. n : rest[j] = log[i]
    <3>1. i # 1 BY <1>6, <2>3
    <3>2. i - 1 \in 1 .. n /\ (i - 1) + 1 = i BY <1>7, <3>1
    <3>3. rest[i - 1] = log[i] BY <1>8, <3>2
    <3> QED BY <3>2, <3>3
  <2> QED BY <1>5, <1>7, <2>1, <2>2, <2>3 DEF ToSet
<1>14. x \in ToSet(log) BY <1>6, <1>7, <1>9 DEF ToSet
<1>15. \A i \in DOMAIN rest : \E j \in DOMAIN log : rest[i] = log[j] BY <1>5, <1>7, <1>8, <1>9
<1> QED BY <1>3, <1>5, <1>10, <1>11, <1>12, <1>13, <1>14, <1>15 DEF x, rest

\* An entry goes to the end of a backlog.
LEMMA AppendOf ==
    ASSUME NEW log \in Seq(FrameEntry), InOrder(log), NEW e \in FrameEntry,
           \A i \in DOMAIN log : log[i].ticket < e.ticket
    PROVE  /\ Append(log, e) \in Seq(FrameEntry) /\ InOrder(Append(log, e))
           /\ WithinLimit(log)
              /\ (e.kind = "data" /\ log # <<>> /\ log[Len(log)].kind = "data" => Len(log) < Limit)
              => WithinLimit(Append(log, e))
           /\ ToSet(Append(log, e)) = ToSet(log) \cup {e}
           /\ \A i \in DOMAIN Append(log, e) :
                Append(log, e)[i] = e \/ \E j \in DOMAIN log : Append(log, e)[i] = log[j]
<1> DEFINE n == Len(log)
           more == Append(log, e)
<1>1. n \in Nat /\ DOMAIN log = 1 .. n BY LenProperties
<1>2. more \in Seq(FrameEntry) /\ Len(more) = n + 1 BY AppendProperties
<1>3. \A i \in 1 .. n + 1 : more[i] = IF i = n + 1 THEN e ELSE log[i] BY AppendProperties
<1>4. DOMAIN more = 1 .. n + 1 BY <1>2, LenProperties
<1>5. n = 0 => log = <<>> BY EmptySeq
<1> HIDE DEF n, more
<1>6. \A i \in 1 .. n + 1 : i = n + 1 \/ i \in 1 .. n BY <1>1
<1>7. \A i \in 1 .. n : i \in 1 .. n + 1 /\ i # n + 1 BY <1>1
<1>8. n + 1 \in 1 .. n + 1 BY <1>1
<1>9. InOrder(more)
  <2> SUFFICES ASSUME NEW i \in 1 .. n + 1, NEW j \in 1 .. n + 1, i < j
               PROVE  more[i].ticket < more[j].ticket
      BY <1>4 DEF InOrder
  <2>1. i \in 1 .. n BY <1>1
  <2>2. CASE j = n + 1 BY <1>1, <1>3, <1>7, <2>1, <2>2
  <2>3. CASE j # n + 1
    <3>1. j \in 1 .. n BY <1>6, <2>3
    <3> QED BY <1>1, <1>3, <1>7, <2>1, <3>1 DEF InOrder
  <2> QED BY <2>2, <2>3
<1>10. ASSUME WithinLimit(log), e.kind = "data" /\ log # <<>> /\ log[n].kind = "data" => n < Limit
       PROVE  WithinLimit(more)
  <2> SUFFICES ASSUME NEW i \in 1 .. n + 1, i > 1, more[i].kind = "data", more[i - 1].kind = "data"
               PROVE  i <= Limit
      BY <1>4 DEF WithinLimit
  <2>1. i - 1 \in 1 .. n BY <1>1
  <2>2. more[i - 1] = log[i - 1] BY <1>3, <1>7, <2>1
  <2>3. CASE i = n + 1
    <3>1. i - 1 = n /\ n # 0 BY <1>1, <2>1, <2>3
    <3>2. e.kind = "data" /\ log[n].kind = "data" BY <1>3, <2>2, <2>3, <3>1
    <3>3. log # <<>> BY <1>1, <2>1
    <3>4. n < Limit BY <1>10, <3>2, <3>3
    <3> QED BY <1>1, <2>3, <3>4, FenceBounds
  <2>4. CASE i # n + 1
    <3>1. i \in 1 .. n BY <1>6, <2>4
    <3>2. more[i] = log[i] BY <1>3, <1>7, <3>1
    <3> QED BY <1>1, <1>10, <2>2, <3>1, <3>2 DEF WithinLimit
  <2> QED BY <2>3, <2>4
<1>11. ToSet(more) = ToSet(log) \cup {e}
  <2>1. \A i \in 1 .. n + 1 : more[i] \in ToSet(log) \cup {e} BY <1>1, <1>3, <1>6 DEF ToSet
  <2>2. \A i \in 1 .. n : \E j \in 1 .. n + 1 : more[j] = log[i] BY <1>3, <1>7
  <2>3. more[n + 1] = e BY <1>3, <1>8
  <2> QED BY <1>1, <1>4, <1>8, <2>1, <2>2, <2>3 DEF ToSet
<1>12. \A i \in DOMAIN more : more[i] = e \/ \E j \in DOMAIN log : more[i] = log[j]
    BY <1>1, <1>3, <1>4, <1>6
<1> QED BY <1>2, <1>9, <1>10, <1>11, <1>12 DEF n, more

\* An entry takes the place of the last of a backlog.
LEMMA SquashOf ==
    ASSUME NEW log \in Seq(FrameEntry), log # <<>>, InOrder(log), NEW x \in FrameEntry,
           x.ticket = Last(log).ticket, x.kind = Last(log).kind
    PROVE  /\ Append(Front(log), x) \in Seq(FrameEntry) /\ InOrder(Append(Front(log), x))
           /\ WithinLimit(log) => WithinLimit(Append(Front(log), x))
           /\ ToSet(Append(Front(log), x)) = (ToSet(log) \ {Last(log)}) \cup {x}
           /\ Last(log) \in ToSet(log)
           /\ \A i \in DOMAIN Append(Front(log), x) :
                \E j \in DOMAIN log : Append(Front(log), x)[i].ticket = log[j].ticket
<1> DEFINE n == Len(log)
           d == Last(log)
           f == Front(log)
           more == Append(f, x)
<1>1. n \in Nat /\ DOMAIN log = 1 .. n BY LenProperties
<1>2. n # 0 BY EmptySeq
<1>3. d = log[n] BY DEF Last
<1>4. /\ f \in Seq(FrameEntry) /\ Len(f) = n - 1
      /\ \A i \in 1 .. n - 1 : f[i] = log[i]
  <2>1. f = SubSeq(log, 1, n - 1) BY DEF Front
  <2>2. n - 1 \in 0 .. n /\ n - 1 \in Nat BY <1>1, <1>2
  <2>3. f = [i \in 1 .. n - 1 |-> log[i]] BY <1>1, <1>2, <2>1
  <2>4. \A i \in 1 .. n - 1 : log[i] \in FrameEntry BY <1>1
  <2>5. f \in Seq(FrameEntry) BY <2>2, <2>3, <2>4
  <2>6. Len(f) = n - 1 BY <2>2, <2>3
  <2> QED BY <2>3, <2>5, <2>6
<1> HIDE DEF f
<1>5. more \in Seq(FrameEntry) /\ Len(more) = Len(f) + 1
      /\ \A i \in 1 .. Len(f) + 1 : more[i] = IF i = Len(f) + 1 THEN x ELSE f[i]
    BY <1>4, AppendProperties
<1> HIDE DEF n, more, d
<1>6. Len(f) + 1 = n BY <1>1, <1>4
<1>7. DOMAIN more = 1 .. n
  <2>1. Len(more) = n BY <1>5, <1>6
  <2> QED BY <1>5, <2>1, LenProperties
<1>8. \A i \in 1 .. n : more[i] = IF i = n THEN x ELSE log[i]
  <2> SUFFICES ASSUME NEW i \in 1 .. n PROVE more[i] = IF i = n THEN x ELSE log[i] OBVIOUS
  <2>1. more[i] = IF i = n THEN x ELSE f[i] BY <1>5, <1>6
  <2>2. i # n => i \in 1 .. n - 1 BY <1>1
  <2> QED BY <1>4, <2>1, <2>2
<1>9. \A i \in 1 .. n : more[i].ticket = log[i].ticket /\ more[i].kind = log[i].kind
    BY <1>3, <1>8 DEF d
<1>10. n \in 1 .. n BY <1>1, <1>2
<1>11. InOrder(more) BY <1>1, <1>7, <1>9 DEF InOrder
<1>12. WithinLimit(log) => WithinLimit(more)
  <2> SUFFICES ASSUME WithinLimit(log), NEW i \in 1 .. n, i > 1, more[i].kind = "data",
                      more[i - 1].kind = "data"
               PROVE  i <= Limit
      BY <1>7 DEF WithinLimit
  <2>1. i - 1 \in 1 .. n BY <1>1
  <2> QED BY <1>1, <1>9, <2>1 DEF WithinLimit
<1>13. \A i \in 1 .. n : i # n => log[i] # d
  <2> SUFFICES ASSUME NEW i \in 1 .. n, i # n, log[i] = d PROVE FALSE OBVIOUS
  <2>1. i < n BY <1>1
  <2>2. log[i].ticket < log[n].ticket BY <1>1, <1>10, <2>1 DEF InOrder
  <2>3. log[n] \in FrameEntry BY <1>1, <1>10
  <2>4. log[n].ticket \in Nat BY <2>3 DEF FrameEntry
  <2> QED BY <1>3, <2>2, <2>4
<1>14. ToSet(more) = (ToSet(log) \ {d}) \cup {x}
  <2>1. \A i \in 1 .. n : more[i] \in (ToSet(log) \ {d}) \cup {x} BY <1>1, <1>8, <1>13 DEF ToSet
  <2>2. \A i \in 1 .. n : log[i] # d => more[i] = log[i] BY <1>3, <1>8
  <2>3. more[n] = x BY <1>8, <1>10
  <2> QED BY <1>1, <1>7, <1>10, <2>1, <2>2, <2>3 DEF ToSet
<1>15. d \in ToSet(log) BY <1>1, <1>3, <1>10 DEF ToSet
<1>16. \A i \in DOMAIN more : \E j \in DOMAIN log : more[i].ticket = log[j].ticket BY <1>1, <1>7, <1>9
<1> QED BY <1>5, <1>11, <1>12, <1>14, <1>15, <1>16 DEF f, more, d

\* No entry is the empty one.
LEMMA EntryThere ==
    ASSUME NEW e \in FrameEntry
    PROVE  e # Emptied /\ e.ticket \in Nat /\ e.kind \in {"data", "finish", "bad"}
BY DEF FrameEntry, Emptied

\* The subscription is told of the push.
LEMMA NotifyKept ==
    ASSUME FenceInv, Notify
    PROVE  FenceInv'
<1>1. /\ FenceTyped /\ Owned /\ RoutingOK
      /\ \A x \in Subscriptions : BacklogOK(x) /\ LoopOK(x)
      /\ \A x \in Replies : ReplyOK(x)
      /\ \A x \in outstanding : last <= x
      /\ discarded # {} => \E x \in Subscriptions : Abandoned(x)
    BY DEF FenceInv
<1>2. UNCHANGED <<next, outstanding, waiter, queue, shut, registered, lpc, held,
                  ypc, at, told, last, done, discarded, ends>>
    BY DEF Notify, ticketVars, loopVars, replyVars, history
<1>3. rpc = "notify" /\ rpc' = "idle" /\ routing' = [sub |-> Reader, entry |-> Emptied] BY DEF Notify
<1>4. permit' \in [Subscriptions -> BOOLEAN] BY <1>1 DEF Notify, FenceTyped, FenceTypeOK
<1>5. routing' \in [sub : Threads, entry : FrameEntry \cup {Emptied}] BY <1>3 DEF Threads
<1>6. FenceTyped'
    BY <1>1, <1>2, <1>3, <1>4, <1>5
    DEF FenceTyped, FenceTypeOK, Frames, FrameEntry, Threads, Emptied, Reader
<1>7. Owned'
  <2>1. \A h \in Threads : Own(h)' = Own(h) BY <1>2, <1>3 DEF Own, Undelivered, Emptied, Reader
  <2> QED BY <1>1, <1>2, <2>1, OwnKept
<1>8. RoutingOK' BY <1>3 DEF RoutingOK, Reader, Emptied
<1>9. \A s \in Subscriptions : BacklogOK(s)' /\ LoopOK(s)' BY <1>1, <1>2, SubKept
<1>10. \A y \in Replies : ReplyOK(y)' BY <1>2, RepliesKept
<1>11. \A x \in outstanding' : last' <= x BY <1>1, <1>2
<1>12. discarded' # {} => \E x \in Subscriptions : Abandoned(x)' BY <1>1, <1>2 DEF Abandoned
<1> QED BY <1>6, <1>7, <1>8, <1>9, <1>10, <1>11, <1>12 DEF FenceInv

\* A frame is read for a registered subscription.
LEMMA IssueKept ==
    ASSUME FenceInv, NEW s \in Subscriptions, NEW kind \in Kinds, issue(s, kind)
    PROVE  FenceInv'
<1>1. /\ FenceTyped /\ Owned /\ RoutingOK
      /\ \A x \in Subscriptions : BacklogOK(x) /\ LoopOK(x)
      /\ \A x \in Replies : ReplyOK(x)
      /\ \A x \in outstanding : last <= x
      /\ discarded # {} => \E x \in Subscriptions : Abandoned(x)
    BY DEF FenceInv
<1>2. UNCHANGED <<waiter, queue, shut, permit, registered, lpc, held,
                  ypc, at, told, last, done, discarded>>
    BY DEF issue, loopVars, replyVars
<1> DEFINE e == [ticket |-> next, frames |-> {next}, kind |-> kind]
<1>3. /\ rpc = "idle" /\ registered[s] /\ next <= MaxFrames
      /\ outstanding' = outstanding \cup {next} /\ next' = next + 1
      /\ routing' = [sub |-> s, entry |-> e] /\ rpc' = "push"
    BY DEF issue
<1>4. /\ next \in Nat \ {0} /\ next \in 1 .. MaxFrames + 1 /\ last \in Nat /\ last < next
      /\ MaxFrames \in Nat /\ waiter \subseteq outstanding
    BY <1>1, FenceBounds DEF FenceTyped, FenceTypeOK
<1>5. e \in FrameEntry /\ e.ticket = next /\ e.frames = {next} BY <1>4, FenceBounds DEF FrameEntry
<1> HIDE DEF e
<1>6. s \in Threads /\ s # Reader BY FenceBounds DEF Threads
<1>7. Owned'
  <2>1. Own(Reader) = {} /\ Own(Reader)' = {e} BY <1>3 DEF Own, Reader
  <2>2. \A h \in Threads : h # Reader => Own(h)' = Own(h)
      BY <1>2 DEF Own, Undelivered, Emptied, Reader
  <2> QED BY <1>1, <1>2, <1>3, <1>4, <1>5, <2>1, <2>2, OwnIssues
<1>8. next' \in 1 .. MaxFrames + 1 /\ next' \in Nat BY <1>3, <1>4
<1>9. outstanding' \subseteq Frames'
  <2>1. outstanding \subseteq 1 .. next - 1 BY <1>1 DEF FenceTyped, FenceTypeOK, Frames
  <2> QED BY <1>3, <1>4, <2>1 DEF Frames
<1>10. routing' \in [sub : Threads, entry : FrameEntry \cup {Emptied}] BY <1>3, <1>5, <1>6
<1>11. waiter' \subseteq outstanding' BY <1>2, <1>3, <1>4
<1>12. last' \in Nat /\ last' < next' BY <1>2, <1>3, <1>4
<1>13. FenceTyped'
    BY <1>1, <1>2, <1>3, <1>8, <1>9, <1>10, <1>11, <1>12
    DEF FenceTyped, FenceTypeOK, FrameEntry, Threads, Emptied, Reader
<1>14. RoutingOK'
  <2>1. /\ routing'.sub = s /\ routing'.entry = e /\ rpc' = "push" BY <1>3
  <2>2. next' - 1 = next /\ next \in Frames' BY <1>3, <1>4 DEF Frames
  <2> QED BY <1>2, <1>3, <1>5, <2>1, <2>2 DEF RoutingOK, FrameEntry
<1>15. \A x \in Subscriptions : BacklogOK(x)' /\ LoopOK(x)' BY <1>1, <1>2, SubKept
<1>16. \A y \in Replies : ReplyOK(y)' BY <1>2, <1>3, RepliesKept
<1>17. \A x \in outstanding' : last' <= x BY <1>1, <1>2, <1>3, <1>4
<1>18. discarded' # {} => \E x \in Subscriptions : Abandoned(x)' BY <1>1, <1>2 DEF Abandoned
<1> QED BY <1>7, <1>13, <1>14, <1>15, <1>16, <1>17, <1>18 DEF FenceInv

\* A loop looks into its backlog.
LEMMA RecvKept ==
    ASSUME FenceInv, NEW s \in Subscriptions, recv(s)
    PROVE  FenceInv'
<1>1. /\ FenceTyped /\ Owned /\ RoutingOK
      /\ \A x \in Subscriptions : BacklogOK(x) /\ LoopOK(x)
      /\ \A x \in Replies : ReplyOK(x)
      /\ \A x \in outstanding : last <= x
      /\ discarded # {} => \E x \in Subscriptions : Abandoned(x)
    BY DEF FenceInv
<1>2. UNCHANGED <<next, outstanding, waiter, shut, permit, registered, rpc, routing,
                  ypc, at, told, last, done, discarded, ends>>
    BY DEF recv, ticketVars, readerVars, replyVars, history
<1> DEFINE Steps == {"recv", "wait", "turn", "waitTurn", "callback", "abandon", "discard"}
           log == queue[s]
<1>3. /\ lpc \in [Subscriptions -> Steps] /\ queue \in [Subscriptions -> Seq(FrameEntry)]
      /\ held \in [Subscriptions -> FrameEntry \cup {Emptied}]
    BY <1>1 DEF FenceTyped, FenceTypeOK
<1>4. lpc[s] = "recv" BY DEF recv, LoopAt
<1>5. held[s] = Emptied BY <1>1, <1>4 DEF LoopOK
<1>6. s \in Threads /\ s # Reader /\ log \in Seq(FrameEntry) /\ InOrder(log)
    BY <1>1, SubOwns DEF BacklogOK
<1>7. lpc' \in [Subscriptions -> Steps] BY <1>3 DEF recv
<1>8. \A x \in Subscriptions : x # s =>
        lpc'[x] = lpc[x] /\ queue'[x] = queue[x] /\ held'[x] = held[x]
    BY <1>3 DEF recv
<1>9. CASE log # <<>>
  <2>1. /\ held' = [held EXCEPT ![s] = Head(log)] /\ queue' = [queue EXCEPT ![s] = Tail(log)]
        /\ lpc' = [lpc EXCEPT ![s] = "turn"]
      BY <1>9 DEF recv
  <2>2. /\ Head(log) \in FrameEntry /\ Tail(log) \in Seq(FrameEntry) /\ Head(log) \in ToSet(log)
        /\ InOrder(Tail(log))
        /\ WithinLimit(log) => WithinLimit(Tail(log))
        /\ \A i \in DOMAIN Tail(log) : Head(log).ticket < Tail(log)[i].ticket
        /\ ToSet(Tail(log)) = ToSet(log) \ {Head(log)}
      BY <1>6, <1>9, TailOf
  <2> DEFINE e == Head(log)
             rest == Tail(log)
  <2> HIDE DEF e, rest, log
  <2>3. held'[s] = e /\ queue'[s] = rest /\ lpc'[s] = "turn" BY <1>3, <2>1 DEF e, rest
  <2>4. e # Emptied /\ e \in FrameEntry BY <2>2, EntryThere DEF e
  <2>5. held' \in [Subscriptions -> FrameEntry \cup {Emptied}]
        /\ queue' \in [Subscriptions -> Seq(FrameEntry)]
      BY <1>3, <2>1, <2>2
  <2>6. FenceTyped'
      BY <1>1, <1>2, <1>7, <2>5 DEF FenceTyped, FenceTypeOK, Frames, FrameEntry, Threads, Emptied, Reader
  <2>7. Owned'
    <3>1. Own(s)' = ToSet(rest) \cup {e} BY <1>6, <2>3, <2>4 DEF Own, Undelivered, Emptied, Reader
    <3>2. Own(s) = ToSet(log) BY <1>5, <1>6 DEF Own, Undelivered, log
    <3>3. Own(s)' = Own(s) BY <2>2, <3>1, <3>2 DEF e, rest
    <3>4. ASSUME NEW h \in Threads, h # s PROVE Own(h)' = Own(h)
      <4>1. CASE h = Reader BY <1>2, <4>1 DEF Own, Reader
      <4>2. CASE h # Reader
        <5>1. h \in Subscriptions BY <4>2 DEF Threads
        <5> QED BY <1>8, <3>4, <4>2, <5>1 DEF Own, Undelivered, Emptied, Reader
      <4> QED BY <4>1, <4>2
    <3>5. \A h \in Threads : Own(h)' = Own(h) BY <3>3, <3>4
    <3> QED BY <1>1, <1>2, <3>5, OwnKept
  <2>8. RoutingOK' BY <1>1, <1>2 DEF RoutingOK, Frames, FrameEntry, Reader, Emptied
  <2>9. ASSUME NEW x \in Subscriptions PROVE BacklogOK(x)' /\ LoopOK(x)'
    <3>1. CASE x # s BY <1>1, <1>2, <1>8, <3>1, SubKept
    <3>2. CASE x = s
      <4>1. BacklogOK(s)
          BY <1>1
      <4>2. InOrder(rest) /\ (s \notin Pipelined => WithinLimit(rest))
            /\ \A i \in DOMAIN rest : e.ticket < rest[i].ticket
          BY <2>2, <4>1 DEF BacklogOK, e, rest, log
      <4>3. BacklogOK(s)' BY <2>3, <4>2 DEF BacklogOK, InOrder, WithinLimit
      <4>4. LoopOK(s)' BY <1>1, <1>2, <1>4, <2>3, <2>4 DEF LoopOK, Abandoned, Emptied
      <4> QED BY <3>2, <4>3, <4>4
    <3> QED BY <3>1, <3>2
  <2>10. \A y \in Replies : ReplyOK(y)' BY <1>2, RepliesKept
  <2>11. \A x \in outstanding' : last' <= x BY <1>1, <1>2
  <2>12. discarded' # {} => \E x \in Subscriptions : Abandoned(x)' BY <1>1, <1>2, <1>4, <1>8 DEF Abandoned
  <2> QED BY <2>6, <2>7, <2>8, <2>9, <2>10, <2>11, <2>12 DEF FenceInv
<1>10. CASE log = <<>>
  <2>1. /\ UNCHANGED <<held, queue>> /\ lpc'[s] \in {"abandon", "wait"}
        /\ shut[s] => lpc'[s] = "abandon"
      BY <1>3, <1>10 DEF recv
  <2>2. FenceTyped'
      BY <1>1, <1>2, <1>7, <2>1 DEF FenceTyped, FenceTypeOK, Frames, FrameEntry, Threads, Emptied, Reader
  <2>3. Owned' BY <1>1, <1>2, <2>1, OwnStays
  <2>4. RoutingOK' BY <1>1, <1>2 DEF RoutingOK, Frames, FrameEntry, Reader, Emptied
  <2>5. ASSUME NEW x \in Subscriptions PROVE BacklogOK(x)' /\ LoopOK(x)'
    <3>1. CASE x # s BY <1>1, <1>2, <1>8, <3>1, SubKept
    <3>2. CASE x = s
      <4>1. BacklogOK(s)' BY <1>1, <2>1 DEF BacklogOK, Emptied, InOrder, WithinLimit
      <4>2. LoopOK(s)' BY <1>1, <1>2, <1>4, <2>1 DEF LoopOK, Abandoned, Emptied
      <4> QED BY <3>2, <4>1, <4>2
    <3> QED BY <3>1, <3>2
  <2>6. \A y \in Replies : ReplyOK(y)' BY <1>2, RepliesKept
  <2>7. \A x \in outstanding' : last' <= x BY <1>1, <1>2
  <2>8. discarded' # {} => \E x \in Subscriptions : Abandoned(x)' BY <1>1, <1>2, <1>4, <1>8 DEF Abandoned
  <2> QED BY <2>2, <2>3, <2>4, <2>5, <2>6, <2>7, <2>8 DEF FenceInv
<1> QED BY <1>9, <1>10

\* A loop is done with the entry it holds: it has been called back with it, or
\* drops it as it leaves.
LEMMA HeldDropped ==
    ASSUME FenceInv, NEW s \in Subscriptions, held[s] # Emptied, drop(s, held[s].ticket),
           held' = [held EXCEPT ![s] = Emptied], NEW step \in {"recv", "abandon"},
           lpc' = [lpc EXCEPT ![s] = step],
           UNCHANGED <<next, queue, shut, permit, registered, rpc, routing, ypc, at, told, last>>,
           \/ done' = done \cup held[s].frames /\ discarded' = discarded
           \/ discarded' = discarded \cup held[s].frames /\ done' = done /\ step = "abandon"
    PROVE  FenceInv'
<1>1. /\ FenceTyped /\ Owned /\ RoutingOK
      /\ \A x \in Subscriptions : BacklogOK(x) /\ LoopOK(x)
      /\ \A x \in Replies : ReplyOK(x)
      /\ \A x \in outstanding : last <= x
      /\ discarded # {} => \E x \in Subscriptions : Abandoned(x)
    BY DEF FenceInv
<1> DEFINE Steps == {"recv", "wait", "turn", "waitTurn", "callback", "abandon", "discard"}
           e == held[s]
<1>2. /\ lpc \in [Subscriptions -> Steps] /\ queue \in [Subscriptions -> Seq(FrameEntry)]
      /\ held \in [Subscriptions -> FrameEntry \cup {Emptied}]
      /\ outstanding \subseteq Frames /\ waiter \subseteq outstanding
    BY <1>1 DEF FenceTyped, FenceTypeOK
<1>3. outstanding' = outstanding \ {e.ticket} /\ waiter' \subseteq waiter /\ e.ticket \notin waiter'
    BY DropEffect
<1>4. lpc[s] \in {"turn", "waitTurn", "callback"} BY <1>1 DEF LoopOK
<1>5. /\ lpc'[s] = step /\ held'[s] = Emptied
      /\ \A x \in Subscriptions : x # s => lpc'[x] = lpc[x] /\ held'[x] = held[x]
    BY <1>2
<1>6. /\ s \in Threads /\ s # Reader /\ Own(s) = Undelivered(s) /\ e \in Own(s) /\ e \in FrameEntry
      /\ queue[s] \in Seq(FrameEntry)
    BY SubOwns
<1>7. lpc' \in [Subscriptions -> Steps] /\ held' \in [Subscriptions -> FrameEntry \cup {Emptied}]
    BY <1>2
<1>8. waiter' \subseteq outstanding' /\ outstanding' \subseteq Frames BY <1>2, <1>3
<1>9. FenceTyped'
    BY <1>1, <1>7, <1>8 DEF FenceTyped, FenceTypeOK, Frames, FrameEntry, Threads, Emptied, Reader
<1>10. Owned'
  <2>1. e \notin ToSet(queue[s])
    <3>1. \A i \in DOMAIN queue[s] : e.ticket < queue[s][i].ticket BY <1>1 DEF BacklogOK
    <3>2. e.ticket \in Nat BY <1>6, EntryThere
    <3>3. \A i \in DOMAIN queue[s] : queue[s][i] # e BY <3>1, <3>2
    <3> QED BY <1>6, <3>3 DEF ToSet
  <2>2. Own(s)' = ToSet(queue[s]) BY <1>5, <1>6 DEF Own, Undelivered, Emptied, Reader
  <2>3. Own(s) = ToSet(queue[s]) \cup {e} BY <1>6 DEF Undelivered
  <2>4. Own(s)' = Own(s) \ {e} BY <2>1, <2>2, <2>3
  <2>5. ASSUME NEW h \in Threads, h # s PROVE Own(h)' = Own(h)
    <3>1. CASE h = Reader BY <3>1 DEF Own, Reader
    <3>2. CASE h # Reader
      <4>1. h \in Subscriptions BY <3>2 DEF Threads
      <4> QED BY <1>5, <2>5, <3>2, <4>1 DEF Own, Undelivered, Emptied, Reader
    <3> QED BY <3>1, <3>2
  <2>6. \/ done' = done \cup e.frames /\ discarded' = discarded
        \/ discarded' = discarded \cup e.frames /\ done' = done
      OBVIOUS
  <2> HIDE DEF e
  <2> QED BY <1>1, <1>3, <1>6, <2>4, <2>5, <2>6, OwnDrops
<1>11. RoutingOK' BY <1>1 DEF RoutingOK, Frames, FrameEntry, Reader, Emptied
<1>12. ASSUME NEW x \in Subscriptions PROVE BacklogOK(x)' /\ LoopOK(x)'
  <2>1. CASE x # s BY <1>1, <1>5, <2>1, SubKept
  <2>2. CASE x = s
    <3>1. BacklogOK(s)' BY <1>1, <1>5 DEF BacklogOK, Emptied
    <3>2. LoopOK(s)' BY <1>1, <1>4, <1>5 DEF LoopOK, Abandoned, Emptied
    <3> QED BY <2>2, <3>1, <3>2
  <2> QED BY <2>1, <2>2
<1>13. \A y \in Replies : ReplyOK(y)' BY RepliesKept
<1>14. \A x \in outstanding' : last' <= x BY <1>1, <1>3
<1>15. discarded' # {} => \E x \in Subscriptions : Abandoned(x)'
  <2>1. CASE step = "abandon" BY <1>5, <2>1 DEF Abandoned
  <2>2. CASE step # "abandon"
    <3>1. discarded' = discarded BY <2>2
    <3>2. \A x \in Subscriptions : Abandoned(x) => x # s BY <1>4 DEF Abandoned
    <3> QED BY <1>1, <1>5, <3>1, <3>2 DEF Abandoned
  <2> QED BY <2>1, <2>2
<1> QED BY <1>9, <1>10, <1>11, <1>12, <1>13, <1>14, <1>15 DEF FenceInv

\* A callback.
LEMMA CallbackKept ==
    ASSUME FenceInv, NEW s \in Subscriptions, callback(s)
    PROVE  FenceInv'
<1>1. lpc[s] = "callback" BY DEF callback, LoopAt
<1>2. held[s] # Emptied BY <1>1 DEF FenceInv, LoopOK
<1> DEFINE step == IF held[s].kind = "data" THEN "recv" ELSE "abandon"
<1>3. /\ drop(s, held[s].ticket) /\ held' = [held EXCEPT ![s] = Emptied]
      /\ lpc' = [lpc EXCEPT ![s] = step] /\ done' = done \cup held[s].frames /\ discarded' = discarded
    BY DEF callback
<1>4. UNCHANGED <<next, queue, shut, permit, registered, rpc, routing, ypc, at, told, last>>
    BY DEF callback, readerVars, replyVars
<1>5. step \in {"recv", "abandon"} OBVIOUS
<1> HIDE DEF step
<1> QED BY <1>2, <1>3, <1>4, <1>5, HeldDropped

\* A loop is cancelled.
LEMMA CancelKept ==
    ASSUME FenceInv, NEW s \in Subscriptions, cancel(s)
    PROVE  FenceInv'
<1>1. /\ FenceTyped /\ Owned /\ RoutingOK
      /\ \A x \in Subscriptions : BacklogOK(x) /\ LoopOK(x)
      /\ \A x \in Replies : ReplyOK(x)
      /\ \A x \in outstanding : last <= x
      /\ discarded # {} => \E x \in Subscriptions : Abandoned(x)
    BY DEF FenceInv
<1>2. /\ lpc' = [lpc EXCEPT ![s] = "abandon"]
      /\ UNCHANGED <<next, queue, shut, permit, registered, rpc, routing, ypc, at, told, last, done>>
    BY DEF cancel, readerVars, replyVars
<1>3. CASE held[s] # Emptied
  <2>1. /\ drop(s, held[s].ticket) /\ discarded' = discarded \cup held[s].frames
        /\ held' = [held EXCEPT ![s] = Emptied]
      BY <1>3 DEF cancel
  <2> QED BY <1>2, <1>3, <2>1, HeldDropped
<1>4. CASE held[s] = Emptied
  <2>1. UNCHANGED <<outstanding, waiter, held, discarded>> BY <1>4 DEF cancel
  <2> DEFINE Steps == {"recv", "wait", "turn", "waitTurn", "callback", "abandon", "discard"}
  <2>2. lpc \in [Subscriptions -> Steps] BY <1>1 DEF FenceTyped, FenceTypeOK
  <2>3. /\ lpc' \in [Subscriptions -> Steps] /\ lpc'[s] = "abandon"
        /\ \A x \in Subscriptions : x # s => lpc'[x] = lpc[x]
      BY <1>2, <2>2
  <2>4. FenceTyped'
      BY <1>1, <1>2, <2>1, <2>3 DEF FenceTyped, FenceTypeOK, Frames, FrameEntry, Threads, Emptied, Reader
  <2>5. Owned' BY <1>1, <1>2, <2>1, OwnStays
  <2>6. RoutingOK' BY <1>1, <1>2 DEF RoutingOK, Frames, FrameEntry, Reader, Emptied
  <2>7. ASSUME NEW x \in Subscriptions PROVE BacklogOK(x)' /\ LoopOK(x)'
    <3>1. CASE x # s BY <1>1, <1>2, <2>1, <2>3, <3>1, SubKept
    <3>2. CASE x = s
      <4>1. BacklogOK(s)' BY <1>1, <1>2, <2>1 DEF BacklogOK, Emptied
      <4>2. LoopOK(s)' BY <1>4, <2>1, <2>3 DEF LoopOK, Abandoned, Emptied
      <4> QED BY <3>2, <4>1, <4>2
    <3> QED BY <3>1, <3>2
  <2>8. \A y \in Replies : ReplyOK(y)' BY <1>2, <2>1, RepliesKept
  <2>9. \A x \in outstanding' : last' <= x BY <1>1, <1>2, <2>1
  <2>10. discarded' # {} => \E x \in Subscriptions : Abandoned(x)' BY <2>3 DEF Abandoned
  <2> QED BY <2>4, <2>5, <2>6, <2>7, <2>8, <2>9, <2>10 DEF FenceInv
<1> QED BY <1>3, <1>4

\* A loop that has left drops what was in its backlog.
LEMMA DiscardKept ==
    ASSUME FenceInv, NEW s \in Subscriptions, Discard(s)
    PROVE  FenceInv'
<1>1. /\ FenceTyped /\ Owned /\ RoutingOK
      /\ \A x \in Subscriptions : BacklogOK(x) /\ LoopOK(x)
      /\ \A x \in Replies : ReplyOK(x)
      /\ \A x \in outstanding : last <= x
    BY DEF FenceInv
<1> DEFINE log == queue[s]
           e == Head(log)
           rest == Tail(log)
<1>2. UNCHANGED <<next, shut, permit, registered, lpc, held, rpc, routing, ypc, at, told, last, done>>
    BY DEF Discard, loopVars, readerVars, replyVars
<1>3. /\ lpc[s] = "discard" /\ log # <<>> /\ drop(s, e.ticket)
      /\ discarded' = discarded \cup e.frames /\ queue' = [queue EXCEPT ![s] = rest]
    BY DEF Discard, LoopAt
<1>4. /\ queue \in [Subscriptions -> Seq(FrameEntry)]
      /\ outstanding \subseteq Frames /\ waiter \subseteq outstanding
    BY <1>1 DEF FenceTyped, FenceTypeOK
<1>5. outstanding' = outstanding \ {e.ticket} /\ waiter' \subseteq waiter /\ e.ticket \notin waiter'
    BY <1>3, DropEffect
<1>6. s \in Threads /\ s # Reader /\ Own(s) = Undelivered(s) /\ log \in Seq(FrameEntry) /\ InOrder(log)
    BY <1>1, SubOwns DEF BacklogOK
<1>7. /\ e \in FrameEntry /\ rest \in Seq(FrameEntry) /\ e \in ToSet(log)
      /\ InOrder(rest)
      /\ WithinLimit(log) => WithinLimit(rest)
      /\ \A i \in DOMAIN rest : \E j \in DOMAIN log : rest[i] = log[j]
      /\ ToSet(rest) = ToSet(log) \ {e}
    BY <1>3, <1>6, TailOf
<1>8. held[s] = Emptied BY <1>1, <1>3 DEF LoopOK
<1> HIDE DEF e, rest
<1>9. queue'[s] = rest /\ \A x \in Subscriptions : x # s => queue'[x] = queue[x] BY <1>3, <1>4
<1>10. queue' \in [Subscriptions -> Seq(FrameEntry)] BY <1>3, <1>4, <1>7
<1>11. waiter' \subseteq outstanding' /\ outstanding' \subseteq Frames BY <1>4, <1>5
<1>12. FenceTyped'
    BY <1>1, <1>2, <1>10, <1>11
    DEF FenceTyped, FenceTypeOK, Frames, FrameEntry, Threads, Emptied, Reader
<1>13. Owned'
  <2>1. Own(s) = ToSet(log) BY <1>6, <1>8 DEF Undelivered
  <2>2. Own(s)' = ToSet(rest) BY <1>2, <1>6, <1>8, <1>9 DEF Own, Undelivered, Emptied, Reader
  <2>3. Own(s)' = Own(s) \ {e} /\ e \in Own(s) BY <1>7, <2>1, <2>2
  <2>4. ASSUME NEW h \in Threads, h # s PROVE Own(h)' = Own(h)
    <3>1. CASE h = Reader BY <1>2, <3>1 DEF Own, Reader
    <3>2. CASE h # Reader
      <4>1. h \in Subscriptions BY <3>2 DEF Threads
      <4> QED BY <1>2, <1>9, <2>4, <3>2, <4>1 DEF Own, Undelivered, Emptied, Reader
    <3> QED BY <3>1, <3>2
  <2> QED BY <1>1, <1>2, <1>3, <1>5, <1>6, <2>3, <2>4, OwnDrops
<1>14. RoutingOK' BY <1>1, <1>2 DEF RoutingOK, Frames, FrameEntry, Reader, Emptied
<1>15. ASSUME NEW x \in Subscriptions PROVE BacklogOK(x)' /\ LoopOK(x)'
  <2>1. CASE x # s BY <1>1, <1>2, <1>9, <2>1, SubKept
  <2>2. CASE x = s
    <3>1. s \notin Pipelined => WithinLimit(rest) BY <1>1, <1>7 DEF BacklogOK
    <3>2. BacklogOK(s)' BY <1>2, <1>7, <1>8, <1>9, <3>1 DEF BacklogOK, Emptied, InOrder, WithinLimit
    <3>3. LoopOK(s)' BY <1>1, <1>2 DEF LoopOK, Abandoned, Emptied
    <3> QED BY <2>2, <3>2, <3>3
  <2> QED BY <2>1, <2>2
<1>16. \A y \in Replies : ReplyOK(y)' BY <1>2, <1>3, RepliesKept
<1>17. \A x \in outstanding' : last' <= x BY <1>1, <1>2, <1>5
<1>18. \E x \in Subscriptions : Abandoned(x)' BY <1>2, <1>3 DEF Abandoned
<1> QED BY <1>12, <1>13, <1>14, <1>15, <1>16, <1>17, <1>18 DEF FenceInv

\* The frame the reader pushes is newer than all of its subscription's.
LEMMA PushedIsNewest ==
    ASSUME FenceInv, rpc = "push", NEW s, s = routing.sub, NEW e, e = routing.entry
    PROVE  /\ s \in Subscriptions /\ s \in Threads /\ s # Reader /\ registered[s]
           /\ e \in FrameEntry /\ e.ticket = next - 1 /\ e.frames = {next - 1} /\ e.ticket \in Nat
           /\ Own(Reader) = {e} /\ Own(s) = Undelivered(s)
           /\ \A d \in Own(s) : d \in FrameEntry /\ d.ticket \in Nat /\ d.ticket < e.ticket
           /\ \A i \in DOMAIN queue[s] : queue[s][i].ticket < e.ticket
           /\ held[s] # Emptied => held[s].ticket < e.ticket
<1>1. /\ s \in Subscriptions /\ registered[s] /\ e \in FrameEntry
      /\ e.ticket = next - 1 /\ e.frames = {next - 1}
    BY DEF FenceInv, RoutingOK
<1>2. Own(Reader) = {e} BY DEF Own, Reader
<1>3. /\ s \in Threads /\ s # Reader /\ Own(s) = Undelivered(s)
      /\ \A i \in DOMAIN queue[s] : queue[s][i] \in Own(s)
      /\ held[s] # Emptied => held[s] \in Own(s)
      /\ \A d \in Own(s) : EntryOK(d)
    BY <1>1, SubOwns
<1>4. e.ticket \in Nat BY <1>1, EntryThere
<1>5. ASSUME NEW d \in Own(s) PROVE d \in FrameEntry /\ d.ticket \in Nat /\ d.ticket < e.ticket
  <2>1. d \in FrameEntry /\ d.ticket \in d.frames /\ d.frames \subseteq Frames
      BY <1>3 DEF EntryOK
  <2>2. d.ticket \in Nat BY <2>1, EntryThere
  <2>3. Reader \in Threads /\ e \in Own(Reader) BY <1>2 DEF Threads
  <2>4. d.ticket \notin e.frames
      BY <1>3, <2>1, <2>3 DEF FenceInv, Owned, OwnedOnce
  <2>5. d.ticket # next - 1 BY <1>1, <2>4
  <2>6. next \in Nat BY DEF FenceInv, FenceTyped, FenceTypeOK
  <2>7. d.ticket < next - 1 BY <2>1, <2>5, <2>6 DEF Frames
  <2> QED BY <1>1, <2>1, <2>2, <2>7
<1> QED BY <1>1, <1>2, <1>3, <1>4, <1>5

\* A frame for a closed backlog is dropped.
LEMMA PushShut ==
    ASSUME FenceInv, NEW s, s = routing.sub, NEW e, e = routing.entry, rpc = "push", shut[s],
           drop(Reader, e.ticket), discarded' = discarded \cup e.frames,
           rpc' = "idle", routing' = [sub |-> Reader, entry |-> Emptied],
           UNCHANGED <<queue, next, shut, permit, registered, lpc, held, ypc, at, told, last, done>>
    PROVE  FenceInv'
<1>1. /\ FenceTyped /\ Owned /\ RoutingOK
      /\ \A x \in Subscriptions : BacklogOK(x) /\ LoopOK(x)
      /\ \A x \in Replies : ReplyOK(x)
      /\ \A x \in outstanding : last <= x
    BY DEF FenceInv
<1>2. s \in Subscriptions /\ registered[s] /\ e \in FrameEntry /\ Own(Reader) = {e}
    BY PushedIsNewest
<1>3. outstanding \subseteq Frames /\ waiter \subseteq outstanding
    BY <1>1 DEF FenceTyped, FenceTypeOK
<1>4. outstanding' = outstanding \ {e.ticket} /\ waiter' \subseteq waiter /\ e.ticket \notin waiter'
    BY DropEffect
<1>5. waiter' \subseteq outstanding' /\ outstanding' \subseteq Frames BY <1>3, <1>4
<1>6. routing' \in [sub : Threads, entry : FrameEntry \cup {Emptied}] BY DEF Threads
<1>7. FenceTyped'
    BY <1>1, <1>5, <1>6 DEF FenceTyped, FenceTypeOK, Frames, FrameEntry, Threads, Emptied, Reader
<1>8. Owned'
  <2>1. Own(Reader)' = Own(Reader) \ {e} /\ e \in Own(Reader) BY <1>2 DEF Own, Reader
  <2>2. \A h \in Threads : h # Reader => Own(h)' = Own(h)
      BY DEF Own, Undelivered, Emptied, Reader
  <2>3. Reader \in Threads BY DEF Threads
  <2> QED BY <1>1, <1>4, <2>1, <2>2, <2>3, OwnDrops
<1>9. RoutingOK' BY DEF RoutingOK, Reader, Emptied
<1>10. \A x \in Subscriptions : BacklogOK(x)' /\ LoopOK(x)' BY <1>1, SubKept
<1>11. \A y \in Replies : ReplyOK(y)' BY RepliesKept
<1>12. \A x \in outstanding' : last' <= x BY <1>1, <1>4
<1>13. \E x \in Subscriptions : Abandoned(x)'
  <2>1. Abandoned(s) BY <1>1, <1>2 DEF LoopOK
  <2> QED BY <1>2, <2>1 DEF Abandoned
<1> QED BY <1>7, <1>8, <1>9, <1>10, <1>11, <1>12, <1>13 DEF FenceInv

\* What a push into a backlog leaves for the rest of the invariant to follow.
LEMMA PushedKept ==
    ASSUME FenceInv, NEW s, s = routing.sub, rpc = "push",
           NEW log \in Seq(FrameEntry), queue' = [queue EXCEPT ![s] = log], InOrder(log),
           s \notin Pipelined => WithinLimit(log),
           held[s] # Emptied => \A i \in DOMAIN log : held[s].ticket < log[i].ticket,
           outstanding' \subseteq outstanding, waiter' \subseteq outstanding', Owned', rpc' = "notify",
           UNCHANGED <<routing, discarded, next, shut, permit, registered, lpc, held, ypc, at, told,
                       last, done>>
    PROVE  FenceInv'
<1>1. /\ FenceTyped /\ Owned /\ RoutingOK
      /\ \A x \in Subscriptions : BacklogOK(x) /\ LoopOK(x)
      /\ \A x \in Replies : ReplyOK(x)
      /\ \A x \in outstanding : last <= x
      /\ discarded # {} => \E x \in Subscriptions : Abandoned(x)
    BY DEF FenceInv
<1>2. /\ queue \in [Subscriptions -> Seq(FrameEntry)] /\ outstanding \subseteq Frames
    BY <1>1 DEF FenceTyped, FenceTypeOK
<1>3. s \in Subscriptions BY <1>1 DEF RoutingOK
<1>4. queue'[s] = log /\ \A x \in Subscriptions : x # s => queue'[x] = queue[x] BY <1>2, <1>3
<1>5. queue' \in [Subscriptions -> Seq(FrameEntry)] BY <1>2
<1>6. outstanding' \subseteq Frames BY <1>2
<1>7. FenceTyped'
    BY <1>1, <1>5, <1>6 DEF FenceTyped, FenceTypeOK, Frames, FrameEntry, Threads, Emptied, Reader
<1>8. RoutingOK' BY <1>1 DEF RoutingOK, Frames, FrameEntry, Reader, Emptied
<1>9. ASSUME NEW x \in Subscriptions PROVE BacklogOK(x)' /\ LoopOK(x)'
  <2>1. CASE x # s BY <1>1, <1>4, <2>1, SubKept
  <2>2. CASE x = s
    <3>1. BacklogOK(s)' BY <1>4 DEF BacklogOK, Emptied, InOrder, WithinLimit
    <3>2. LoopOK(s)' BY <1>1, <1>3 DEF LoopOK, Abandoned, Emptied
    <3> QED BY <2>2, <3>1, <3>2
  <2> QED BY <2>1, <2>2
<1>10. \A y \in Replies : ReplyOK(y)' BY RepliesKept
<1>11. \A x \in outstanding' : last' <= x BY <1>1
<1>12. discarded' # {} => \E x \in Subscriptions : Abandoned(x)' BY <1>1 DEF Abandoned
<1> QED BY <1>7, <1>8, <1>9, <1>10, <1>11, <1>12 DEF FenceInv

\* A frame goes behind the others of its subscription.
LEMMA PushAppends ==
    ASSUME FenceInv, NEW s, s = routing.sub, NEW e, e = routing.entry, rpc = "push", ~Squashes(s, e),
           queue' = [queue EXCEPT ![s] = Append(queue[s], e)], rpc' = "notify",
           UNCHANGED <<outstanding, waiter, routing, discarded, next, shut, permit, registered,
                       lpc, held, ypc, at, told, last, done>>
    PROVE  FenceInv'
<1> DEFINE log == queue[s]
           more == Append(log, e)
<1>1. Owned /\ queue \in [Subscriptions -> Seq(FrameEntry)] /\ waiter \subseteq outstanding
    BY DEF FenceInv, FenceTyped, FenceTypeOK
<1>2. /\ s \in Subscriptions /\ s \in Threads /\ s # Reader /\ e \in FrameEntry
      /\ Own(Reader) = {e} /\ Own(s) = Undelivered(s)
      /\ \A i \in DOMAIN log : log[i].ticket < e.ticket
      /\ held[s] # Emptied => held[s].ticket < e.ticket
    BY PushedIsNewest
<1>3. BacklogOK(s) BY <1>2 DEF FenceInv
<1>4. log \in Seq(FrameEntry) /\ InOrder(log) BY <1>1, <1>2, <1>3 DEF BacklogOK
<1>5. /\ more \in Seq(FrameEntry) /\ InOrder(more)
      /\ WithinLimit(log)
         /\ (e.kind = "data" /\ log # <<>> /\ log[Len(log)].kind = "data" => Len(log) < Limit)
         => WithinLimit(more)
      /\ ToSet(more) = ToSet(log) \cup {e}
      /\ \A i \in DOMAIN more : more[i] = e \/ \E j \in DOMAIN log : more[i] = log[j]
    BY <1>2, <1>4, AppendOf
<1>6. s \notin Pipelined => WithinLimit(more)
  <2> SUFFICES ASSUME s \notin Pipelined PROVE WithinLimit(more) OBVIOUS
  <2>1. WithinLimit(log) BY <1>3 DEF BacklogOK
  <2>2. ASSUME e.kind = "data", log # <<>>, log[Len(log)].kind = "data" PROVE Len(log) < Limit
    <3>1. ~(Len(log) >= Limit) BY <2>2 DEF Squashes, Last
    <3>2. Len(log) \in Nat /\ Limit \in Nat BY <1>4, FenceBounds, LenProperties
    <3> QED BY <3>1, <3>2
  <2> HIDE DEF more, log
  <2> QED BY <1>5, <2>1, <2>2
<1>7. held[s] # Emptied => \A i \in DOMAIN more : held[s].ticket < more[i].ticket
    BY <1>2, <1>3, <1>5 DEF BacklogOK
<1>8. queue' = [queue EXCEPT ![s] = more] OBVIOUS
<1> HIDE DEF more
<1>9. Owned'
  <2>1. queue'[s] = more /\ \A x \in Subscriptions : x # s => queue'[x] = queue[x]
      BY <1>1, <1>2, <1>8
  <2>2. Own(s)' = Own(s) \cup {e} BY <1>2, <1>5, <2>1 DEF Own, Undelivered, Emptied, Reader
  <2>3. Own(Reader)' = {} BY DEF Own, Reader
  <2>4. ASSUME NEW h \in Threads, h # Reader, h # s PROVE Own(h)' = Own(h)
    <3>1. h \in Subscriptions BY <2>4 DEF Threads
    <3> QED BY <2>1, <2>4, <3>1 DEF Own, Undelivered, Emptied, Reader
  <2> QED BY <1>1, <1>2, <2>2, <2>3, <2>4, OwnMoves
<1>10. outstanding' \subseteq outstanding /\ waiter' \subseteq outstanding' BY <1>1
<1> QED BY <1>5, <1>6, <1>7, <1>8, <1>9, <1>10, PushedKept

\* A frame is squashed into the last of its subscription.
LEMMA PushSquashes ==
    ASSUME FenceInv, NEW s, s = routing.sub, NEW e, e = routing.entry, rpc = "push", Squashes(s, e),
           queue' = [queue EXCEPT ![s] = Append(Front(queue[s]), Squashed(Last(queue[s]), e))],
           drop(Reader, IF Squashed(Last(queue[s]), e).ticket = e.ticket
                        THEN Last(queue[s]).ticket ELSE e.ticket),
           rpc' = "notify",
           UNCHANGED <<routing, discarded, next, shut, permit, registered,
                       lpc, held, ypc, at, told, last, done>>
    PROVE  FenceInv'
<1> DEFINE log == queue[s]
           d == Last(log)
           x == Squashed(d, e)
           more == Append(Front(log), x)
<1>1. Owned /\ queue \in [Subscriptions -> Seq(FrameEntry)] /\ waiter \subseteq outstanding
    BY DEF FenceInv, FenceTyped, FenceTypeOK
<1>2. /\ s \in Subscriptions /\ s \in Threads /\ s # Reader /\ e \in FrameEntry
      /\ e.ticket = next - 1 /\ e.frames = {next - 1} /\ e.ticket \in Nat
      /\ Own(Reader) = {e} /\ Own(s) = Undelivered(s)
      /\ \A z \in Own(s) : z \in FrameEntry /\ z.ticket \in Nat /\ z.ticket < e.ticket
    BY PushedIsNewest
<1>3. BacklogOK(s) BY <1>2 DEF FenceInv
<1>4. log \in Seq(FrameEntry) /\ InOrder(log) BY <1>1, <1>2, <1>3 DEF BacklogOK
<1>5. log # <<>>
  <2>1. Len(log) >= Limit /\ Limit >= 1 BY FenceBounds DEF Squashes
  <2>2. Len(<<>>) = 0 OBVIOUS
  <2> QED BY <2>1, <2>2, FenceBounds
<1>6. d \in ToSet(log)
  <2>1. Len(log) \in Nat /\ DOMAIN log = 1 .. Len(log) /\ Len(log) # 0
      BY <1>4, <1>5, LenProperties, EmptySeq
  <2>2. Len(log) \in DOMAIN log BY <2>1
  <2> QED BY <2>2 DEF ToSet, Last
<1>7. d \in Own(s) BY <1>2, <1>6 DEF Undelivered
<1>8. d \in FrameEntry /\ d.ticket \in Nat /\ d.ticket < e.ticket BY <1>2, <1>7
<1>9. /\ x \in FrameEntry /\ x.ticket = d.ticket /\ x.kind = d.kind /\ x.frames = d.frames \cup e.frames
  <2> HIDE DEF d
  <2> QED BY <1>2, <1>8 DEF FrameEntry, Squashed
<1>10. drop(Reader, e.ticket) /\ queue' = [queue EXCEPT ![s] = more]
  <2>1. x.ticket # e.ticket BY <1>8, <1>9
  <2> QED BY <2>1
<1> HIDE DEF x
<1>11. /\ more \in Seq(FrameEntry) /\ InOrder(more)
       /\ WithinLimit(log) => WithinLimit(more)
       /\ ToSet(more) = (ToSet(log) \ {d}) \cup {x}
       /\ \A i \in DOMAIN more : \E j \in DOMAIN log : more[i].ticket = log[j].ticket
    BY <1>4, <1>5, <1>9, SquashOf
<1> HIDE DEF more, d
<1>12. s \notin Pipelined => WithinLimit(more) BY <1>3, <1>11 DEF BacklogOK
<1>13. held[s] # Emptied => \A i \in DOMAIN more : held[s].ticket < more[i].ticket
    BY <1>3, <1>11 DEF BacklogOK
<1>14. outstanding' = outstanding \ {e.ticket} /\ waiter' \subseteq waiter /\ e.ticket \notin waiter'
    BY <1>10, DropEffect
<1>15. outstanding' \subseteq outstanding /\ waiter' \subseteq outstanding' BY <1>1, <1>14
<1>16. Owned'
  <2>1. queue'[s] = more /\ \A z \in Subscriptions : z # s => queue'[z] = queue[z]
      BY <1>1, <1>2, <1>10
  <2>2. Own(s)' = (Own(s) \ {d}) \cup {x}
    <3>1. Own(s)' = ToSet(more) \cup ({held[s]} \ {Emptied})
        BY <1>2, <2>1 DEF Own, Undelivered, Emptied, Reader
    <3>2. Own(s) = ToSet(log) \cup ({held[s]} \ {Emptied}) BY <1>2 DEF Undelivered
    <3>3. held[s] # Emptied => held[s] # d
      <4> SUFFICES ASSUME held[s] # Emptied PROVE held[s] # d OBVIOUS
      <4>1. PICK i \in DOMAIN log : d = log[i] BY <1>6 DEF ToSet
      <4>2. held[s].ticket < d.ticket BY <1>3, <4>1 DEF BacklogOK
      <4> QED BY <1>8, <4>2
    <3> QED BY <1>11, <3>1, <3>2, <3>3
  <2>3. Own(Reader)' = {} BY DEF Own, Reader
  <2>4. ASSUME NEW h \in Threads, h # Reader, h # s PROVE Own(h)' = Own(h)
    <3>1. h \in Subscriptions BY <2>4 DEF Threads
    <3> QED BY <2>1, <2>4, <3>1 DEF Own, Undelivered, Emptied, Reader
  <2>5. \A f \in e.frames : d.ticket <= f BY <1>2, <1>8
  <2> QED BY <1>1, <1>2, <1>7, <1>9, <1>14, <2>2, <2>3, <2>4, <2>5, OwnMerges
<1> QED BY <1>10, <1>11, <1>12, <1>13, <1>15, <1>16, PushedKept

\* The reader pushes a frame.
LEMMA PushKept ==
    ASSUME FenceInv, push
    PROVE  FenceInv'
<1> DEFINE s == routing.sub
           e == routing.entry
<1>1. /\ rpc = "push"
      /\ UNCHANGED <<next, shut, permit, registered, lpc, held, ypc, at, told, last, done>>
    BY DEF push, loopVars, replyVars
<1>2. CASE shut[s]
  <2>1. /\ drop(Reader, e.ticket) /\ discarded' = discarded \cup e.frames
        /\ rpc' = "idle" /\ routing' = [sub |-> Reader, entry |-> Emptied] /\ queue' = queue
      BY <1>2 DEF push
  <2> QED BY <1>1, <1>2, <2>1, PushShut
<1>3. CASE ~shut[s] /\ Squashes(s, e)
  <2>1. /\ queue' = [queue EXCEPT ![s] = Append(Front(queue[s]), Squashed(Last(queue[s]), e))]
        /\ drop(Reader, IF Squashed(Last(queue[s]), e).ticket = e.ticket
                        THEN Last(queue[s]).ticket ELSE e.ticket)
        /\ rpc' = "notify" /\ UNCHANGED <<routing, discarded>>
      BY <1>3 DEF push
  <2> QED BY <1>1, <1>3, <2>1, PushSquashes
<1>4. CASE ~shut[s] /\ ~Squashes(s, e)
  <2>1. /\ queue' = [queue EXCEPT ![s] = Append(queue[s], e)]
        /\ rpc' = "notify" /\ UNCHANGED <<outstanding, waiter, routing, discarded>>
      BY <1>4 DEF push
  <2> QED BY <1>1, <1>4, <2>1, PushAppends
<1> QED BY <1>2, <1>3, <1>4

\* Nothing is read yet.
LEMMA FenceStarts == FenceInit => FenceInv
<1> SUFFICES ASSUME FenceInit PROVE FenceInv OBVIOUS
<1>1. /\ next = 1 /\ outstanding = {} /\ waiter = {} /\ rpc = "idle"
      /\ routing = [sub |-> Reader, entry |-> Emptied]
      /\ last = 0 /\ done = {} /\ discarded = {}
      /\ at = [y \in Replies |-> 0] /\ ypc = [y \in Replies |-> "unrouted"]
      /\ told = [y \in Replies |-> "no"]
    BY DEF FenceInit
<1>2. /\ queue = [s \in Subscriptions |-> <<>>] /\ shut = [s \in Subscriptions |-> FALSE]
      /\ permit = [s \in Subscriptions |-> FALSE] /\ registered = [s \in Subscriptions |-> TRUE]
      /\ lpc = [s \in Subscriptions |-> "recv"] /\ held = [s \in Subscriptions |-> Emptied]
    BY DEF FenceInit
<1>3. Frames = {} BY <1>1 DEF Frames
<1>4. FenceTypeOK
  <2>1. next \in 1 .. MaxFrames + 1 BY <1>1, FenceBounds
  <2> QED BY <1>1, <1>2, <2>1 DEF FenceTypeOK
<1>5. queue \in [Subscriptions -> Seq(FrameEntry)]
  <2>1. <<>> \in Seq(FrameEntry) OBVIOUS
  <2> QED BY <1>2, <2>1
<1>6. FenceTyped
  <2>1. routing \in [sub : Threads, entry : FrameEntry \cup {Emptied}] BY <1>1 DEF Threads
  <2>2. held \in [Subscriptions -> FrameEntry \cup {Emptied}] BY <1>2
  <2> QED BY <1>1, <1>4, <1>5, <2>1, <2>2 DEF FenceTyped
<1>7. \A s \in Subscriptions : ToSet(queue[s]) = {} BY <1>2 DEF ToSet
<1>8. \A h \in Threads : Own(h) = {} BY <1>1, <1>2, <1>7 DEF Own, Undelivered, Threads
<1>9. Owned
    BY <1>1, <1>3, <1>8 DEF Owned, OwnedOK, OwnedOnce, TicketsOwned, FramesOwned
<1>10. RoutingOK BY <1>1 DEF RoutingOK
<1>11. ASSUME NEW s \in Subscriptions PROVE BacklogOK(s) /\ LoopOK(s)
  <2>1. queue[s] = <<>> /\ held[s] = Emptied /\ lpc[s] = "recv" /\ ~shut[s] BY <1>2
  <2>2. DOMAIN queue[s] = {} BY <2>1
  <2>3. BacklogOK(s) BY <2>1, <2>2 DEF BacklogOK, InOrder, WithinLimit
  <2>4. LoopOK(s) BY <2>1 DEF LoopOK
  <2> QED BY <2>3, <2>4
<1>12. \A y \in Replies : ReplyOK(y) BY <1>1 DEF ReplyOK
<1> QED BY <1>1, <1>6, <1>9, <1>10, <1>11, <1>12 DEF FenceInv

\* Nothing happens to the fence.
LEMMA FenceStays ==
    ASSUME FenceInv, UNCHANGED fenceVars
    PROVE  FenceInv'
<1>1. /\ FenceTyped /\ Owned /\ RoutingOK
      /\ \A x \in Subscriptions : BacklogOK(x) /\ LoopOK(x)
      /\ \A x \in outstanding : last <= x
      /\ discarded # {} => \E x \in Subscriptions : Abandoned(x)
    BY DEF FenceInv
<1>2. UNCHANGED <<next, outstanding, waiter, owed, queue, shut, permit, registered, lpc, held,
                  rpc, routing, ypc, at, told, last, done, discarded, ends>>
    BY DEF fenceVars, ticketVars, loopVars, readerVars, replyVars, history
<1>3. FenceTyped'
    BY <1>1, <1>2 DEF FenceTyped, FenceTypeOK, Frames, FrameEntry, Threads, Emptied, Reader
<1>4. Owned' BY <1>1, <1>2, OwnStays
<1>5. RoutingOK' BY <1>1, <1>2 DEF RoutingOK, Frames, FrameEntry, Reader, Emptied
<1>6. \A x \in Subscriptions : BacklogOK(x)' /\ LoopOK(x)' BY <1>1, <1>2, SubKept
<1>7. \A y \in Replies : ReplyOK(y)' BY <1>2, RepliesKept
<1>8. \A x \in outstanding' : last' <= x BY <1>1, <1>2
<1>9. discarded' # {} => \E x \in Subscriptions : Abandoned(x)' BY <1>1, <1>2 DEF Abandoned
<1> QED BY <1>3, <1>4, <1>5, <1>6, <1>7, <1>8, <1>9 DEF FenceInv

\* The inductive invariant of the fence: every frame read is owned by one
\* entry of the reader or of one subscription, or was dealt with; the tickets
\* outstanding are the entries', backlogs are in ticket order, and the loop that
\* calls back has the ticket last called back (`DeliveryFence`, `MonitorBacklog`).
THEOREM FenceInvariant == FenceSpec => []FenceInv
<1>1. FenceInv /\ [FenceNext]_fenceVars => FenceInv'
  <2> SUFFICES ASSUME FenceInv, [FenceNext]_fenceVars PROVE FenceInv' OBVIOUS
  <2>1. ASSUME NEW s \in Subscriptions, close(s) \/ cancel(s) \/ LoopStep(s) \/ \E kind \in Kinds : issue(s, kind)
        PROVE  FenceInv'
    <3>1. CASE close(s) BY <3>1, CloseKept
    <3>2. CASE cancel(s) BY <3>2, CancelKept
    <3>3. CASE recv(s) BY <3>3, RecvKept
    <3>4. CASE Notified(s) \/ abandon(s) BY <3>4, LoopMoves
    <3>5. CASE turn(s) BY <3>5, TurnKept
    <3>6. CASE callback(s) BY <3>6, CallbackKept
    <3>7. CASE Discard(s) BY <3>7, DiscardKept
    <3>8. CASE \E kind \in Kinds : issue(s, kind) BY <3>8, IssueKept
    <3> QED BY <2>1, <3>1, <3>2, <3>3, <3>4, <3>5, <3>6, <3>7, <3>8 DEF LoopStep
  <2>2. ASSUME NEW t \in Threads, Signal(t) PROVE FenceInv' BY <2>2, SignalKept
  <2>3. ASSUME NEW y \in Replies, point(y) \/ ReplyStep(y) PROVE FenceInv' BY <2>3, ReplyKept
  <2>4. CASE ReaderStep BY <2>4, PushKept, NotifyKept DEF ReaderStep
  <2>5. CASE UNCHANGED fenceVars BY <2>5, FenceStays
  <2> QED BY <2>1, <2>2, <2>3, <2>4, <2>5 DEF FenceNext
<1> QED BY <1>1, FenceStarts, PTL DEF FenceSpec

\* A subscription whose loop calls back is the only one.
LEMMA OneCallsBack ==
    ASSUME FenceInv
    PROVE  Cardinality({s \in Subscriptions : lpc[s] = "callback"}) <= 1
<1> DEFINE C == {s \in Subscriptions : lpc[s] = "callback"}
<1>1. ASSUME NEW s \in C, NEW x \in C PROVE s = x
  <2>1. /\ held[s] # Emptied /\ held[s].ticket = last
        /\ held[x] # Emptied /\ held[x].ticket = last
      BY DEF FenceInv, LoopOK
  <2>2. /\ s \in Threads /\ s # Reader /\ held[s] \in Own(s) /\ EntryOK(held[s])
        /\ x \in Threads /\ x # Reader /\ held[x] \in Own(x) /\ EntryOK(held[x])
      BY <2>1, SubOwns
  <2>3. last \in held[s].frames /\ last \in held[x].frames BY <2>1, <2>2 DEF EntryOK
  <2>4. OwnedOnce BY DEF FenceInv, Owned
  <2> QED BY <2>2, <2>3, <2>4 DEF OwnedOnce
<1> HIDE DEF C
<1>2. CASE C = {} BY <1>2, FS_EmptySet DEF C
<1>3. CASE C # {}
  <2>1. PICK s \in C : TRUE BY <1>3
  <2>2. C = {s} BY <1>1, <2>1
  <2>3. Cardinality(C) = 1 BY <2>2, FS_Singleton
  <2> QED BY <2>3 DEF C
<1> QED BY <1>2, <1>3

\* Callbacks of all subscriptions run in the order their frames were read, one
\* at a time, and a settled reply is behind every frame read before it, whatever
\* loops, cancels, closes and squashes cross (`turn`, `Delivery::drop`, `reached`).
THEOREM CallbacksInWireOrder == FenceSpec => []WireOrder
<1>1. FenceInv => WireOrder
  <2> SUFFICES ASSUME FenceInv PROVE WireOrder OBVIOUS
  <2>1. \A t \in outstanding : t >= last BY DEF FenceInv
  <2>2. CallbacksInOrder BY <2>1, OneCallsBack DEF CallbacksInOrder
  <2>3. ReplyBehindFrames BY DEF ReplyBehindFrames, FenceInv, ReplyOK
  <2> QED BY <2>2, <2>3 DEF WireOrder
<1> QED BY <1>1, FenceInvariant, PTL

\* A backlog exceeds its limit only by frames that may not be squashed.
LEMMA BacklogWithin ==
    ASSUME FenceInv
    PROVE  BacklogBounded
<1> SUFFICES ASSUME NEW s \in Subscriptions, s \notin Pipelined
             PROVE  Cardinality({i \in DOMAIN queue[s] : queue[s][i].kind = "data"
                                   /\ (i = 1 \/ queue[s][i - 1].kind = "data")}) <= Limit
    BY DEF BacklogBounded
<1> DEFINE D == {i \in DOMAIN queue[s] : queue[s][i].kind = "data"
                                         /\ (i = 1 \/ queue[s][i - 1].kind = "data")}
<1>1. Limit \in Nat /\ Limit >= 1 BY FenceBounds
<1>2. queue[s] \in Seq(FrameEntry) BY SubOwns
<1>3. Len(queue[s]) \in Nat /\ DOMAIN queue[s] = 1 .. Len(queue[s]) BY <1>2, LenProperties
<1>4. WithinLimit(queue[s]) BY DEF FenceInv, BacklogOK
<1>5. \A i \in D : i \in 1 .. Limit
  <2> SUFFICES ASSUME NEW i \in D PROVE i \in 1 .. Limit OBVIOUS
  <2>1. i \in 1 .. Len(queue[s]) /\ i \in DOMAIN queue[s] BY <1>3
  <2>2. CASE i = 1 BY <1>1, <2>2
  <2>3. CASE i # 1
    <3>1. i > 1 BY <1>3, <2>1, <2>3
    <3>2. i <= Limit BY <1>4, <2>1, <2>3, <3>1 DEF WithinLimit
    <3> QED BY <1>1, <1>3, <2>1, <3>2
  <2> QED BY <2>2, <2>3
<1> HIDE DEF D
<1>6. D \in SUBSET (1 .. Limit) BY <1>5
<1>7. IsFiniteSet(1 .. Limit) /\ Cardinality(1 .. Limit) = Limit
  <2>1. 1 \in Int /\ Limit \in Int /\ ~(1 > Limit) /\ Limit - 1 + 1 = Limit BY <1>1
  <2>2. /\ IsFiniteSet(1 .. Limit)
        /\ Cardinality(1 .. Limit) = IF 1 > Limit THEN 0 ELSE Limit - 1 + 1
      BY <2>1, FS_Interval
  <2> QED BY <2>1, <2>2
<1>8. Cardinality(D) <= Limit
  <2>1. Cardinality(D) <= Cardinality(1 .. Limit) BY <1>6, <1>7, FS_Subset
  <2> QED BY <1>7, <2>1
<1> QED BY <1>8 DEF D

\* What the reader has in hand: the entry it pushes, or has pushed.
LEMMA InHandIs ==
    ASSUME FenceInv
    PROVE  /\ \A e \in InHand : e.frames \subseteq Frames
           /\ rpc = "push" => InHand = Own(Reader)
<1>1. RoutingOK BY DEF FenceInv
<1>2. rpc \in {"idle", "push", "notify"} BY DEF FenceInv, FenceTyped, FenceTypeOK
<1>3. CASE rpc = "idle"
  <2>1. InHand = {} BY <1>1, <1>3 DEF RoutingOK, InHand
  <2> QED BY <1>3, <2>1
<1>4. CASE rpc # "idle"
  <2>1. routing.entry \in FrameEntry /\ routing.entry.frames \subseteq Frames
      BY <1>1, <1>4 DEF RoutingOK
  <2>2. InHand = {routing.entry} BY <2>1, EntryThere DEF InHand
  <2> QED BY <2>1, <2>2 DEF Own, Reader
<1> QED BY <1>3, <1>4

\* No frame is lost or dealt with twice in a squash, a hand-over or a cancel,
\* and every outstanding ticket is held by somebody who will release it; a
\* backlog exceeds its limit only by what may not be squashed (`Inner::push`,
\* `recv_in_turn`, `abandon`, `Delivery::drop`).
THEOREM NoFrameIsLost == FenceSpec => []FramesKept
<1>1. FenceInv => FramesKept
  <2> SUFFICES ASSUME FenceInv PROVE FramesKept OBVIOUS
  <2>1. FenceTypeOK /\ Owned BY DEF FenceInv, FenceTyped
  <2>2. \A s \in Subscriptions : s \in Threads /\ s # Reader /\ Own(s) = Undelivered(s) BY SubOwns
  <2>3. \A h \in Threads : h = Reader \/ h \in Subscriptions BY DEF Threads
  <2>4. \A h \in Threads : \A e \in Own(h) : e.frames \subseteq Frames
      BY <2>1 DEF Owned, OwnedOK, EntryOK
  <2>5. rpc # "push" => Own(Reader) = {} BY DEF Own, Reader
  <2> DEFINE Waiting == UNION {UNION {e.frames : e \in Undelivered(s)} : s \in Subscriptions}
             Reading == UNION {e.frames : e \in InHand}
  <2>6. NoFrameLost
    <3>1. /\ done \subseteq Frames /\ discarded \subseteq Frames /\ done \cap discarded = {}
          /\ \A f \in Frames : \/ f \in done \/ f \in discarded
                               \/ \E h \in Threads : \E e \in Own(h) : f \in e.frames
        BY <2>1 DEF Owned, FramesOwned
    <3>2. Reading \subseteq Frames BY InHandIs
    <3>3. Waiting \subseteq Frames BY <2>2, <2>4
    <3>4. ASSUME NEW f \in Frames, f \notin done, f \notin discarded PROVE f \in Reading \cup Waiting
      <4>1. PICK h \in Threads : \E e \in Own(h) : f \in e.frames BY <3>1, <3>4
      <4>2. CASE h = Reader
        <5>1. rpc = "push" BY <2>5, <4>1, <4>2
        <5>2. InHand = Own(Reader) BY <5>1, InHandIs
        <5> QED BY <4>1, <4>2, <5>2
      <4>3. CASE h # Reader
        <5>1. h \in Subscriptions /\ Own(h) = Undelivered(h) BY <2>2, <2>3, <4>3
        <5>2. PICK e \in Undelivered(h) : f \in e.frames BY <4>1, <5>1
        <5>3. f \in UNION {d.frames : d \in Undelivered(h)} BY <5>2
        <5> QED BY <5>1, <5>3
      <4> QED BY <4>2, <4>3
    <3>5. Frames = done \cup discarded \cup Reading \cup Waiting
      <4> HIDE DEF Reading, Waiting
      <4> QED BY <3>1, <3>2, <3>3, <3>4
    <3>6. discarded # {} => \E s \in Subscriptions : Abandoned(s) BY DEF FenceInv
    <3>7. done \cap discarded = {} BY <3>1
    <3> QED BY <3>5, <3>6, <3>7, Zenon DEF NoFrameLost
  <2>7. TicketsHeld
    <3> DEFINE Held == (IF rpc = "push" THEN InHand ELSE {}) \cup UNION {Undelivered(s) : s \in Subscriptions}
    <3>1. \A t : t \in outstanding <=> \E h \in Threads : \E e \in Own(h) : e.ticket = t
        BY <2>1 DEF Owned, TicketsOwned
    <3>2. (IF rpc = "push" THEN InHand ELSE {}) = Own(Reader) BY <2>5, InHandIs
    <3>3. Reader \in Threads BY DEF Threads
    <3>4. \A e : e \in Held <=> \E h \in Threads : e \in Own(h)
      <4> SUFFICES ASSUME NEW e PROVE e \in Held <=> \E h \in Threads : e \in Own(h) OBVIOUS
      <4>1. e \in Held => \E h \in Threads : e \in Own(h) BY <2>2, <3>2, <3>3
      <4>2. ASSUME NEW h \in Threads, e \in Own(h) PROVE e \in Held BY <2>2, <2>3, <3>2, <4>2
      <4> QED BY <4>1, <4>2
    <3> HIDE DEF Held
    <3>5. outstanding = {e.ticket : e \in Held} BY <3>1, <3>4
    <3> QED BY <3>5 DEF TicketsHeld, Held
  <2>8. BacklogBounded BY BacklogWithin
  <2> QED BY <2>1, <2>6, <2>7, <2>8 DEF FramesKept
<1> QED BY <1>1, FenceInvariant, PTL

-----------------------------------------------------------------------------
(* The map of a record's monitors: where its versions are (SubscriberList). *)

\* The parts of PlacesOf(v), a kind of place each.
InCell(v) == {<<"cell", 0>> : x \in {cell} \cap {v}}
InNew(v) == {<<"new", w>> : w \in {x \in Writers : writer[x] = "store" /\ v = Len(maps) - 1}}
InRing(v) == {<<"ring", i>> : i \in {j \in 1 .. RING : ring[j] = v}}
InOverflow(v) == {<<"overflow", i>> : i \in {j \in DOMAIN overflow : overflow[j] = v}}
InDisplaced(v) == {<<"displaced", w>> : w \in {x \in Writers : op[x].displaced = v}}
InFreed(v) == {<<"freed", w>> : w \in {x \in Writers : v \in freed[x]}}
InGone(v) == {<<"dropped", 0>> : x \in dropped \cap {v}}

\* The steps under the writer mutex, and those of them after the swap.
Inside == {"store", "ring", "overflow", "place"}
Sweeping == {"ring", "overflow", "place"}

\* Every version has its place.
OnePlace == \A v \in Versions : \E h : PlacesOf(v) = {h}

\* One writer at a time, with a displaced version from its swap on.
WritersOK ==
    /\ \E R : op \in [Writers -> [removed : R, displaced : Versions \cup {NoVersion}, at : Nat]]
    /\ \A w \in Writers :
        /\ holder = w <=> writer[w] \in Inside
        /\ op[w].displaced # NoVersion <=> writer[w] \in Sweeping
        /\ writer[w] = "store" => op[w].at = 0

\* What a post walks is neither freed nor about to be, and was published.
GuardsOK ==
    \A r \in Readers : guard[r] # NoVersion =>
        /\ guard[r] \notin dropped
        /\ \A w \in Writers : /\ guard[r] \notin freed[w]
                              /\ writer[w] = "store" => guard[r] # Len(maps) - 1

\* The kept versions the sweep has still to look at.
Unchecked(w) ==
    IF writer[w] = "ring"
    THEN ({ring[j] : j \in op[w].at + 1 .. RING} \ {NoVersion}) \cup Range(overflow)
    ELSE IF writer[w] = "overflow" THEN {overflow[j] : j \in op[w].at + 1 .. Len(overflow)}
    ELSE {}

\* The readers that hold none of them.
Past(w) == {r \in Readers : guard[r] \notin Unchecked(w)}

\* Each version looked at and kept was held by a reader, and no reader comes to
\* hold one that is no longer published.
SweepOK ==
    \A w \in Writers : writer[w] \in Sweeping =>
        Cardinality(RetiredMaps \ Unchecked(w)) <= Cardinality(Past(w))

MapInv ==
    /\ MapTypeOK /\ \E S : maps \in Seq(S)
    /\ WritersOK /\ OnePlace /\ GuardsOK /\ SweepOK /\ RetiredBounded

-----------------------------------------------------------------------------
\* A version's places are those of each kind.
LEMMA PlaceKinds ==
    ASSUME NEW v
    PROVE  /\ PlacesOf(v) = InCell(v) \cup InNew(v) \cup InRing(v) \cup InOverflow(v)
                             \cup InDisplaced(v) \cup InFreed(v) \cup InGone(v)
           /\ PlacesOf(v)' = InCell(v)' \cup InNew(v)' \cup InRing(v)' \cup InOverflow(v)'
                             \cup InDisplaced(v)' \cup InFreed(v)' \cup InGone(v)'
BY DEF PlacesOf, InCell, InNew, InRing, InOverflow, InDisplaced, InFreed, InGone

\* A place tells its kind.
LEMMA PlaceTags ==
    ASSUME NEW v
    PROVE  /\ \A p \in InCell(v) : p[1] = "cell"
           /\ \A p \in InNew(v) : p[1] = "new"
           /\ \A p \in InRing(v) : p[1] = "ring"
           /\ \A p \in InOverflow(v) : p[1] = "overflow"
           /\ \A p \in InDisplaced(v) : p[1] = "displaced"
           /\ \A p \in InFreed(v) : p[1] = "freed"
           /\ \A p \in InGone(v) : p[1] = "dropped"
BY DEF InCell, InNew, InRing, InOverflow, InDisplaced, InFreed, InGone

\* The one place of a version is of one kind.
LEMMA SoleKind ==
    ASSUME NEW v, NEW h, PlacesOf(v) = {h}
    PROVE  /\ \/ InCell(v) = {h} /\ h[1] = "cell"
              \/ InCell(v) = {} /\ h[1] # "cell"
           /\ \/ InNew(v) = {h} /\ h[1] = "new"
              \/ InNew(v) = {} /\ h[1] # "new"
           /\ \/ InRing(v) = {h} /\ h[1] = "ring"
              \/ InRing(v) = {} /\ h[1] # "ring"
           /\ \/ InOverflow(v) = {h} /\ h[1] = "overflow"
              \/ InOverflow(v) = {} /\ h[1] # "overflow"
           /\ \/ InDisplaced(v) = {h} /\ h[1] = "displaced"
              \/ InDisplaced(v) = {} /\ h[1] # "displaced"
           /\ \/ InFreed(v) = {h} /\ h[1] = "freed"
              \/ InFreed(v) = {} /\ h[1] # "freed"
           /\ \/ InGone(v) = {h} /\ h[1] = "dropped"
              \/ InGone(v) = {} /\ h[1] # "dropped"
<1> DEFINE C == InCell(v)  N == InNew(v)  R == InRing(v)  O == InOverflow(v)
           D == InDisplaced(v)  F == InFreed(v)  G == InGone(v)
<1>1. C \cup N \cup R \cup O \cup D \cup F \cup G = {h}
  BY PlaceKinds
<1>2. /\ \A p \in C : p[1] = "cell"
      /\ \A p \in N : p[1] = "new"
      /\ \A p \in R : p[1] = "ring"
      /\ \A p \in O : p[1] = "overflow"
      /\ \A p \in D : p[1] = "displaced"
      /\ \A p \in F : p[1] = "freed"
      /\ \A p \in G : p[1] = "dropped"
  BY PlaceTags
<1> HIDE DEF C, N, R, O, D, F, G
<1>3. h \in C \/ h \in N \/ h \in R \/ h \in O \/ h \in D \/ h \in F \/ h \in G
  BY <1>1
<1>4. /\ C = {} \/ C = {h}
      /\ N = {} \/ N = {h}
      /\ R = {} \/ R = {h}
      /\ O = {} \/ O = {h}
      /\ D = {} \/ D = {h}
      /\ F = {} \/ F = {h}
      /\ G = {} \/ G = {h}
  BY <1>1
<1>5. /\ C = {h} => h[1] = "cell"
      /\ N = {h} => h[1] = "new"
      /\ R = {h} => h[1] = "ring"
      /\ O = {h} => h[1] = "overflow"
      /\ D = {h} => h[1] = "displaced"
      /\ F = {h} => h[1] = "freed"
      /\ G = {h} => h[1] = "dropped"
  BY <1>2
<1>6. /\ C = {} => h[1] # "cell"
      /\ N = {} => h[1] # "new"
      /\ R = {} => h[1] # "ring"
      /\ O = {} => h[1] # "overflow"
      /\ D = {} => h[1] # "displaced"
      /\ F = {} => h[1] # "freed"
      /\ G = {} => h[1] # "dropped"
  BY <1>2, <1>3
<1> QED
  BY <1>4, <1>5, <1>6 DEF C, N, R, O, D, F, G

-----------------------------------------------------------------------------
\* A kind of place changes only with the variable it is about.
LEMMA KindsKept ==
    ASSUME NEW v
    PROVE  /\ cell' = cell => InCell(v)' = InCell(v)
           /\ writer' = writer /\ maps' = maps => InNew(v)' = InNew(v)
           /\ ring' = ring => InRing(v)' = InRing(v)
           /\ overflow' = overflow => InOverflow(v)' = InOverflow(v)
           /\ op' = op => InDisplaced(v)' = InDisplaced(v)
           /\ freed' = freed => InFreed(v)' = InFreed(v)
           /\ dropped' = dropped => InGone(v)' = InGone(v)
BY DEF InCell, InNew, InRing, InOverflow, InDisplaced, InFreed, InGone

\* What is at a place of each kind.
LEMMA KindsHold ==
    ASSUME NEW v
    PROVE  /\ cell = v => InCell(v) = {<<"cell", 0>>}
           /\ cell # v => InCell(v) = {}
           /\ \A w \in Writers : writer[w] = "store" /\ v = Len(maps) - 1 => InNew(v) # {}
           /\ \A i \in 1 .. RING : ring[i] = v => InRing(v) # {}
           /\ \A i \in DOMAIN overflow : overflow[i] = v => InOverflow(v) # {}
           /\ \A w \in Writers : op[w].displaced = v => InDisplaced(v) # {}
           /\ \A w \in Writers : v \in freed[w] => InFreed(v) # {}
           /\ v \in dropped => InGone(v) # {}
           /\ v \notin dropped => InGone(v) = {}
BY DEF InCell, InNew, InRing, InOverflow, InDisplaced, InFreed, InGone

\* A kind of place without the version.
LEMMA KindsEmpty ==
    ASSUME NEW v
    PROVE  /\ (\A w \in Writers : writer[w] # "store" \/ v # Len(maps) - 1) => InNew(v) = {}
           /\ (\A i \in 1 .. RING : ring[i] # v) => InRing(v) = {}
           /\ (\A i \in DOMAIN overflow : overflow[i] # v) => InOverflow(v) = {}
           /\ (\A w \in Writers : op[w].displaced # v) => InDisplaced(v) = {}
           /\ (\A w \in Writers : v \notin freed[w]) => InFreed(v) = {}
BY DEF InNew, InRing, InOverflow, InDisplaced, InFreed

\* A version is in one slot, once past the ring, and one writer's to free.
LEMMA SoleSlot ==
    ASSUME NEW v, NEW h, PlacesOf(v) = {h}
    PROVE  /\ \A i, j \in 1 .. RING : ring[i] = v /\ ring[j] = v => i = j
           /\ \A i, j \in DOMAIN overflow : overflow[i] = v /\ overflow[j] = v => i = j
           /\ \A x, y \in Writers : v \in freed[x] /\ v \in freed[y] => x = y
<1>1. /\ InRing(v) \subseteq {h} /\ InOverflow(v) \subseteq {h} /\ InFreed(v) \subseteq {h}
  BY PlaceKinds
<1>2. \A i \in 1 .. RING : ring[i] = v => h = <<"ring", i>>
  BY <1>1 DEF InRing
<1>3. \A i \in DOMAIN overflow : overflow[i] = v => h = <<"overflow", i>>
  BY <1>1 DEF InOverflow
<1>4. \A x \in Writers : v \in freed[x] => h = <<"freed", x>>
  BY <1>1 DEF InFreed
<1>5. \A i, j : <<"ring", i>> = <<"ring", j>> => i = j
  OBVIOUS
<1>6. \A i, j : <<"overflow", i>> = <<"overflow", j>> => i = j
  OBVIOUS
<1>7. \A i, j : <<"freed", i>> = <<"freed", j>> => i = j
  OBVIOUS
<1> QED
  BY <1>2, <1>3, <1>4, <1>5, <1>6, <1>7

\* The writer inside the mutex is alone there.
LEMMA AloneInside ==
    ASSUME WritersOK, NEW w \in Writers, writer[w] \in Inside
    PROVE  \A x \in Writers : x # w => /\ writer[x] \notin Inside
                                       /\ op[x].displaced = NoVersion
<1>1. holder = w
  BY DEF WritersOK
<1>2. \A x \in Writers : x # w => writer[x] \notin Inside
  BY <1>1 DEF WritersOK
<1>3. \A x \in Writers : writer[x] \notin Inside => writer[x] \notin Sweeping
  BY DEF Inside, Sweeping
<1> QED
  BY <1>2, <1>3 DEF WritersOK

\* With the mutex free nobody is inside.
LEMMA NobodyInside ==
    ASSUME WritersOK, holder = NoWriter
    PROVE  \A x \in Writers : /\ writer[x] \notin Inside /\ writer[x] \notin Sweeping
                              /\ writer[x] # "store" /\ op[x].displaced = NoVersion
<1>1. \A x \in Writers : writer[x] \notin Inside
  BY ListBounds DEF WritersOK
<1>2. \A x \in Writers : writer[x] \notin Inside => writer[x] \notin Sweeping /\ writer[x] # "store"
  BY DEF Inside, Sweeping
<1> QED
  BY <1>1, <1>2 DEF WritersOK

\* The published version is kept nowhere else.
LEMMA CellApart ==
    ASSUME MapInv
    PROVE  /\ cell \notin RetiredMaps /\ cell \notin dropped
           /\ \A w \in Writers : /\ cell \notin freed[w] /\ op[w].displaced # cell
                                 /\ writer[w] = "store" => cell # Len(maps) - 1
<1>1. PICK h : PlacesOf(cell) = {h}
  BY DEF MapInv, MapTypeOK, OnePlace
<1>2. InCell(cell) # {}
  BY KindsHold
<1>3. /\ InNew(cell) = {} /\ InRing(cell) = {} /\ InOverflow(cell) = {}
      /\ InDisplaced(cell) = {} /\ InFreed(cell) = {} /\ InGone(cell) = {}
  <2>1. h[1] = "cell"
    BY <1>1, <1>2, SoleKind
  <2> QED
    BY <1>1, <2>1, SoleKind
<1>4. /\ \A i \in 1 .. RING : ring[i] # cell
      /\ \A i \in DOMAIN overflow : overflow[i] # cell
      /\ \A w \in Writers : /\ cell \notin freed[w] /\ op[w].displaced # cell
                            /\ writer[w] = "store" => cell # Len(maps) - 1
      /\ cell \notin dropped
  BY <1>3, KindsHold
<1>5. DOMAIN ring = 1 .. RING
  BY DEF MapInv, MapTypeOK
<1> QED
  BY <1>4, <1>5 DEF RetiredMaps, Range

-----------------------------------------------------------------------------
(* The places of the versions, step by step.                               *)

\* What a publish does to the memory: a new version in the writer's hand.
PublishStep(w) ==
    /\ writer[w] = "idle" /\ holder = NoWriter
    /\ \E e : maps' = Append(maps, e)
    /\ \E m : op' = [op EXCEPT ![w] = [removed |-> m, displaced |-> NoVersion, at |-> 0]]
    /\ writer' = [writer EXCEPT ![w] = "store"]
    /\ holder' = w
    /\ UNCHANGED <<cell, ring, overflow, freed, dropped, guard>>

\* A new version is the next number, and the older ones stay.
LEMMA NewVersion ==
    ASSUME MapInv, NEW w \in Writers, PublishStep(w)
    PROVE  /\ Len(maps) \in Nat \ {0} /\ Len(maps') = Len(maps) + 1
           /\ \E S : maps' \in Seq(S)
           /\ Versions \subseteq Versions'
           /\ Versions' = Versions \cup {Len(maps)} /\ Len(maps) \notin Versions
<1>1. PICK S : maps \in Seq(S)
  BY DEF MapInv
<1>2. PICK e : maps' = Append(maps, e)
  BY DEF PublishStep
<1> DEFINE T == S \cup {e}
<1>3. maps \in Seq(T)
  BY <1>1
<1>4. e \in T
  OBVIOUS
<1> HIDE DEF T
<1>5. maps' \in Seq(T) /\ Len(maps') = Len(maps) + 1
  BY <1>2, <1>3, <1>4, AppendProperties
<1>6. Len(maps) \in Nat \ {0}
  BY DEF MapInv, MapTypeOK
<1> QED
  BY <1>5, <1>6 DEF Versions

\* The new version is in its writer's hand, the others where they were.
LEMMA PublishPlaces ==
    ASSUME MapInv, NEW w \in Writers, PublishStep(w)
    PROVE  OnePlace'
<1>1. /\ Len(maps) \in Nat \ {0} /\ Len(maps') = Len(maps) + 1
      /\ Versions' = Versions \cup {Len(maps)} /\ Len(maps) \notin Versions
  BY NewVersion
<1>2. \A x \in Writers : writer[x] # "store" /\ op[x].displaced = NoVersion
  BY NobodyInside DEF MapInv, PublishStep
<1>3. /\ cell' = cell /\ ring' = ring /\ overflow' = overflow
      /\ freed' = freed /\ dropped' = dropped
  BY DEF PublishStep
<1>4. \A x \in Writers : op'[x].displaced = NoVersion
  <2>1. PICK m : op' = [op EXCEPT ![w] = [removed |-> m, displaced |-> NoVersion, at |-> 0]]
    BY DEF PublishStep
  <2>2. PICK R : op \in [Writers -> [removed : R, displaced : Versions \cup {NoVersion}, at : Nat]]
    BY DEF MapInv, WritersOK
  <2>3. op'[w] = [removed |-> m, displaced |-> NoVersion, at |-> 0]
    BY <2>1, <2>2
  <2>4. \A x \in Writers : x # w => op'[x] = op[x]
    BY <2>1, <2>2
  <2> QED
    BY <1>2, <2>3, <2>4
<1>5. /\ writer'[w] = "store"
      /\ \A x \in Writers : x # w => writer'[x] # "store"
  BY <1>2 DEF PublishStep, MapInv, MapTypeOK
<1>6. ASSUME NEW v \in Versions
      PROVE  \E h : PlacesOf(v)' = {h}
  <2>1. v # Len(maps') - 1 /\ v # NoVersion
    BY <1>1 DEF Versions, NoVersion
  <2>2. InNew(v)' = {} /\ InDisplaced(v)' = {}
    BY <1>4, <2>1 DEF InNew, InDisplaced
  <2>3. InDisplaced(v) = {} /\ InNew(v) = {}
    BY <1>2, <2>1, KindsEmpty
  <2>4. /\ InCell(v)' = InCell(v) /\ InRing(v)' = InRing(v) /\ InOverflow(v)' = InOverflow(v)
        /\ InFreed(v)' = InFreed(v) /\ InGone(v)' = InGone(v)
    BY <1>3, KindsKept
  <2>5. PlacesOf(v)' = PlacesOf(v)
    BY <2>2, <2>3, <2>4, PlaceKinds
  <2> QED
    BY <2>5 DEF MapInv, OnePlace
<1>7. ASSUME NEW v, v = Len(maps)
      PROVE  \E h : PlacesOf(v)' = {h}
  <2>1. /\ v = Len(maps') - 1 /\ v # NoVersion /\ v \notin Versions
    BY <1>1, <1>7 DEF NoVersion
  <2>2. /\ v # cell' /\ v \notin dropped'
        /\ \A i \in 1 .. RING : ring'[i] # v
        /\ \A i \in DOMAIN overflow' : overflow'[i] # v
        /\ \A x \in Writers : v \notin freed'[x]
    BY <1>3, <2>1 DEF MapInv, MapTypeOK
  <2>3. \A x \in Writers : op'[x].displaced # v
    BY <1>4, <2>1
  <2>4. /\ InCell(v)' = {} /\ InRing(v)' = {} /\ InOverflow(v)' = {} /\ InDisplaced(v)' = {}
        /\ InFreed(v)' = {} /\ InGone(v)' = {}
    BY <2>2, <2>3 DEF InCell, InRing, InOverflow, InDisplaced, InFreed, InGone
  <2>5. InNew(v)' = {<<"new", w>>}
    BY <1>5, <2>1 DEF InNew
  <2>6. PlacesOf(v)' = {<<"new", w>>}
    BY <2>4, <2>5, PlaceKinds
  <2> QED
    BY <2>6
<1> QED
  BY <1>1, <1>6, <1>7 DEF OnePlace

\* The swap takes the published version in hand and publishes the new one.
LEMMA SwapPlaces ==
    ASSUME MapInv, NEW w \in Writers, Swap(w)
    PROVE  OnePlace'
<1>1. /\ writer[w] = "store" /\ writer[w] \in Inside /\ op[w].displaced = NoVersion
  <2>1. writer[w] = "store"
    BY DEF Swap
  <2>2. writer[w] \in Inside /\ writer[w] \notin Sweeping
    BY <2>1 DEF Inside, Sweeping
  <2> QED
    BY <2>1, <2>2 DEF MapInv, WritersOK
<1>2. \A x \in Writers : x # w => writer[x] \notin Inside /\ op[x].displaced = NoVersion
  BY <1>1, AloneInside DEF MapInv
<1>3. /\ ring' = ring /\ overflow' = overflow /\ maps' = maps
      /\ freed' = freed /\ dropped' = dropped /\ cell' = Len(maps) - 1
  BY DEF Swap
<1>4. \A x \in Writers : op'[x].displaced = IF x = w THEN cell ELSE NoVersion
  <2>1. PICK R : op \in [Writers -> [removed : R, displaced : Versions \cup {NoVersion}, at : Nat]]
    BY DEF MapInv, WritersOK
  <2>2. op' = [op EXCEPT ![w].displaced = cell]
    BY DEF Swap
  <2>3. op'[w].displaced = cell
    BY <2>1, <2>2
  <2>4. \A x \in Writers : x # w => op'[x] = op[x]
    BY <2>1, <2>2
  <2> QED
    BY <1>2, <2>3, <2>4
<1>5. \A x \in Writers : writer'[x] # "store"
  <2>1. \A x \in Writers : x # w => writer[x] # "store"
    BY <1>2 DEF Inside
  <2> QED
    BY <2>1 DEF Swap, MapInv, MapTypeOK
<1>6. Versions' = Versions
  BY <1>3 DEF Versions
<1> SUFFICES ASSUME NEW v \in Versions PROVE \E h : PlacesOf(v)' = {h}
  BY <1>6 DEF OnePlace
<1>7. v # NoVersion
  BY DEF Versions, NoVersion, MapInv, MapTypeOK
<1>8. PICK h : PlacesOf(v) = {h}
  BY DEF MapInv, OnePlace
<1>9. /\ InRing(v)' = InRing(v) /\ InOverflow(v)' = InOverflow(v)
      /\ InFreed(v)' = InFreed(v) /\ InGone(v)' = InGone(v)
  BY <1>3, KindsKept
<1>10. InNew(v)' = {}
  BY <1>5 DEF InNew
<1>11. InDisplaced(v) = {}
  BY <1>1, <1>2, <1>7, KindsEmpty
<1>12. CASE v = Len(maps) - 1
  <2>1. InNew(v) # {}
    BY <1>1, <1>12, KindsHold
  <2>2. h[1] = "new"
    BY <1>8, <2>1, SoleKind
  <2>3. /\ InCell(v) = {} /\ InRing(v) = {} /\ InOverflow(v) = {}
        /\ InFreed(v) = {} /\ InGone(v) = {}
    BY <1>8, <2>2, SoleKind
  <2>4. v # cell
    BY <2>3, KindsHold
  <2>5. InDisplaced(v)' = {}
    BY <1>4, <1>7, <2>4 DEF InDisplaced
  <2>6. InCell(v)' = {<<"cell", 0>>}
    BY <1>3, <1>12 DEF InCell
  <2>7. PlacesOf(v)' = {<<"cell", 0>>}
    BY <1>9, <1>10, <2>3, <2>5, <2>6, PlaceKinds
  <2> QED
    BY <2>7
<1>13. CASE v # Len(maps) - 1 /\ v = cell
  <2>1. InCell(v) # {}
    BY <1>13, KindsHold
  <2>2. h[1] = "cell"
    BY <1>8, <2>1, SoleKind
  <2>3. InRing(v) = {} /\ InOverflow(v) = {} /\ InFreed(v) = {} /\ InGone(v) = {}
    BY <1>8, <2>2, SoleKind
  <2>4. InCell(v)' = {}
    BY <1>3, <1>13 DEF InCell
  <2>5. InDisplaced(v)' = {<<"displaced", w>>}
    BY <1>4, <1>7, <1>13 DEF InDisplaced
  <2>6. PlacesOf(v)' = {<<"displaced", w>>}
    BY <1>9, <1>10, <2>3, <2>4, <2>5, PlaceKinds
  <2> QED
    BY <2>6
<1>14. CASE v # Len(maps) - 1 /\ v # cell
  <2>1. InCell(v) = {} /\ InNew(v) = {}
    BY <1>14, KindsHold, KindsEmpty
  <2>2. InCell(v)' = {}
    BY <1>3, <1>14 DEF InCell
  <2>3. InDisplaced(v)' = {}
    BY <1>4, <1>7, <1>14 DEF InDisplaced
  <2>4. PlacesOf(v)' = PlacesOf(v)
    BY <1>9, <1>10, <1>11, <2>1, <2>2, <2>3, PlaceKinds
  <2> QED
    BY <1>8, <2>4
<1> QED
  BY <1>12, <1>13, <1>14

\* A step that touches no version's place.
LEMMA SamePlaces ==
    ASSUME MapInv, UNCHANGED <<maps, cell, ring, overflow, freed, dropped>>,
           \A x \in Writers : /\ op'[x].displaced = op[x].displaced
                              /\ writer'[x] = "store" <=> writer[x] = "store"
    PROVE  OnePlace'
<1>1. Versions' = Versions
  BY DEF Versions
<1> SUFFICES ASSUME NEW v \in Versions PROVE \E h : PlacesOf(v)' = {h}
  BY <1>1 DEF OnePlace
<1>2. /\ InCell(v)' = InCell(v) /\ InRing(v)' = InRing(v) /\ InOverflow(v)' = InOverflow(v)
      /\ InFreed(v)' = InFreed(v) /\ InGone(v)' = InGone(v)
  BY KindsKept
<1>3. InDisplaced(v)' = InDisplaced(v)
  BY DEF InDisplaced
<1>4. InNew(v)' = InNew(v)
  BY DEF InNew
<1>5. PlacesOf(v)' = PlacesOf(v)
  BY <1>2, <1>3, <1>4, PlaceKinds
<1> QED
  BY <1>5 DEF MapInv, OnePlace

\* The three turns of the sweep of the ring, as far as the memory goes.
RingDone(w) ==
    /\ writer[w] = "ring" /\ op[w].at + 1 > RING
    /\ writer' = [writer EXCEPT ![w] = "overflow"]
    /\ op' = [op EXCEPT ![w].at = 0]
    /\ UNCHANGED <<maps, cell, ring, overflow, holder, freed, dropped, guard>>

RingKeep(w) ==
    /\ writer[w] = "ring" /\ op[w].at + 1 <= RING
    /\ ring[op[w].at + 1] = NoVersion \/ ~Unheld(ring[op[w].at + 1])
    /\ op' = [op EXCEPT ![w].at = op[w].at + 1]
    /\ UNCHANGED <<maps, cell, ring, overflow, holder, writer, freed, dropped, guard>>

RingFree(w) ==
    /\ writer[w] = "ring" /\ op[w].at + 1 <= RING
    /\ ring[op[w].at + 1] # NoVersion /\ Unheld(ring[op[w].at + 1])
    /\ op' = [op EXCEPT ![w].at = op[w].at + 1]
    /\ ring' = [ring EXCEPT ![op[w].at + 1] = NoVersion]
    /\ freed' = [freed EXCEPT ![w] = freed[w] \cup {ring[op[w].at + 1]}]
    /\ UNCHANGED <<maps, cell, overflow, holder, writer, dropped, guard>>

\* The same past the ring.
OverflowDone(w) ==
    /\ writer[w] = "overflow" /\ op[w].at + 1 > Len(overflow)
    /\ writer' = [writer EXCEPT ![w] = "place"]
    /\ UNCHANGED <<maps, cell, ring, overflow, holder, op, freed, dropped, guard>>

OverflowKeep(w) ==
    /\ writer[w] = "overflow" /\ op[w].at + 1 <= Len(overflow)
    /\ ~Unheld(overflow[op[w].at + 1])
    /\ op' = [op EXCEPT ![w].at = op[w].at + 1]
    /\ UNCHANGED <<maps, cell, ring, overflow, holder, writer, freed, dropped, guard>>

OverflowFree(w) ==
    /\ writer[w] = "overflow" /\ op[w].at + 1 <= Len(overflow)
    /\ Unheld(overflow[op[w].at + 1])
    /\ overflow' = SwapRemove(overflow, op[w].at + 1)
    /\ freed' = [freed EXCEPT ![w] = freed[w] \cup {overflow[op[w].at + 1]}]
    /\ UNCHANGED <<maps, cell, ring, holder, writer, op, dropped, guard>>

\* The index of a sweep is a number.
LEMMA AtType ==
    ASSUME MapInv, NEW w \in Writers
    PROVE  op[w].at \in Nat /\ op[w].displaced \in Versions \cup {NoVersion}
BY DEF MapInv, WritersOK

\* A turn of either sweep is one of these.
LEMMA SweepTurns ==
    ASSUME MapInv, NEW w \in Writers
    PROVE  /\ SweepRing(w) => RingDone(w) \/ RingKeep(w) \/ RingFree(w)
           /\ SweepOverflow(w) => OverflowDone(w) \/ OverflowKeep(w) \/ OverflowFree(w)
<1>1. op[w].at \in Nat
  BY AtType
<1>2. ASSUME SweepRing(w) PROVE RingDone(w) \/ RingKeep(w) \/ RingFree(w)
  <2>1. op[w].at + 1 > RING \/ (~(op[w].at + 1 > RING) /\ op[w].at + 1 <= RING)
    BY <1>1, ListBounds
  <2>2. CASE op[w].at + 1 > RING
    BY <1>2, <2>2 DEF SweepRing, RingDone
  <2>3. CASE ~(op[w].at + 1 > RING) /\ op[w].at + 1 <= RING
    <3>1. CASE ring[op[w].at + 1] # NoVersion /\ Unheld(ring[op[w].at + 1])
      BY <1>2, <2>3, <3>1 DEF SweepRing, RingFree
    <3>2. CASE ~(ring[op[w].at + 1] # NoVersion /\ Unheld(ring[op[w].at + 1]))
      BY <1>2, <2>3, <3>2 DEF SweepRing, RingKeep
    <3> QED
      BY <3>1, <3>2
  <2> QED
    BY <2>1, <2>2, <2>3
<1>3. ASSUME SweepOverflow(w) PROVE OverflowDone(w) \/ OverflowKeep(w) \/ OverflowFree(w)
  <2>1. \/ op[w].at + 1 > Len(overflow)
        \/ ~(op[w].at + 1 > Len(overflow)) /\ op[w].at + 1 <= Len(overflow)
    BY <1>1 DEF MapInv, MapTypeOK
  <2>2. CASE op[w].at + 1 > Len(overflow)
    BY <1>3, <2>2 DEF SweepOverflow, OverflowDone
  <2>3. CASE ~(op[w].at + 1 > Len(overflow)) /\ op[w].at + 1 <= Len(overflow)
    <3>1. CASE Unheld(overflow[op[w].at + 1])
      BY <1>3, <2>3, <3>1 DEF SweepOverflow, OverflowFree
    <3>2. CASE ~Unheld(overflow[op[w].at + 1])
      BY <1>3, <2>3, <3>2 DEF SweepOverflow, OverflowKeep
    <3> QED
      BY <3>1, <3>2
  <2> QED
    BY <2>1, <2>2, <2>3
<1> QED
  BY <1>2, <1>3

\* A writer's place in its sweep, and nothing else of its publish.
LEMMA AtMoves ==
    ASSUME MapInv, NEW w \in Writers, NEW n \in Nat, op' = [op EXCEPT ![w].at = n]
    PROVE  /\ op'[w].at = n
           /\ \A x \in Writers : op'[x].displaced = op[x].displaced
           /\ \A x \in Writers : x # w => op'[x] = op[x]
           /\ \E R : op' \in [Writers -> [removed : R, displaced : Versions \cup {NoVersion},
                                          at : Nat]]
<1>1. PICK R : op \in [Writers -> [removed : R, displaced : Versions \cup {NoVersion}, at : Nat]]
  BY DEF MapInv, WritersOK
<1> DEFINE D == Versions \cup {NoVersion}
<1>2. op \in [Writers -> [removed : R, displaced : D, at : Nat]]
  BY <1>1
<1> HIDE DEF D
<1>3. op' \in [Writers -> [removed : R, displaced : D, at : Nat]]
  BY <1>2
<1>4. op'[w].at = n
  BY <1>2
<1>5. op'[w].displaced = op[w].displaced
  BY <1>2
<1>6. \A x \in Writers : x # w => op'[x] = op[x]
  BY <1>2
<1> QED
  BY <1>3, <1>4, <1>5, <1>6 DEF D

\* A slot let go: its version is the writer's to free.
LEMMA RingFreePlaces ==
    ASSUME MapInv, NEW w \in Writers, RingFree(w)
    PROVE  /\ OnePlace' /\ ring[op[w].at + 1] \in Versions
           /\ \A j \in 1 .. RING : ring'[j] # ring[op[w].at + 1]
           /\ \A j \in DOMAIN overflow : overflow[j] # ring[op[w].at + 1]
<1> DEFINE i == op[w].at + 1
           u == ring[i]
<1>1. i \in 1 .. RING
  BY AtType, ListBounds DEF RingFree
<1>2. u \in Versions /\ u # NoVersion
  BY <1>1 DEF RingFree, MapInv, MapTypeOK
<1>3. /\ ring' = [ring EXCEPT ![i] = NoVersion] /\ DOMAIN ring = 1 .. RING
      /\ freed' = [freed EXCEPT ![w] = freed[w] \cup {u}] /\ DOMAIN freed = Writers
  BY DEF RingFree, MapInv, MapTypeOK
<1>4. /\ maps' = maps /\ cell' = cell /\ overflow' = overflow /\ writer' = writer
      /\ dropped' = dropped
  BY DEF RingFree
<1>5. \A x \in Writers : op'[x].displaced = op[x].displaced
  BY AtType, AtMoves DEF RingFree
<1> HIDE DEF i, u
<1>6. PICK g : PlacesOf(u) = {g}
  BY <1>2 DEF MapInv, OnePlace
<1>7. ring[i] = u
  BY DEF u
<1>8. g[1] = "ring"
  <2>1. InRing(u) # {}
    BY <1>1, <1>7, KindsHold
  <2> QED
    BY <1>6, <2>1, SoleKind
<1>9. /\ InCell(u) = {} /\ InNew(u) = {} /\ InOverflow(u) = {} /\ InDisplaced(u) = {}
      /\ InFreed(u) = {} /\ InGone(u) = {}
  BY <1>6, <1>8, SoleKind
<1>10. \A j \in 1 .. RING : ring'[j] # u
  <2>1. \A j \in 1 .. RING : ring[j] = u => j = i
    BY <1>1, <1>6, <1>7, SoleSlot
  <2>2. \A j \in 1 .. RING : ring'[j] = IF j = i THEN NoVersion ELSE ring[j]
    BY <1>1, <1>3
  <2> QED
    BY <1>2, <2>1, <2>2
<1>11. \A j \in DOMAIN overflow : overflow[j] # u
  BY <1>9, KindsHold
<1>12. ASSUME NEW v \in Versions
       PROVE  \E h : PlacesOf(v)' = {h}
  <2>1. /\ InCell(v)' = InCell(v) /\ InNew(v)' = InNew(v) /\ InOverflow(v)' = InOverflow(v)
        /\ InGone(v)' = InGone(v)
    BY <1>4, KindsKept
  <2>2. InDisplaced(v)' = InDisplaced(v)
    BY <1>5 DEF InDisplaced
  <2>3. CASE v = u
    <3>1. InRing(v)' = {}
      BY <1>10, <2>3 DEF InRing
    <3>2. \A x \in Writers : u \in freed'[x] <=> x = w
      <4>1. \A x \in Writers : u \notin freed[x]
        BY <1>9, KindsHold
      <4> QED
        BY <1>3, <4>1
    <3>3. InFreed(v)' = {<<"freed", w>>}
      BY <2>3, <3>2 DEF InFreed
    <3>4. PlacesOf(v)' = {<<"freed", w>>}
      BY <1>9, <2>1, <2>2, <2>3, <3>1, <3>3, PlaceKinds
    <3> QED
      BY <3>4
  <2>4. CASE v # u
    <3>1. v # NoVersion
      BY DEF Versions, NoVersion, MapInv, MapTypeOK
    <3>2. \A j \in 1 .. RING : ring'[j] = v <=> ring[j] = v
      BY <1>1, <1>3, <1>7, <2>4, <3>1
    <3>3. InRing(v)' = InRing(v)
      BY <3>2 DEF InRing
    <3>4. \A x \in Writers : v \in freed'[x] <=> v \in freed[x]
      BY <1>3, <2>4
    <3>5. InFreed(v)' = InFreed(v)
      BY <3>4 DEF InFreed
    <3>6. PlacesOf(v)' = PlacesOf(v)
      BY <2>1, <2>2, <3>3, <3>5, PlaceKinds
    <3> QED
      BY <3>6 DEF MapInv, OnePlace
  <2> QED
    BY <2>3, <2>4
<1>13. Versions' = Versions
  BY <1>4 DEF Versions
<1>14. OnePlace'
  BY <1>12, <1>13 DEF OnePlace
<1> QED
  BY <1>2, <1>10, <1>11, <1>14 DEF i, u

\* What removing by a swap with the last entry leaves.
LEMMA SwapRemoved ==
    ASSUME NEW T, NEW seq \in Seq(T), NEW i \in 1 .. Len(seq)
    PROVE  /\ SwapRemove(seq, i) \in Seq(T)
           /\ Len(SwapRemove(seq, i)) = Len(seq) - 1
           /\ \A j \in 1 .. Len(seq) - 1 :
                SwapRemove(seq, i)[j] = IF j = i THEN seq[Len(seq)] ELSE seq[j]
<1> DEFINE n == Len(seq)
           s == [seq EXCEPT ![i] = seq[n]]
<1>1. n \in Nat /\ n >= 1 /\ i \in 1 .. n /\ seq[n] \in T
  OBVIOUS
<1>2. s \in Seq(T) /\ Len(s) = n /\ \A j \in 1 .. n : s[j] = IF j = i THEN seq[n] ELSE seq[j]
  BY <1>1, ExceptSeq
<1>3. SwapRemove(seq, i) = SubSeq(s, 1, n - 1)
  BY <1>2 DEF SwapRemove, Front, Last
<1> HIDE DEF s, n
<1>4. /\ SubSeq(s, 1, n - 1) \in Seq(T)
      /\ Len(SubSeq(s, 1, n - 1)) = n - 1
      /\ \A j \in 1 .. n - 1 : SubSeq(s, 1, n - 1)[j] = s[j]
  BY <1>1, <1>2
<1>5. \A j \in 1 .. n - 1 : s[j] = IF j = i THEN seq[n] ELSE seq[j]
  BY <1>1, <1>2
<1> QED
  BY <1>3, <1>4, <1>5 DEF n

\* An entry past the ring let go: its version is the writer's to free, and the
\* last one moves to its place.
LEMMA OverflowFreePlaces ==
    ASSUME MapInv, NEW w \in Writers, OverflowFree(w)
    PROVE  /\ OnePlace' /\ overflow[op[w].at + 1] \in Versions
           /\ \A j \in DOMAIN overflow' : overflow'[j] # overflow[op[w].at + 1]
           /\ \A j \in 1 .. RING : ring[j] # overflow[op[w].at + 1]
<1> DEFINE i == op[w].at + 1
           n == Len(overflow)
           u == overflow[i]
<1>1. i \in 1 .. n /\ n \in Nat
  BY AtType DEF OverflowFree, MapInv, MapTypeOK
<1>2. overflow \in Seq(Versions) /\ DOMAIN overflow = 1 .. n /\ u \in Versions
  BY <1>1 DEF MapInv, MapTypeOK
<1>3. /\ freed' = [freed EXCEPT ![w] = freed[w] \cup {u}] /\ DOMAIN freed = Writers
  BY DEF OverflowFree, MapInv, MapTypeOK
<1>4. /\ maps' = maps /\ cell' = cell /\ ring' = ring /\ writer' = writer
      /\ dropped' = dropped /\ op' = op
  BY DEF OverflowFree
<1>5. overflow' = SwapRemove(overflow, i)
  BY DEF OverflowFree
<1>6. overflow[i] = u
  OBVIOUS
<1>a. n = Len(overflow)
  OBVIOUS
<1> HIDE DEF i, n, u
<1>7. /\ DOMAIN overflow' = 1 .. n - 1
      /\ \A j \in 1 .. n - 1 : overflow'[j] = IF j = i THEN overflow[n] ELSE overflow[j]
  <2>1. /\ overflow' \in Seq(Versions) /\ Len(overflow') = n - 1
        /\ \A j \in 1 .. n - 1 : overflow'[j] = IF j = i THEN overflow[n] ELSE overflow[j]
    BY <1>1, <1>2, <1>5, <1>a, SwapRemoved
  <2> QED
    BY <2>1
<1>8. PICK g : PlacesOf(u) = {g}
  BY <1>2 DEF MapInv, OnePlace
<1>9. g[1] = "overflow"
  <2>1. InOverflow(u) # {}
    BY <1>1, <1>2, <1>6, KindsHold
  <2> QED
    BY <1>8, <2>1, SoleKind
<1>10. /\ InCell(u) = {} /\ InNew(u) = {} /\ InRing(u) = {} /\ InDisplaced(u) = {}
       /\ InFreed(u) = {} /\ InGone(u) = {}
  BY <1>8, <1>9, SoleKind
<1>11. \A j \in DOMAIN overflow' : overflow'[j] # u
  <2>1. \A j \in 1 .. n : overflow[j] = u => j = i
    BY <1>1, <1>2, <1>6, <1>8, SoleSlot
  <2> QED
    BY <1>1, <1>7, <2>1
<1>12. \A j \in 1 .. RING : ring[j] # u
  BY <1>10, KindsHold
<1>13. ASSUME NEW v \in Versions
       PROVE  \E h : PlacesOf(v)' = {h}
  <2>1. /\ InCell(v)' = InCell(v) /\ InNew(v)' = InNew(v) /\ InRing(v)' = InRing(v)
        /\ InDisplaced(v)' = InDisplaced(v) /\ InGone(v)' = InGone(v)
    BY <1>4, KindsKept
  <2>2. CASE v = u
    <3>1. InOverflow(v)' = {}
      BY <1>11, <2>2 DEF InOverflow
    <3>2. \A x \in Writers : u \in freed'[x] <=> x = w
      <4>1. \A x \in Writers : u \notin freed[x]
        BY <1>10, KindsHold
      <4> QED
        BY <1>3, <4>1
    <3>3. InFreed(v)' = {<<"freed", w>>}
      BY <2>2, <3>2 DEF InFreed
    <3>4. PlacesOf(v)' = {<<"freed", w>>}
      BY <1>10, <2>1, <2>2, <3>1, <3>3, PlaceKinds
    <3> QED
      BY <3>4
  <2>3. CASE v # u
    <3>1. \A x \in Writers : v \in freed'[x] <=> v \in freed[x]
      BY <1>3, <2>3
    <3>2. InFreed(v)' = InFreed(v)
      BY <3>1 DEF InFreed
    <3>3. PICK h : PlacesOf(v) = {h}
      BY DEF MapInv, OnePlace
    <3>4. CASE overflow[n] = v
      <4>1. n \in DOMAIN overflow /\ n # i
        BY <1>1, <1>2, <1>6, <2>3, <3>4
      <4>2. \A j \in 1 .. n : overflow[j] = v => j = n
        BY <1>2, <3>3, <3>4, <4>1, SoleSlot
      <4>3. \A j \in 1 .. n - 1 : overflow'[j] = v <=> j = i
        BY <1>1, <1>6, <1>7, <2>3, <3>4, <4>2
      <4>4. i \in 1 .. n - 1
        BY <1>1, <4>1
      <4>5. InOverflow(v)' = {<<"overflow", i>>}
        BY <1>7, <4>3, <4>4 DEF InOverflow
      <4>6. InOverflow(v) # {}
        BY <3>4, <4>1, KindsHold
      <4>7. h[1] = "overflow"
        BY <3>3, <4>6, SoleKind
      <4>8. /\ InCell(v) = {} /\ InNew(v) = {} /\ InRing(v) = {} /\ InDisplaced(v) = {}
            /\ InFreed(v) = {} /\ InGone(v) = {}
        BY <3>3, <4>7, SoleKind
      <4>9. PlacesOf(v)' = {<<"overflow", i>>}
        BY <2>1, <3>2, <4>5, <4>8, PlaceKinds
      <4> QED
        BY <4>9
    <3>5. CASE overflow[n] # v
      <4>1. \A j \in 1 .. n - 1 : overflow'[j] = v <=> overflow[j] = v
        BY <1>1, <1>6, <1>7, <2>3, <3>5
      <4>2. {j \in DOMAIN overflow' : overflow'[j] = v} = {j \in DOMAIN overflow : overflow[j] = v}
        BY <1>1, <1>2, <1>7, <3>5, <4>1
      <4>3. InOverflow(v)' = InOverflow(v)
        BY <4>2 DEF InOverflow
      <4>4. PlacesOf(v)' = PlacesOf(v)
        BY <2>1, <3>2, <4>3, PlaceKinds
      <4> QED
        BY <3>3, <4>4
    <3> QED
      BY <3>4, <3>5
  <2> QED
    BY <2>2, <2>3
<1>14. Versions' = Versions
  BY <1>4 DEF Versions
<1>15. OnePlace'
  BY <1>13, <1>14 DEF OnePlace
<1> QED
  BY <1>2, <1>11, <1>12, <1>15 DEF i, u

\* The displaced version goes from the writer's hand to a slot or past the ring.
LEMMA ReleasePlaces ==
    ASSUME MapInv, NEW w \in Writers, Release(w)
    PROVE  /\ OnePlace' /\ op[w].displaced \in Versions
           /\ RetiredMaps' = RetiredMaps \cup {op[w].displaced}
           /\ ring' \in [1 .. RING -> Versions \cup {NoVersion}] /\ overflow' \in Seq(Versions)
<1> DEFINE u == op[w].displaced
<1>1. writer[w] \in Inside /\ writer[w] \in Sweeping
  BY DEF Release, Inside, Sweeping
<1>2. u \in Versions /\ u # NoVersion
  BY <1>1, AtType DEF MapInv, WritersOK
<1>3. \A x \in Writers : x # w => op[x].displaced = NoVersion /\ writer[x] # "store"
  BY <1>1, AloneInside DEF MapInv, Inside
<1>4. \A x \in Writers : op'[x].displaced = NoVersion
  <2>1. PICK R : op \in [Writers -> [removed : R, displaced : Versions \cup {NoVersion}, at : Nat]]
    BY DEF MapInv, WritersOK
  <2>2. op' = [op EXCEPT ![w] = [removed |-> 0, displaced |-> NoVersion, at |-> 0]]
    BY DEF Release
  <2>3. op'[w] = [removed |-> 0, displaced |-> NoVersion, at |-> 0]
    BY <2>1, <2>2
  <2>4. \A x \in Writers : x # w => op'[x] = op[x]
    BY <2>1, <2>2
  <2> QED
    BY <1>3, <2>3, <2>4
<1>5. \A x \in Writers : writer'[x] # "store" /\ writer[x] # "store"
  BY <1>3 DEF Release, MapInv, MapTypeOK
<1>6. maps' = maps /\ cell' = cell /\ freed' = freed /\ dropped' = dropped
  BY DEF Release
<1>7. Placed(u)
  BY DEF Release
<1>8. /\ ring \in [1 .. RING -> Versions \cup {NoVersion}]
      /\ overflow \in Seq(Versions) /\ Len(overflow) \in Nat /\ DOMAIN overflow = 1 .. Len(overflow)
  BY DEF MapInv, MapTypeOK
<1>a. op[w].displaced = u
  OBVIOUS
<1> HIDE DEF u
<1>9. PICK g : PlacesOf(u) = {g}
  BY <1>2 DEF MapInv, OnePlace
<1>10. /\ InCell(u) = {} /\ InNew(u) = {} /\ InRing(u) = {} /\ InOverflow(u) = {}
       /\ InFreed(u) = {} /\ InGone(u) = {}
  <2>1. InDisplaced(u) # {}
    BY <1>a, KindsHold
  <2>2. g[1] = "displaced"
    BY <1>9, <2>1, SoleKind
  <2> QED
    BY <1>9, <2>2, SoleKind
<1>11. /\ \A j \in 1 .. RING : ring[j] # u
       /\ \A j \in 1 .. Len(overflow) : overflow[j] # u
  BY <1>8, <1>10, KindsHold
<1>12. ASSUME NEW v \in Versions
       PROVE  /\ InCell(v)' = InCell(v) /\ InNew(v)' = InNew(v) /\ InFreed(v)' = InFreed(v)
              /\ InGone(v)' = InGone(v) /\ InDisplaced(v)' = {}
              /\ v # u => InDisplaced(v) = {}
  <2>1. v # NoVersion
    BY DEF Versions, NoVersion, MapInv, MapTypeOK
  <2>2. InCell(v)' = InCell(v) /\ InFreed(v)' = InFreed(v) /\ InGone(v)' = InGone(v)
    BY <1>6, KindsKept
  <2>3. InNew(v)' = {} /\ InNew(v) = {}
    BY <1>5 DEF InNew
  <2>4. InDisplaced(v)' = {}
    BY <1>4, <2>1 DEF InDisplaced
  <2>5. v # u => \A x \in Writers : op[x].displaced # v
    BY <1>3, <1>a, <2>1
  <2>6. v # u => InDisplaced(v) = {}
    BY <2>5, KindsEmpty
  <2> QED
    BY <2>2, <2>3, <2>4, <2>6
<1>13. Versions' = Versions
  BY <1>6 DEF Versions
<1>14. CASE FreeSlots = {}
  <2>1. overflow' = Append(overflow, u) /\ ring' = ring
    BY <1>7, <1>14 DEF Placed
  <2> DEFINE n == Len(overflow)
  <2>2. /\ overflow' \in Seq(Versions) /\ DOMAIN overflow' = 1 .. n + 1
        /\ \A j \in 1 .. n : overflow'[j] = overflow[j]
        /\ overflow'[n + 1] = u
    <3>1. /\ overflow' \in Seq(Versions) /\ Len(overflow') = n + 1
          /\ \A j \in 1 .. n : overflow'[j] = overflow[j]
          /\ overflow'[n + 1] = u
      BY <1>2, <1>8, <2>1, AppendProperties
    <3> QED
      BY <3>1
  <2>a. n \in Nat /\ DOMAIN overflow = 1 .. n
    BY <1>8
  <2>b. \A j \in 1 .. n : overflow[j] # u
    BY <1>11
  <2> HIDE DEF n
  <2>3. ASSUME NEW v \in Versions
        PROVE  \E h : PlacesOf(v)' = {h}
    <3>1. InRing(v)' = InRing(v)
      BY <2>1, KindsKept
    <3>2. CASE v = u
      <4>1. \A j \in 1 .. n + 1 : overflow'[j] = v <=> j = n + 1
        BY <2>2, <2>a, <2>b, <3>2
      <4>2. n + 1 \in 1 .. n + 1
        BY <2>a
      <4>3. InOverflow(v)' = {<<"overflow", n + 1>>}
        BY <2>2, <4>1, <4>2 DEF InOverflow
      <4>4. PlacesOf(v)' = {<<"overflow", n + 1>>}
        BY <1>10, <1>12, <3>1, <3>2, <4>3, PlaceKinds
      <4> QED
        BY <4>4
    <3>3. CASE v # u
      <4>1. {j \in DOMAIN overflow' : overflow'[j] = v} = {j \in DOMAIN overflow : overflow[j] = v}
        BY <2>2, <2>a, <3>3
      <4>2. InOverflow(v)' = InOverflow(v)
        BY <4>1 DEF InOverflow
      <4>3. PlacesOf(v)' = PlacesOf(v)
        BY <1>12, <3>1, <3>3, <4>2, PlaceKinds
      <4> QED
        BY <4>3 DEF MapInv, OnePlace
    <3> QED
      BY <3>2, <3>3
  <2>4. OnePlace'
    BY <1>13, <2>3 DEF OnePlace
  <2>5. Range(overflow') = Range(overflow) \cup {u}
    BY <2>2, <2>a DEF Range
  <2>6. RetiredMaps' = RetiredMaps \cup {u}
    BY <2>1, <2>5 DEF RetiredMaps
  <2> QED
    BY <1>2, <1>8, <2>1, <2>2, <2>4, <2>6 DEF u
<1>15. CASE FreeSlots # {}
  <2> DEFINE i == CHOOSE i \in FreeSlots : \A j \in FreeSlots : i <= j
  <2>1. FreeSlots \subseteq Nat
    BY ListBounds DEF FreeSlots
  <2>2. \E m \in FreeSlots : \A j \in FreeSlots : m <= j
    BY <1>15, <2>1, LeastOne
  <2>3. i \in FreeSlots
    BY <2>2
  <2>4. ring' = [ring EXCEPT ![i] = u] /\ overflow' = overflow
    BY <1>7, <1>15 DEF Placed
  <2> HIDE DEF i
  <2>5. i \in 1 .. RING /\ ring[i] = NoVersion
    BY <2>3 DEF FreeSlots
  <2>6. \A j \in 1 .. RING : ring'[j] = IF j = i THEN u ELSE ring[j]
    BY <1>8, <2>4, <2>5
  <2>7. ASSUME NEW v \in Versions
        PROVE  \E h : PlacesOf(v)' = {h}
    <3>1. InOverflow(v)' = InOverflow(v)
      BY <2>4, KindsKept
    <3>2. CASE v = u
      <4>1. \A j \in 1 .. RING : ring'[j] = v <=> j = i
        BY <1>11, <2>6, <3>2
      <4>2. InRing(v)' = {<<"ring", i>>}
        BY <2>5, <4>1 DEF InRing
      <4>3. PlacesOf(v)' = {<<"ring", i>>}
        BY <1>10, <1>12, <3>1, <3>2, <4>2, PlaceKinds
      <4> QED
        BY <4>3
    <3>3. CASE v # u
      <4>1. v # NoVersion
        BY DEF Versions, NoVersion, MapInv, MapTypeOK
      <4>2. \A j \in 1 .. RING : ring'[j] = v <=> ring[j] = v
        BY <2>5, <2>6, <3>3, <4>1
      <4>3. InRing(v)' = InRing(v)
        BY <4>2 DEF InRing
      <4>4. PlacesOf(v)' = PlacesOf(v)
        BY <1>12, <3>1, <3>3, <4>3, PlaceKinds
      <4> QED
        BY <4>4 DEF MapInv, OnePlace
    <3> QED
      BY <3>2, <3>3
  <2>8. OnePlace'
    BY <1>13, <2>7 DEF OnePlace
  <2>9. ring' \in [1 .. RING -> Versions \cup {NoVersion}]
    BY <1>2, <1>8, <2>4, <2>5
  <2>10. Range(ring') \ {NoVersion} = (Range(ring) \ {NoVersion}) \cup {u}
    BY <1>2, <1>8, <2>5, <2>6, <2>9 DEF Range
  <2>11. RetiredMaps' = RetiredMaps \cup {u}
    BY <2>4, <2>10 DEF RetiredMaps
  <2> QED
    BY <1>2, <1>8, <2>4, <2>8, <2>9, <2>11 DEF u
<1> QED
  BY <1>14, <1>15

\* The versions a writer drops are gone, and the others stay.
LEMMA DropPlaces ==
    ASSUME MapInv, NEW w \in Writers, DropFreed(w)
    PROVE  OnePlace'
<1>1. /\ dropped' = dropped \cup freed[w]
      /\ freed' = [freed EXCEPT ![w] = {}] /\ DOMAIN freed = Writers
      /\ writer' = [writer EXCEPT ![w] = "idle"] /\ DOMAIN writer = Writers
      /\ writer[w] = "drop"
      /\ maps' = maps /\ cell' = cell /\ ring' = ring /\ overflow' = overflow /\ op' = op
  BY DEF DropFreed, MapInv, MapTypeOK
<1>2. Versions' = Versions
  BY <1>1 DEF Versions
<1> SUFFICES ASSUME NEW v \in Versions PROVE \E h : PlacesOf(v)' = {h}
  BY <1>2 DEF OnePlace
<1>3. /\ InCell(v)' = InCell(v) /\ InRing(v)' = InRing(v) /\ InOverflow(v)' = InOverflow(v)
      /\ InDisplaced(v)' = InDisplaced(v)
  BY <1>1, KindsKept
<1>4. InNew(v)' = InNew(v)
  <2>1. \A x \in Writers : writer'[x] = "store" <=> writer[x] = "store"
    BY <1>1
  <2> QED
    BY <1>1, <2>1 DEF InNew
<1>5. PICK h : PlacesOf(v) = {h}
  BY DEF MapInv, OnePlace
<1>6. CASE v \in freed[w]
  <2>1. InFreed(v) # {}
    BY <1>6, KindsHold
  <2>2. h[1] = "freed"
    BY <1>5, <2>1, SoleKind
  <2>3. /\ InCell(v) = {} /\ InNew(v) = {} /\ InRing(v) = {} /\ InOverflow(v) = {}
        /\ InDisplaced(v) = {}
    BY <1>5, <2>2, SoleKind
  <2>4. \A x \in Writers : v \notin freed'[x]
    <3>1. \A x \in Writers : v \in freed[x] => x = w
      BY <1>5, <1>6, SoleSlot
    <3> QED
      BY <1>1, <3>1
  <2>5. InFreed(v)' = {}
    BY <2>4 DEF InFreed
  <2>6. InGone(v)' = {<<"dropped", 0>>}
    BY <1>1, <1>6 DEF InGone
  <2>7. PlacesOf(v)' = {<<"dropped", 0>>}
    BY <1>3, <1>4, <2>3, <2>5, <2>6, PlaceKinds
  <2> QED
    BY <2>7
<1>7. CASE v \notin freed[w]
  <2>1. \A x \in Writers : v \in freed'[x] <=> v \in freed[x]
    BY <1>1, <1>7
  <2>2. InFreed(v)' = InFreed(v)
    BY <2>1 DEF InFreed
  <2>3. InGone(v)' = InGone(v)
    BY <1>1, <1>7 DEF InGone
  <2>4. PlacesOf(v)' = PlacesOf(v)
    BY <1>3, <1>4, <2>2, <2>3, PlaceKinds
  <2> QED
    BY <1>5, <2>4
<1> QED
  BY <1>6, <1>7

-----------------------------------------------------------------------------
(* How many versions are kept.                                             *)

\* A sweep's turn: at most one more version is kept, and then one more reader
\* is past.
LEMMA KeepCount ==
    ASSUME NEW K, IsFiniteSet(K), NEW P1, IsFiniteSet(P1), NEW P, P \subseteq P1, NEW u,
           NEW K1, K1 \subseteq K \cup {u}, u \in K1 /\ u \notin K => \E r \in P1 : r \notin P,
           Cardinality(K) <= Cardinality(P)
    PROVE  Cardinality(K1) <= Cardinality(P1)
<1>1. IsFiniteSet(P) /\ Cardinality(P) <= Cardinality(P1)
  BY FS_Subset
<1>2. /\ Cardinality(P) \in Nat /\ Cardinality(P1) \in Nat /\ Cardinality(K) \in Nat
  BY <1>1, FS_CardinalityType
<1>3. CASE u \in K1 /\ u \notin K
  <2>1. PICK r \in P1 : r \notin P
    BY <1>3
  <2>2. IsFiniteSet(P \cup {r}) /\ Cardinality(P \cup {r}) = Cardinality(P) + 1
    BY <1>1, <2>1, FS_AddElement
  <2>3. Cardinality(P \cup {r}) <= Cardinality(P1)
    BY <2>1, FS_Subset
  <2>4. IsFiniteSet(K \cup {u}) /\ Cardinality(K \cup {u}) = Cardinality(K) + 1
    BY <1>3, FS_AddElement
  <2>5. IsFiniteSet(K1) /\ Cardinality(K1) <= Cardinality(K \cup {u})
    BY <2>4, FS_Subset
  <2>6. Cardinality(K1) \in Nat
    BY <2>5, FS_CardinalityType
  <2> QED
    BY <1>2, <2>2, <2>3, <2>4, <2>5, <2>6
<1>4. CASE ~(u \in K1 /\ u \notin K)
  <2>1. K1 \subseteq K
    BY <1>4
  <2>2. IsFiniteSet(K1) /\ Cardinality(K1) <= Cardinality(K)
    BY <2>1, FS_Subset
  <2>3. Cardinality(K1) \in Nat
    BY <2>2, FS_CardinalityType
  <2> QED
    BY <1>1, <1>2, <2>2, <2>3
<1> QED
  BY <1>3, <1>4

\* What is kept is a finite set of versions.
LEMMA RetiredType ==
    ASSUME MapInv
    PROVE  RetiredMaps \subseteq Versions /\ IsFiniteSet(RetiredMaps) /\ NoVersion \notin RetiredMaps
<1>1. RetiredMaps \subseteq Versions
  BY DEF RetiredMaps, Range, MapInv, MapTypeOK
<1>2. IsFiniteSet(Versions)
  <2>1. Len(maps) - 1 \in Int
    BY DEF MapInv, MapTypeOK
  <2> QED
    BY <2>1, FS_Interval DEF Versions
<1>3. NoVersion \notin Versions
  BY DEF Versions, NoVersion, MapInv, MapTypeOK
<1> QED
  BY <1>1, <1>2, <1>3, FS_Subset

\* What is unchecked is kept.
LEMMA UncheckedKept ==
    ASSUME MapInv, NEW w \in Writers
    PROVE  Unchecked(w) \subseteq RetiredMaps
<1>1. DOMAIN ring = 1 .. RING /\ DOMAIN overflow = 1 .. Len(overflow) /\ Len(overflow) \in Nat
  BY DEF MapInv, MapTypeOK
<1>2. op[w].at \in Nat
  BY AtType
<1>3. CASE writer[w] = "ring"
  BY <1>1, <1>2, <1>3, ListBounds DEF Unchecked, RetiredMaps, Range
<1>4. CASE writer[w] = "overflow"
  BY <1>1, <1>2, <1>4 DEF Unchecked, RetiredMaps, Range
<1>5. CASE writer[w] # "ring" /\ writer[w] # "overflow"
  BY <1>5 DEF Unchecked
<1> QED
  BY <1>3, <1>4, <1>5

\* A turn of the sweep keeps the count, when what is newly kept was unchecked
\* and is held.
LEMMA TurnCount ==
    ASSUME MapInv, NEW w \in Writers, writer[w] \in Sweeping, NEW u, guard' = guard,
           Unchecked(w)' \subseteq Unchecked(w),
           RetiredMaps' \ Unchecked(w)' \subseteq (RetiredMaps \ Unchecked(w)) \cup {u},
           u \in RetiredMaps' /\ u \notin Unchecked(w)' /\ ~(u \in RetiredMaps /\ u \notin Unchecked(w))
             => u \in Unchecked(w) /\ \E r \in Readers : guard[r] = u
    PROVE  Cardinality(RetiredMaps \ Unchecked(w))' <= Cardinality(Past(w))'
<1> DEFINE K == RetiredMaps \ Unchecked(w)
           P == Past(w)
           K1 == RetiredMaps' \ Unchecked(w)'
           P1 == Past(w)'
<1>1. IsFiniteSet(K)
  <2>1. K \subseteq RetiredMaps /\ IsFiniteSet(RetiredMaps)
    BY RetiredType
  <2> QED
    BY <2>1, FS_Subset
<1>2. Cardinality(K) <= Cardinality(P)
  BY DEF MapInv, SweepOK
<1>3. K1 \subseteq K \cup {u}
  OBVIOUS
<1>4. P \subseteq P1 /\ P1 \subseteq Readers
  BY DEF Past
<1>5. u \in K1 /\ u \notin K => \E r \in P1 : r \notin P
  BY DEF Past
<1>6. IsFiniteSet(P1)
  BY <1>4, ListBounds, FS_Subset
<1> HIDE DEF K, P, K1, P1
<1>7. Cardinality(K1) <= Cardinality(P1)
  BY <1>1, <1>2, <1>3, <1>4, <1>5, <1>6, KeepCount
<1> QED
  BY <1>7 DEF K1, P1

-----------------------------------------------------------------------------
(* The inductive invariant, step by step.                                  *)

\* A step of one writer leaves the others where they are.
LEMMA OthersStay ==
    ASSUME MapInv, NEW w \in Writers, NEW s \in {"idle", "store", "ring", "overflow", "place", "drop"},
           writer' = [writer EXCEPT ![w] = s]
    PROVE  /\ writer'[w] = s /\ \A x \in Writers : x # w => writer'[x] = writer[x]
           /\ writer' \in [Writers -> {"idle", "store", "ring", "overflow", "place", "drop"}]
BY DEF MapInv, MapTypeOK

\* A publish keeps the invariant.
LEMMA PublishKeeps ==
    ASSUME MapInv, NEW w \in Writers, PublishStep(w)
    PROVE  MapInv'
<1>1. /\ Len(maps) \in Nat \ {0} /\ Len(maps') = Len(maps) + 1 /\ Versions \subseteq Versions'
      /\ Len(maps) \notin Versions /\ \E S : maps' \in Seq(S)
  BY NewVersion
<1>2. OnePlace'
  BY PublishPlaces
<1>3. /\ cell' = cell /\ ring' = ring /\ overflow' = overflow /\ freed' = freed
      /\ dropped' = dropped /\ guard' = guard /\ holder' = w
      /\ writer' = [writer EXCEPT ![w] = "store"]
  BY DEF PublishStep
<1>4. \A x \in Writers : /\ writer[x] \notin Inside /\ writer[x] \notin Sweeping
                         /\ writer[x] # "store" /\ op[x].displaced = NoVersion
  BY NobodyInside DEF MapInv, PublishStep
<1>5. /\ writer'[w] = "store" /\ \A x \in Writers : x # w => writer'[x] = writer[x]
      /\ writer' \in [Writers -> {"idle", "store", "ring", "overflow", "place", "drop"}]
  BY <1>3, OthersStay
<1>6. MapTypeOK'
  <2>1. /\ cell \in Versions /\ ring \in [1 .. RING -> Versions \cup {NoVersion}]
        /\ overflow \in Seq(Versions) /\ freed \in [Writers -> SUBSET Versions]
        /\ dropped \subseteq Versions /\ guard \in [Readers -> Versions \cup {NoVersion}]
    BY DEF MapInv, MapTypeOK
  <2> DEFINE V == Versions
             V1 == Versions'
  <2>2. V \subseteq V1
    BY <1>1
  <2> HIDE DEF V, V1
  <2>3. /\ cell \in V1 /\ ring \in [1 .. RING -> V1 \cup {NoVersion}]
        /\ freed \in [Writers -> SUBSET V1]
        /\ dropped \subseteq V1 /\ guard \in [Readers -> V1 \cup {NoVersion}]
    BY <2>1, <2>2 DEF V
  <2>4. overflow \in Seq(V1)
    BY <2>1, <2>2 DEF V
  <2>5. Len(maps') \in Nat \ {0}
    BY <1>1
  <2> QED
    BY <1>3, <1>5, <2>3, <2>4, <2>5 DEF MapTypeOK, V1
<1>7. WritersOK'
  <2>1. PICK R : op \in [Writers -> [removed : R, displaced : Versions \cup {NoVersion}, at : Nat]]
    BY DEF MapInv, WritersOK
  <2>2. PICK m : op' = [op EXCEPT ![w] = [removed |-> m, displaced |-> NoVersion, at |-> 0]]
    BY DEF PublishStep
  <2> DEFINE D == Versions \cup {NoVersion}
             D1 == Versions' \cup {NoVersion}
             Q == R \cup {m}
  <2>3. D \subseteq D1 /\ NoVersion \in D1 /\ R \subseteq Q /\ m \in Q
    BY <1>1
  <2>4. op \in [Writers -> [removed : R, displaced : D, at : Nat]]
    BY <2>1
  <2> HIDE DEF D, D1, Q
  <2>5. op \in [Writers -> [removed : Q, displaced : D1, at : Nat]]
    BY <2>3, <2>4
  <2>6. op' \in [Writers -> [removed : Q, displaced : D1, at : Nat]]
    BY <2>2, <2>3, <2>5
  <2>7. op'[w] = [removed |-> m, displaced |-> NoVersion, at |-> 0]
    BY <2>2, <2>4
  <2>8. \A x \in Writers : x # w => op'[x] = op[x]
    BY <2>2, <2>4
  <2>9. "store" \in Inside /\ "store" \notin Sweeping
    BY DEF Inside, Sweeping
  <2>10. ASSUME NEW x \in Writers
         PROVE  /\ holder' = x <=> writer'[x] \in Inside
                /\ op'[x].displaced # NoVersion <=> writer'[x] \in Sweeping
                /\ writer'[x] = "store" => op'[x].at = 0
    <3>1. CASE x = w
      BY <1>3, <1>5, <2>7, <2>9, <3>1
    <3>2. CASE x # w
      BY <1>3, <1>4, <1>5, <2>8, <3>2
    <3> QED
      BY <3>1, <3>2
  <2>11. \E Z : op' \in [Writers -> [removed : Z, displaced : Versions' \cup {NoVersion}, at : Nat]]
    BY <2>6 DEF D1
  <2> QED
    BY <2>10, <2>11 DEF WritersOK, Inside, Sweeping
<1>8. GuardsOK'
  <2>1. \A r \in Readers : guard[r] # NoVersion => guard[r] # Len(maps') - 1
    BY <1>1 DEF MapInv, MapTypeOK
  <2> QED
    BY <1>3, <2>1 DEF MapInv, GuardsOK
<1>9. SweepOK'
  <2>1. \A x \in Writers : writer'[x] \notin Sweeping
    BY <1>4, <1>5 DEF Sweeping
  <2> QED
    BY <2>1 DEF SweepOK, Sweeping
<1>10. RetiredBounded'
  BY <1>3 DEF MapInv, RetiredBounded, RetiredMaps
<1> QED
  BY <1>1, <1>2, <1>6, <1>7, <1>8, <1>9, <1>10 DEF MapInv

\* The swap keeps the invariant: every kept version is still to be looked at.
LEMMA SwapKeeps ==
    ASSUME MapInv, NEW w \in Writers, Swap(w)
    PROVE  MapInv'
<1>1. OnePlace'
  BY SwapPlaces
<1>2. /\ ring' = ring /\ overflow' = overflow /\ maps' = maps /\ holder' = holder /\ guard' = guard
      /\ freed' = freed /\ dropped' = dropped /\ cell' = Len(maps) - 1 /\ writer[w] = "store"
      /\ writer' = [writer EXCEPT ![w] = "ring"] /\ op' = [op EXCEPT ![w].displaced = cell]
  BY DEF Swap
<1>3. Versions' = Versions /\ Len(maps) \in Nat \ {0} /\ cell \in Versions
  BY <1>2 DEF Versions, MapInv, MapTypeOK
<1>4. /\ writer'[w] = "ring" /\ \A x \in Writers : x # w => writer'[x] = writer[x]
      /\ writer' \in [Writers -> {"idle", "store", "ring", "overflow", "place", "drop"}]
  BY <1>2, OthersStay
<1>5. MapTypeOK'
  <2>1. cell' \in Versions
    BY <1>2, <1>3 DEF Versions
  <2> QED
    BY <1>2, <1>3, <1>4, <2>1 DEF MapInv, MapTypeOK
<1>6. writer[w] \in Inside /\ op[w].at = 0
  BY <1>2 DEF Inside, MapInv, WritersOK
<1>7. \A x \in Writers : x # w => writer[x] \notin Inside /\ op[x].displaced = NoVersion
  BY <1>6, AloneInside DEF MapInv
<1>8. /\ op'[w].at = 0 /\ op'[w].displaced = cell
      /\ \A x \in Writers : x # w => op'[x] = op[x]
      /\ \E R : op' \in [Writers -> [removed : R, displaced : Versions \cup {NoVersion}, at : Nat]]
  <2>1. PICK R : op \in [Writers -> [removed : R, displaced : Versions \cup {NoVersion}, at : Nat]]
    BY DEF MapInv, WritersOK
  <2> DEFINE D == Versions \cup {NoVersion}
  <2>2. op \in [Writers -> [removed : R, displaced : D, at : Nat]] /\ cell \in D
    BY <1>3, <2>1
  <2> HIDE DEF D
  <2>3. op' \in [Writers -> [removed : R, displaced : D, at : Nat]]
    BY <1>2, <2>2
  <2>4. op'[w].at = 0 /\ op'[w].displaced = cell
    BY <1>2, <1>6, <2>2
  <2>5. \A x \in Writers : x # w => op'[x] = op[x]
    BY <1>2, <2>2
  <2> QED
    BY <2>3, <2>4, <2>5 DEF D
<1>9. WritersOK'
  <2>1. "ring" \in Inside /\ "ring" \in Sweeping /\ "ring" # "store"
    BY DEF Inside, Sweeping
  <2>2. cell # NoVersion
    BY <1>3 DEF Versions, NoVersion
  <2>3. holder = w
    BY <1>6 DEF MapInv, WritersOK
  <2>4. ASSUME NEW x \in Writers
        PROVE  /\ holder' = x <=> writer'[x] \in Inside
               /\ op'[x].displaced # NoVersion <=> writer'[x] \in Sweeping
               /\ writer'[x] = "store" => op'[x].at = 0
    <3>1. CASE x = w
      BY <1>2, <1>4, <1>8, <2>1, <2>2, <2>3, <3>1
    <3>2. CASE x # w
      BY <1>2, <1>4, <1>8, <3>2 DEF MapInv, WritersOK
    <3> QED
      BY <3>1, <3>2
  <2> QED
    BY <1>3, <1>8, <2>4 DEF WritersOK, Inside, Sweeping
<1>10. GuardsOK'
  <2>1. \A x \in Writers : writer'[x] # "store"
    BY <1>4, <1>7 DEF Inside
  <2> QED
    BY <1>2, <2>1 DEF MapInv, GuardsOK
<1>11. SweepOK'
  <2>1. RetiredMaps' = RetiredMaps
    BY <1>2 DEF RetiredMaps
  <2>2. RetiredMaps' \ Unchecked(w)' = {}
    <3>1. Unchecked(w)' = ({ring[j] : j \in 1 .. RING} \ {NoVersion}) \cup Range(overflow)
      BY <1>2, <1>4, <1>8 DEF Unchecked
    <3>2. DOMAIN ring = 1 .. RING
      BY DEF MapInv, MapTypeOK
    <3> QED
      BY <2>1, <3>1, <3>2 DEF RetiredMaps, Range
  <2>3. Cardinality(RetiredMaps' \ Unchecked(w)') = 0
    BY <2>2, FS_EmptySet
  <2>4. Past(w)' \subseteq Readers
    BY DEF Past
  <2>5. Cardinality(Past(w)') \in Nat
    BY <2>4, ListBounds, FS_Subset, FS_CardinalityType
  <2>6. Cardinality(RetiredMaps' \ Unchecked(w)') <= Cardinality(Past(w)')
    BY <2>3, <2>5
  <2>7. \A x \in Writers : x # w => writer'[x] \notin Sweeping
    BY <1>4, <1>7 DEF Inside, Sweeping
  <2> QED
    BY <2>6, <2>7 DEF SweepOK, Sweeping
<1>12. RetiredBounded'
  BY <1>2 DEF MapInv, RetiredBounded, RetiredMaps
<1>13. \E S : maps' \in Seq(S)
  BY <1>2 DEF MapInv
<1> QED
  BY <1>1, <1>5, <1>9, <1>10, <1>11, <1>12, <1>13 DEF MapInv

\* A turn of the sweep keeps the invariant when every version keeps a place,
\* what it frees is unheld, and the count of the kept is right.
LEMMA TurnKeeps ==
    ASSUME MapInv, NEW w \in Writers, writer[w] \in Sweeping, writer'[w] \in Sweeping,
           writer' \in [Writers -> {"idle", "store", "ring", "overflow", "place", "drop"}],
           \A x \in Writers : x # w => writer'[x] = writer[x] /\ op'[x] = op[x],
           \A x \in Writers : op'[x].displaced = op[x].displaced,
           \E R : op' \in [Writers -> [removed : R, displaced : Versions \cup {NoVersion}, at : Nat]],
           UNCHANGED <<maps, cell, holder, dropped, guard>>,
           ring' \in [1 .. RING -> Versions \cup {NoVersion}], overflow' \in Seq(Versions),
           freed' \in [Writers -> SUBSET Versions], RetiredMaps' \subseteq RetiredMaps,
           \A x \in Writers : \A v \in freed'[x] : v \in freed[x] \/ Unheld(v),
           OnePlace', Cardinality(RetiredMaps \ Unchecked(w))' <= Cardinality(Past(w))'
    PROVE  MapInv'
<1>1. Versions' = Versions
  BY DEF Versions
<1>2. MapTypeOK'
  BY <1>1 DEF MapInv, MapTypeOK
<1>3. writer[w] \in Inside /\ writer'[w] \in Inside /\ writer'[w] # "store" /\ writer[w] # "store"
  BY DEF Inside, Sweeping
<1>4. \A x \in Writers : x # w => writer[x] \notin Inside /\ op[x].displaced = NoVersion
  BY <1>3, AloneInside DEF MapInv
<1>5. WritersOK'
  <2>1. ASSUME NEW x \in Writers
        PROVE  /\ holder' = x <=> writer'[x] \in Inside
               /\ op'[x].displaced # NoVersion <=> writer'[x] \in Sweeping
               /\ writer'[x] = "store" => op'[x].at = 0
    <3>1. CASE x = w
      BY <1>3, <3>1 DEF MapInv, WritersOK
    <3>2. CASE x # w
      BY <3>2 DEF MapInv, WritersOK
    <3> QED
      BY <3>1, <3>2
  <2> QED
    BY <1>1, <2>1 DEF WritersOK, Inside, Sweeping
<1>6. GuardsOK'
  <2>1. \A x \in Writers : writer'[x] # "store"
    BY <1>3, <1>4 DEF Inside
  <2>2. \A r \in Readers : guard[r] # NoVersion => \A x \in Writers : guard[r] \notin freed'[x]
    BY DEF MapInv, GuardsOK, Unheld
  <2>3. \A r \in Readers : guard[r] # NoVersion => guard[r] \notin dropped
    BY DEF MapInv, GuardsOK
  <2> QED
    BY <2>1, <2>2, <2>3 DEF GuardsOK
<1>7. SweepOK'
  <2>1. \A x \in Writers : x # w => writer'[x] \notin Sweeping
    BY <1>4 DEF Inside, Sweeping
  <2> QED
    BY <2>1 DEF SweepOK, Sweeping
<1>8. RetiredBounded'
  <2>1. IsFiniteSet(RetiredMaps)
    BY RetiredType
  <2>2. IsFiniteSet(RetiredMaps') /\ Cardinality(RetiredMaps') <= Cardinality(RetiredMaps)
    BY <2>1, FS_Subset
  <2>3. /\ Cardinality(RetiredMaps) \in Nat /\ Cardinality(RetiredMaps') \in Nat
        /\ Cardinality(Readers) \in Nat
    BY <2>1, <2>2, ListBounds, FS_CardinalityType
  <2>4. Cardinality(RetiredMaps) <= Cardinality(Readers) + 1
    BY DEF MapInv, RetiredBounded
  <2>5. Cardinality(RetiredMaps') <= Cardinality(Readers) + 1
    BY <2>2, <2>3, <2>4
  <2> QED
    BY <2>5 DEF RetiredBounded
<1>9. \E S : maps' \in Seq(S)
  BY DEF MapInv
<1> QED
  BY <1>2, <1>5, <1>6, <1>7, <1>8, <1>9 DEF MapInv

\* The ring is done: what is left to look at is past it.
LEMMA RingDoneKeeps ==
    ASSUME MapInv, NEW w \in Writers, RingDone(w)
    PROVE  MapInv'
<1>1. /\ writer[w] = "ring" /\ op[w].at + 1 > RING /\ maps' = maps /\ cell' = cell /\ ring' = ring
      /\ overflow' = overflow /\ holder' = holder /\ freed' = freed /\ dropped' = dropped
      /\ guard' = guard /\ writer' = [writer EXCEPT ![w] = "overflow"]
      /\ op' = [op EXCEPT ![w].at = 0]
  BY DEF RingDone
<1>2. /\ writer'[w] = "overflow" /\ \A x \in Writers : x # w => writer'[x] = writer[x]
      /\ writer' \in [Writers -> {"idle", "store", "ring", "overflow", "place", "drop"}]
  BY <1>1, OthersStay
<1>3. /\ op'[w].at = 0 /\ \A x \in Writers : op'[x].displaced = op[x].displaced
      /\ \A x \in Writers : x # w => op'[x] = op[x]
      /\ \E R : op' \in [Writers -> [removed : R, displaced : Versions \cup {NoVersion}, at : Nat]]
  BY <1>1, AtMoves
<1>4. writer[w] \in Sweeping /\ writer'[w] \in Sweeping
  BY <1>1, <1>2 DEF Sweeping
<1>5. \A x \in Writers : writer'[x] = "store" <=> writer[x] = "store"
  BY <1>1, <1>2
<1>6. OnePlace'
  BY <1>1, <1>3, <1>5, SamePlaces
<1>7. RetiredMaps' = RetiredMaps
  BY <1>1 DEF RetiredMaps
<1>8. Unchecked(w)' = Unchecked(w)
  <2>1. op[w].at + 1 .. RING = {}
    BY <1>1, AtType, ListBounds
  <2>2. Unchecked(w) = Range(overflow)
    BY <1>1, <2>1 DEF Unchecked
  <2>3. Unchecked(w)' = {overflow[j] : j \in 1 .. Len(overflow)}
    BY <1>1, <1>2, <1>3 DEF Unchecked
  <2>4. DOMAIN overflow = 1 .. Len(overflow)
    BY DEF MapInv, MapTypeOK
  <2> QED
    BY <2>2, <2>3, <2>4 DEF Range
<1>9. Cardinality(RetiredMaps \ Unchecked(w))' <= Cardinality(Past(w))'
  <2>1. Past(w)' = Past(w)
    BY <1>1, <1>8 DEF Past
  <2> QED
    BY <1>4, <1>7, <1>8, <2>1 DEF MapInv, SweepOK
<1>10. /\ ring' \in [1 .. RING -> Versions \cup {NoVersion}] /\ overflow' \in Seq(Versions)
       /\ freed' \in [Writers -> SUBSET Versions]
  BY <1>1 DEF MapInv, MapTypeOK
<1> QED
  BY <1>1, <1>2, <1>3, <1>4, <1>6, <1>7, <1>9, <1>10, TurnKeeps

\* A slot that is empty or held stays.
LEMMA RingKeepKeeps ==
    ASSUME MapInv, NEW w \in Writers, RingKeep(w)
    PROVE  MapInv'
<1> DEFINE i == op[w].at + 1
           u == ring[i]
<1>1. /\ writer[w] = "ring" /\ i <= RING /\ maps' = maps /\ cell' = cell /\ ring' = ring
      /\ overflow' = overflow /\ holder' = holder /\ freed' = freed /\ dropped' = dropped
      /\ guard' = guard /\ writer' = writer /\ op' = [op EXCEPT ![w].at = i]
      /\ u = NoVersion \/ ~Unheld(u)
  BY DEF RingKeep
<1>2. op[w].at \in Nat /\ i \in Nat /\ i \in 1 .. RING
  BY <1>1, AtType, ListBounds
<1>a. i = op[w].at + 1 /\ u = ring[i]
  OBVIOUS
<1> HIDE DEF i, u
<1>3. /\ op'[w].at = i /\ \A x \in Writers : op'[x].displaced = op[x].displaced
      /\ \A x \in Writers : x # w => op'[x] = op[x]
      /\ \E R : op' \in [Writers -> [removed : R, displaced : Versions \cup {NoVersion}, at : Nat]]
  BY <1>1, <1>2, AtMoves
<1>4. writer[w] \in Sweeping /\ writer'[w] \in Sweeping
  BY <1>1 DEF Sweeping
<1>5. OnePlace'
  BY <1>1, <1>3, SamePlaces
<1>6. RetiredMaps' = RetiredMaps
  BY <1>1 DEF RetiredMaps
<1>7. Unchecked(w)' \subseteq Unchecked(w) /\ Unchecked(w) \subseteq Unchecked(w)' \cup {u}
  <2>1. Unchecked(w) = ({ring[j] : j \in i .. RING} \ {NoVersion}) \cup Range(overflow)
    BY <1>1, <1>a DEF Unchecked
  <2>2. Unchecked(w)' = ({ring[j] : j \in i + 1 .. RING} \ {NoVersion}) \cup Range(overflow)
    BY <1>1, <1>3 DEF Unchecked
  <2>3. \A j \in i .. RING : j = i \/ j \in i + 1 .. RING
    BY <1>2, ListBounds
  <2>4. \A j \in i + 1 .. RING : j \in i .. RING
    BY <1>2, ListBounds
  <2> QED
    BY <1>a, <2>1, <2>2, <2>3, <2>4
<1>8. u \in RetiredMaps => \E r \in Readers : guard[r] = u
  BY <1>1, RetiredType DEF Unheld
<1>9. Cardinality(RetiredMaps \ Unchecked(w))' <= Cardinality(Past(w))'
  <2>1. RetiredMaps' \ Unchecked(w)' \subseteq (RetiredMaps \ Unchecked(w)) \cup {u}
    BY <1>6, <1>7
  <2>2. u \in RetiredMaps' /\ u \notin Unchecked(w)' /\ ~(u \in RetiredMaps /\ u \notin Unchecked(w))
          => u \in Unchecked(w) /\ \E r \in Readers : guard[r] = u
    BY <1>6, <1>8
  <2> QED
    BY <1>1, <1>4, <1>7, <2>1, <2>2, TurnCount
<1>10. /\ ring' \in [1 .. RING -> Versions \cup {NoVersion}] /\ overflow' \in Seq(Versions)
       /\ freed' \in [Writers -> SUBSET Versions]
       /\ writer' \in [Writers -> {"idle", "store", "ring", "overflow", "place", "drop"}]
  BY <1>1 DEF MapInv, MapTypeOK
<1> QED
  BY <1>1, <1>3, <1>4, <1>5, <1>6, <1>9, <1>10, TurnKeeps

\* A slot no reader holds is let go.
LEMMA RingFreeKeeps ==
    ASSUME MapInv, NEW w \in Writers, RingFree(w)
    PROVE  MapInv'
<1> DEFINE i == op[w].at + 1
           u == ring[i]
<1>1. /\ writer[w] = "ring" /\ i <= RING /\ maps' = maps /\ cell' = cell
      /\ overflow' = overflow /\ holder' = holder /\ dropped' = dropped
      /\ guard' = guard /\ writer' = writer /\ op' = [op EXCEPT ![w].at = i]
      /\ ring' = [ring EXCEPT ![i] = NoVersion]
      /\ freed' = [freed EXCEPT ![w] = freed[w] \cup {u}] /\ Unheld(u)
  BY DEF RingFree
<1>2. op[w].at \in Nat /\ i \in Nat /\ i \in 1 .. RING
  BY <1>1, AtType, ListBounds
<1>3. /\ OnePlace' /\ u \in Versions /\ \A j \in 1 .. RING : ring'[j] # u
      /\ \A j \in DOMAIN overflow : overflow[j] # u
  BY RingFreePlaces
<1>a. i = op[w].at + 1 /\ u = ring[i]
  OBVIOUS
<1> HIDE DEF i, u
<1>4. /\ op'[w].at = i /\ \A x \in Writers : op'[x].displaced = op[x].displaced
      /\ \A x \in Writers : x # w => op'[x] = op[x]
      /\ \E R : op' \in [Writers -> [removed : R, displaced : Versions \cup {NoVersion}, at : Nat]]
  BY <1>1, <1>2, AtMoves
<1>5. writer[w] \in Sweeping /\ writer'[w] \in Sweeping
  BY <1>1 DEF Sweeping
<1>6. /\ ring \in [1 .. RING -> Versions \cup {NoVersion}] /\ overflow' \in Seq(Versions)
      /\ freed \in [Writers -> SUBSET Versions]
      /\ writer' \in [Writers -> {"idle", "store", "ring", "overflow", "place", "drop"}]
  BY <1>1 DEF MapInv, MapTypeOK
<1>7. ring' \in [1 .. RING -> Versions \cup {NoVersion}]
  BY <1>1, <1>2, <1>6
<1>8. freed' \in [Writers -> SUBSET Versions]
  BY <1>1, <1>3, <1>6
<1>9. \A x \in Writers : \A v \in freed'[x] : v \in freed[x] \/ Unheld(v)
  BY <1>1, <1>6
<1>10. \A j \in 1 .. RING : ring'[j] = IF j = i THEN NoVersion ELSE ring[j]
  BY <1>1, <1>2, <1>6
<1>11. RetiredMaps' \subseteq RetiredMaps /\ u \notin RetiredMaps'
  <2>1. DOMAIN ring' = 1 .. RING /\ DOMAIN ring = 1 .. RING
    BY <1>6, <1>7
  <2> QED
    BY <1>1, <1>3, <1>10, <2>1 DEF RetiredMaps, Range
<1>12. Unchecked(w)' \subseteq Unchecked(w) /\ Unchecked(w) \subseteq Unchecked(w)' \cup {u}
  <2>1. Unchecked(w) = ({ring[j] : j \in i .. RING} \ {NoVersion}) \cup Range(overflow)
    BY <1>1, <1>a DEF Unchecked
  <2>2. Unchecked(w)' = ({ring'[j] : j \in i + 1 .. RING} \ {NoVersion}) \cup Range(overflow)
    BY <1>1, <1>4 DEF Unchecked
  <2>3. \A j \in i .. RING : j = i \/ j \in i + 1 .. RING
    BY <1>2, ListBounds
  <2>4. \A j \in i + 1 .. RING : j \in i .. RING /\ ring'[j] = ring[j]
    BY <1>2, <1>10, ListBounds
  <2> QED
    BY <1>a, <2>1, <2>2, <2>3, <2>4
<1>13. Cardinality(RetiredMaps \ Unchecked(w))' <= Cardinality(Past(w))'
  <2>1. RetiredMaps' \ Unchecked(w)' \subseteq (RetiredMaps \ Unchecked(w)) \cup {u}
    BY <1>11, <1>12
  <2> QED
    BY <1>1, <1>5, <1>11, <1>12, <2>1, TurnCount
<1> QED
  BY <1>1, <1>3, <1>4, <1>5, <1>6, <1>7, <1>8, <1>9, <1>11, <1>13, TurnKeeps

\* Nothing past the ring is left to look at.
LEMMA OverflowDoneKeeps ==
    ASSUME MapInv, NEW w \in Writers, OverflowDone(w)
    PROVE  MapInv'
<1>1. /\ writer[w] = "overflow" /\ op[w].at + 1 > Len(overflow) /\ maps' = maps /\ cell' = cell
      /\ ring' = ring /\ overflow' = overflow /\ holder' = holder /\ freed' = freed
      /\ dropped' = dropped /\ guard' = guard /\ writer' = [writer EXCEPT ![w] = "place"]
      /\ op' = op
  BY DEF OverflowDone
<1>2. /\ writer'[w] = "place" /\ \A x \in Writers : x # w => writer'[x] = writer[x]
      /\ writer' \in [Writers -> {"idle", "store", "ring", "overflow", "place", "drop"}]
  BY <1>1, OthersStay
<1>3. \E R : op' \in [Writers -> [removed : R, displaced : Versions \cup {NoVersion}, at : Nat]]
  BY <1>1 DEF MapInv, WritersOK
<1>4. writer[w] \in Sweeping /\ writer'[w] \in Sweeping
  BY <1>1, <1>2 DEF Sweeping
<1>5. \A x \in Writers : writer'[x] = "store" <=> writer[x] = "store"
  BY <1>1, <1>2
<1>6. OnePlace'
  BY <1>1, <1>5, SamePlaces
<1>7. RetiredMaps' = RetiredMaps
  BY <1>1 DEF RetiredMaps
<1>8. Unchecked(w)' = Unchecked(w)
  <2>1. op[w].at + 1 .. Len(overflow) = {}
    BY <1>1, AtType DEF MapInv, MapTypeOK
  <2>2. Unchecked(w) = {}
    BY <1>1, <2>1 DEF Unchecked
  <2>3. Unchecked(w)' = {}
    BY <1>2 DEF Unchecked
  <2> QED
    BY <2>2, <2>3
<1>9. Cardinality(RetiredMaps \ Unchecked(w))' <= Cardinality(Past(w))'
  <2>1. Past(w)' = Past(w)
    BY <1>1, <1>8 DEF Past
  <2> QED
    BY <1>4, <1>7, <1>8, <2>1 DEF MapInv, SweepOK
<1>10. /\ ring' \in [1 .. RING -> Versions \cup {NoVersion}] /\ overflow' \in Seq(Versions)
       /\ freed' \in [Writers -> SUBSET Versions]
  BY <1>1 DEF MapInv, MapTypeOK
<1> QED
  BY <1>1, <1>2, <1>3, <1>4, <1>6, <1>7, <1>9, <1>10, TurnKeeps

\* An entry past the ring that is held stays.
LEMMA OverflowKeepKeeps ==
    ASSUME MapInv, NEW w \in Writers, OverflowKeep(w)
    PROVE  MapInv'
<1> DEFINE i == op[w].at + 1
           n == Len(overflow)
           u == overflow[i]
<1>1. /\ writer[w] = "overflow" /\ i <= n /\ maps' = maps /\ cell' = cell /\ ring' = ring
      /\ overflow' = overflow /\ holder' = holder /\ freed' = freed /\ dropped' = dropped
      /\ guard' = guard /\ writer' = writer /\ op' = [op EXCEPT ![w].at = i]
      /\ ~Unheld(u)
  BY DEF OverflowKeep
<1>2. op[w].at \in Nat /\ i \in Nat /\ i \in 1 .. n /\ n \in Nat
  BY <1>1, AtType DEF MapInv, MapTypeOK
<1>a. i = op[w].at + 1 /\ u = overflow[i] /\ n = Len(overflow)
  OBVIOUS
<1> HIDE DEF i, n, u
<1>3. /\ op'[w].at = i /\ \A x \in Writers : op'[x].displaced = op[x].displaced
      /\ \A x \in Writers : x # w => op'[x] = op[x]
      /\ \E R : op' \in [Writers -> [removed : R, displaced : Versions \cup {NoVersion}, at : Nat]]
  BY <1>1, <1>2, AtMoves
<1>4. writer[w] \in Sweeping /\ writer'[w] \in Sweeping
  BY <1>1 DEF Sweeping
<1>5. OnePlace'
  BY <1>1, <1>3, SamePlaces
<1>6. RetiredMaps' = RetiredMaps
  BY <1>1 DEF RetiredMaps
<1>7. Unchecked(w)' \subseteq Unchecked(w) /\ Unchecked(w) \subseteq Unchecked(w)' \cup {u}
  <2>1. Unchecked(w) = {overflow[j] : j \in i .. n}
    BY <1>1, <1>a DEF Unchecked
  <2>2. Unchecked(w)' = {overflow[j] : j \in i + 1 .. n}
    BY <1>1, <1>3, <1>a DEF Unchecked
  <2>3. \A j \in i .. n : j = i \/ j \in i + 1 .. n
    BY <1>2
  <2>4. \A j \in i + 1 .. n : j \in i .. n
    BY <1>2
  <2> QED
    BY <1>a, <2>1, <2>2, <2>3, <2>4
<1>8. \E r \in Readers : guard[r] = u
  BY <1>1 DEF Unheld
<1>9. Cardinality(RetiredMaps \ Unchecked(w))' <= Cardinality(Past(w))'
  <2>1. RetiredMaps' \ Unchecked(w)' \subseteq (RetiredMaps \ Unchecked(w)) \cup {u}
    BY <1>6, <1>7
  <2>2. u \in RetiredMaps' /\ u \notin Unchecked(w)' /\ ~(u \in RetiredMaps /\ u \notin Unchecked(w))
          => u \in Unchecked(w) /\ \E r \in Readers : guard[r] = u
    BY <1>6, <1>8
  <2> QED
    BY <1>1, <1>4, <1>7, <2>1, <2>2, TurnCount
<1>10. /\ ring' \in [1 .. RING -> Versions \cup {NoVersion}] /\ overflow' \in Seq(Versions)
       /\ freed' \in [Writers -> SUBSET Versions]
       /\ writer' \in [Writers -> {"idle", "store", "ring", "overflow", "place", "drop"}]
  BY <1>1 DEF MapInv, MapTypeOK
<1> QED
  BY <1>1, <1>3, <1>4, <1>5, <1>6, <1>9, <1>10, TurnKeeps

\* An entry past the ring that no reader holds is let go.
LEMMA OverflowFreeKeeps ==
    ASSUME MapInv, NEW w \in Writers, OverflowFree(w)
    PROVE  MapInv'
<1> DEFINE i == op[w].at + 1
           n == Len(overflow)
           u == overflow[i]
<1>1. /\ writer[w] = "overflow" /\ i <= n /\ maps' = maps /\ cell' = cell
      /\ ring' = ring /\ holder' = holder /\ dropped' = dropped
      /\ guard' = guard /\ writer' = writer /\ op' = op
      /\ overflow' = SwapRemove(overflow, i)
      /\ freed' = [freed EXCEPT ![w] = freed[w] \cup {u}] /\ Unheld(u)
  BY DEF OverflowFree
<1>2. op[w].at \in Nat /\ i \in Nat /\ i \in 1 .. n /\ n \in Nat
  BY <1>1, AtType DEF MapInv, MapTypeOK
<1>3. /\ OnePlace' /\ u \in Versions /\ \A j \in DOMAIN overflow' : overflow'[j] # u
      /\ \A j \in 1 .. RING : ring[j] # u
  BY OverflowFreePlaces
<1>a. i = op[w].at + 1 /\ u = overflow[i] /\ n = Len(overflow)
  OBVIOUS
<1> HIDE DEF i, n, u
<1>4. \E R : op' \in [Writers -> [removed : R, displaced : Versions \cup {NoVersion}, at : Nat]]
  BY <1>1 DEF MapInv, WritersOK
<1>5. writer[w] \in Sweeping /\ writer'[w] \in Sweeping
  BY <1>1 DEF Sweeping
<1>6. /\ ring' \in [1 .. RING -> Versions \cup {NoVersion}] /\ overflow \in Seq(Versions)
      /\ freed \in [Writers -> SUBSET Versions]
      /\ writer' \in [Writers -> {"idle", "store", "ring", "overflow", "place", "drop"}]
  BY <1>1 DEF MapInv, MapTypeOK
<1>7. /\ overflow' \in Seq(Versions) /\ Len(overflow') = n - 1
      /\ \A j \in 1 .. n - 1 : overflow'[j] = IF j = i THEN overflow[n] ELSE overflow[j]
  <2>1. overflow \in Seq(Versions) /\ i \in 1 .. Len(overflow) /\ n = Len(overflow)
    BY <1>2, <1>6, <1>a
  <2>2. /\ SwapRemove(overflow, i) \in Seq(Versions)
        /\ Len(SwapRemove(overflow, i)) = n - 1
        /\ \A j \in 1 .. n - 1 :
             SwapRemove(overflow, i)[j] = IF j = i THEN overflow[n] ELSE overflow[j]
    BY <2>1, SwapRemoved
  <2>3. overflow' = SwapRemove(overflow, i)
    BY <1>1
  <2> QED
    BY <2>2, <2>3
<1>8. freed' \in [Writers -> SUBSET Versions]
  BY <1>1, <1>3, <1>6
<1>9. \A x \in Writers : \A v \in freed'[x] : v \in freed[x] \/ Unheld(v)
  BY <1>1, <1>6
<1>10. DOMAIN overflow' = 1 .. n - 1 /\ DOMAIN overflow = 1 .. n /\ DOMAIN ring = 1 .. RING
  BY <1>1, <1>6, <1>7, <1>a
<1>11. RetiredMaps' \subseteq RetiredMaps /\ u \notin RetiredMaps'
  <2>1. Range(overflow') \subseteq Range(overflow)
    BY <1>2, <1>7, <1>10 DEF Range
  <2>2. u \notin Range(overflow') /\ u \notin Range(ring)
    BY <1>3, <1>10 DEF Range
  <2> QED
    BY <1>1, <2>1, <2>2 DEF RetiredMaps
<1>12. Unchecked(w)' \subseteq Unchecked(w) /\ Unchecked(w) \subseteq Unchecked(w)' \cup {u}
  <2>1. Unchecked(w) = {overflow[j] : j \in i .. n}
    BY <1>1, <1>a DEF Unchecked
  <2>2. Unchecked(w)' = {overflow'[j] : j \in i .. n - 1}
    BY <1>1, <1>7, <1>a DEF Unchecked
  <2>3. \A j \in i .. n - 1 : \E m \in i .. n : overflow'[j] = overflow[m]
    BY <1>2, <1>7
  <2>4. \A m \in i .. n : overflow[m] = u \/ \E j \in i .. n - 1 : overflow'[j] = overflow[m]
    <3> SUFFICES ASSUME NEW m \in i .. n, m # i
                 PROVE  \E j \in i .. n - 1 : overflow'[j] = overflow[m]
      BY <1>a
    <3>1. CASE m = n
      <4>1. i \in i .. n - 1 /\ i \in 1 .. n - 1
        BY <1>2, <3>1
      <4>2. overflow'[i] = overflow[m]
        BY <1>7, <3>1, <4>1
      <4> QED
        BY <4>1, <4>2
    <3>2. CASE m # n
      <4>1. m \in i .. n - 1 /\ m \in 1 .. n - 1
        BY <1>2, <3>2
      <4>2. overflow'[m] = overflow[m]
        BY <1>7, <4>1
      <4> QED
        BY <4>1, <4>2
    <3> QED
      BY <3>1, <3>2
  <2> QED
    BY <2>1, <2>2, <2>3, <2>4
<1>13. Cardinality(RetiredMaps \ Unchecked(w))' <= Cardinality(Past(w))'
  <2>1. RetiredMaps' \ Unchecked(w)' \subseteq (RetiredMaps \ Unchecked(w)) \cup {u}
    BY <1>11, <1>12
  <2> QED
    BY <1>1, <1>5, <1>11, <1>12, <2>1, TurnCount
<1> QED
  BY <1>1, <1>3, <1>4, <1>5, <1>6, <1>7, <1>8, <1>9, <1>11, <1>13, TurnKeeps

\* The end of the writer section: the sweep is over, and one version more is
\* kept.
LEMMA ReleaseKeeps ==
    ASSUME MapInv, NEW w \in Writers, Release(w)
    PROVE  MapInv'
<1>1. /\ writer[w] = "place" /\ maps' = maps /\ cell' = cell /\ freed' = freed
      /\ dropped' = dropped /\ guard' = guard /\ holder' = NoWriter
      /\ writer' = [writer EXCEPT ![w] = "drop"]
      /\ op' = [op EXCEPT ![w] = [removed |-> 0, displaced |-> NoVersion, at |-> 0]]
  BY DEF Release
<1>2. /\ OnePlace' /\ op[w].displaced \in Versions /\ RetiredMaps' = RetiredMaps \cup {op[w].displaced}
      /\ ring' \in [1 .. RING -> Versions \cup {NoVersion}] /\ overflow' \in Seq(Versions)
  BY ReleasePlaces
<1>3. /\ writer'[w] = "drop" /\ \A x \in Writers : x # w => writer'[x] = writer[x]
      /\ writer' \in [Writers -> {"idle", "store", "ring", "overflow", "place", "drop"}]
  BY <1>1, OthersStay
<1>4. Versions' = Versions
  BY <1>1 DEF Versions
<1>5. MapTypeOK'
  BY <1>1, <1>2, <1>3, <1>4 DEF MapInv, MapTypeOK
<1>6. writer[w] \in Inside /\ writer[w] \in Sweeping
  BY <1>1 DEF Inside, Sweeping
<1>7. \A x \in Writers : x # w => writer[x] \notin Inside /\ op[x].displaced = NoVersion
  BY <1>6, AloneInside DEF MapInv
<1>8. /\ op'[w] = [removed |-> 0, displaced |-> NoVersion, at |-> 0]
      /\ \A x \in Writers : x # w => op'[x] = op[x]
      /\ \E R : op' \in [Writers -> [removed : R, displaced : Versions \cup {NoVersion}, at : Nat]]
  <2>1. PICK R : op \in [Writers -> [removed : R, displaced : Versions \cup {NoVersion}, at : Nat]]
    BY DEF MapInv, WritersOK
  <2> DEFINE D == Versions \cup {NoVersion}
             Q == R \cup {0}
  <2>2. op \in [Writers -> [removed : R, displaced : D, at : Nat]] /\ NoVersion \in D
    BY <2>1
  <2>3. R \subseteq Q /\ 0 \in Q
    OBVIOUS
  <2> HIDE DEF D, Q
  <2>4. op \in [Writers -> [removed : Q, displaced : D, at : Nat]]
    BY <2>2, <2>3
  <2>5. op' \in [Writers -> [removed : Q, displaced : D, at : Nat]]
    BY <1>1, <2>2, <2>3, <2>4
  <2>6. op'[w] = [removed |-> 0, displaced |-> NoVersion, at |-> 0]
    BY <1>1, <2>2
  <2>7. \A x \in Writers : x # w => op'[x] = op[x]
    BY <1>1, <2>2
  <2> QED
    BY <2>5, <2>6, <2>7 DEF D
<1>9. \A x \in Writers : /\ writer'[x] \notin Inside /\ writer'[x] \notin Sweeping
                         /\ writer'[x] # "store" /\ op'[x].displaced = NoVersion
  <2>1. ASSUME NEW x \in Writers, x = w
        PROVE  /\ writer'[x] \notin Inside /\ writer'[x] \notin Sweeping
               /\ writer'[x] # "store" /\ op'[x].displaced = NoVersion
    BY <1>3, <1>8, <2>1 DEF Inside, Sweeping
  <2>2. ASSUME NEW x \in Writers, x # w
        PROVE  /\ writer'[x] \notin Inside /\ writer'[x] \notin Sweeping
               /\ writer'[x] # "store" /\ op'[x].displaced = NoVersion
    BY <1>3, <1>7, <1>8, <2>2 DEF Inside, Sweeping
  <2> QED
    BY <2>1, <2>2
<1>10. WritersOK'
  <2>1. \A x \in Writers : holder' # x
    BY <1>1, ListBounds
  <2> QED
    BY <1>4, <1>8, <1>9, <2>1 DEF WritersOK, Inside, Sweeping
<1>11. GuardsOK'
  BY <1>1, <1>9 DEF MapInv, GuardsOK
<1>12. SweepOK'
  BY <1>9 DEF SweepOK, Sweeping
<1>13. RetiredBounded'
  <2>1. Unchecked(w) = {}
    BY <1>1 DEF Unchecked
  <2>2. RetiredMaps \ Unchecked(w) = RetiredMaps /\ Past(w) = Readers
    BY <2>1 DEF Past
  <2>3. Cardinality(RetiredMaps) <= Cardinality(Readers)
    BY <1>6, <2>2 DEF MapInv, SweepOK
  <2>4. IsFiniteSet(RetiredMaps)
    BY RetiredType
  <2> DEFINE u == op[w].displaced
  <2> HIDE DEF u
  <2>5. Cardinality(RetiredMaps \cup {u}) = IF u \in RetiredMaps THEN Cardinality(RetiredMaps)
                                        ELSE Cardinality(RetiredMaps) + 1
    BY <2>4, FS_AddElement
  <2>6. Cardinality(RetiredMaps) \in Nat /\ Cardinality(Readers) \in Nat
    BY <2>4, ListBounds, FS_CardinalityType
  <2>7. Cardinality(RetiredMaps \cup {u}) <= Cardinality(Readers) + 1
    BY <2>3, <2>5, <2>6
  <2> QED
    BY <1>2, <2>7 DEF RetiredBounded, u
<1>14. \E S : maps' \in Seq(S)
  BY <1>1 DEF MapInv
<1> QED
  BY <1>2, <1>5, <1>10, <1>11, <1>12, <1>13, <1>14 DEF MapInv

\* The drop outside the mutex keeps the invariant.
LEMMA DropKeeps ==
    ASSUME MapInv, NEW w \in Writers, DropFreed(w)
    PROVE  MapInv'
<1>1. /\ dropped' = dropped \cup freed[w]
      /\ freed' = [freed EXCEPT ![w] = {}] /\ writer' = [writer EXCEPT ![w] = "idle"]
      /\ writer[w] = "drop" /\ holder' = holder /\ guard' = guard
      /\ maps' = maps /\ cell' = cell /\ ring' = ring /\ overflow' = overflow /\ op' = op
  BY DEF DropFreed
<1>2. OnePlace'
  BY DropPlaces
<1>3. /\ writer'[w] = "idle" /\ \A x \in Writers : x # w => writer'[x] = writer[x]
      /\ writer' \in [Writers -> {"idle", "store", "ring", "overflow", "place", "drop"}]
  BY <1>1, OthersStay
<1>4. Versions' = Versions
  BY <1>1 DEF Versions
<1>5. /\ freed \in [Writers -> SUBSET Versions] /\ dropped \subseteq Versions
  BY DEF MapInv, MapTypeOK
<1>6. freed' \in [Writers -> SUBSET Versions] /\ dropped' \subseteq Versions
  BY <1>1, <1>5
<1>7. MapTypeOK'
  BY <1>1, <1>3, <1>4, <1>6 DEF MapInv, MapTypeOK
<1>8. \A x \in Writers : /\ writer'[x] \in Inside <=> writer[x] \in Inside
                         /\ writer'[x] \in Sweeping <=> writer[x] \in Sweeping
                         /\ writer'[x] = "store" <=> writer[x] = "store"
                         /\ writer'[x] = "ring" <=> writer[x] = "ring"
                         /\ writer'[x] = "overflow" <=> writer[x] = "overflow"
  BY <1>1, <1>3 DEF Inside, Sweeping
<1>9. WritersOK'
  <2>1. \E R : op \in [Writers -> [removed : R, displaced : Versions \cup {NoVersion}, at : Nat]]
    BY DEF MapInv, WritersOK
  <2>2. ASSUME NEW x \in Writers
        PROVE  /\ holder' = x <=> writer'[x] \in Inside
               /\ op'[x].displaced # NoVersion <=> writer'[x] \in Sweeping
               /\ writer'[x] = "store" => op'[x].at = 0
    BY <1>1, <1>8 DEF MapInv, WritersOK
  <2> QED
    BY <1>1, <1>4, <2>1, <2>2 DEF WritersOK, Inside, Sweeping
<1>10. GuardsOK'
  <2>1. \A r \in Readers : guard[r] # NoVersion =>
            /\ guard[r] \notin dropped
            /\ \A x \in Writers : /\ guard[r] \notin freed[x]
                                  /\ writer[x] = "store" => guard[r] # Len(maps) - 1
    BY DEF MapInv, GuardsOK
  <2>2. \A x \in Writers : freed'[x] \subseteq freed[x]
    BY <1>1, <1>5
  <2> QED
    BY <1>1, <1>8, <2>1, <2>2 DEF GuardsOK
<1>11. RetiredMaps' = RetiredMaps
  BY <1>1 DEF RetiredMaps
<1>12. \A x \in Writers : Unchecked(x)' = Unchecked(x)
  BY <1>1, <1>8 DEF Unchecked
<1>13. SweepOK'
  <2>1. ASSUME NEW x \in Writers, writer'[x] \in Sweeping
        PROVE  Cardinality(RetiredMaps' \ Unchecked(x)') <= Cardinality(Past(x)')
    <3>1. writer[x] \in Sweeping
      BY <1>8, <2>1
    <3>2. Past(x)' = Past(x)
      BY <1>1, <1>12 DEF Past
    <3> QED
      BY <1>11, <1>12, <3>1, <3>2 DEF MapInv, SweepOK
  <2> QED
    BY <2>1 DEF SweepOK, Sweeping
<1>14. RetiredBounded'
  BY <1>11 DEF MapInv, RetiredBounded
<1>15. \E S : maps' \in Seq(S)
  BY <1>1 DEF MapInv
<1> QED
  BY <1>2, <1>7, <1>9, <1>10, <1>13, <1>14, <1>15 DEF MapInv

\* A post that begins or ends its walk: the guard it takes is of the published
\* version, and it gives up none that the sweep counts on.
LEMMA GuardKeeps ==
    ASSUME MapInv, NEW r \in Readers, NEW g \in {cell, NoVersion},
           guard' = [guard EXCEPT ![r] = g],
           UNCHANGED <<maps, cell, ring, overflow, holder, writer, op, freed, dropped>>
    PROVE  MapInv'
<1>1. Versions' = Versions
  BY DEF Versions
<1>2. OnePlace'
  BY SamePlaces
<1>3. /\ cell \in Versions /\ guard \in [Readers -> Versions \cup {NoVersion}]
  BY DEF MapInv, MapTypeOK
<1>4. guard' \in [Readers -> Versions \cup {NoVersion}]
  BY <1>3
<1>5. MapTypeOK'
  BY <1>1, <1>4 DEF MapInv, MapTypeOK
<1>6. WritersOK'
  BY <1>1 DEF MapInv, WritersOK, Inside, Sweeping
<1>7. \A s \in Readers : guard'[s] = IF s = r THEN g ELSE guard[s]
  BY <1>3
<1>8. /\ cell \notin RetiredMaps /\ cell \notin dropped
      /\ \A w \in Writers : /\ cell \notin freed[w] /\ op[w].displaced # cell
                            /\ writer[w] = "store" => cell # Len(maps) - 1
  BY CellApart
<1>9. GuardsOK'
  <2>1. ASSUME NEW s \in Readers, guard'[s] # NoVersion
        PROVE  /\ guard'[s] \notin dropped
               /\ \A w \in Writers : /\ guard'[s] \notin freed[w]
                                     /\ writer[w] = "store" => guard'[s] # Len(maps) - 1
    <3>1. CASE s = r
      BY <1>7, <1>8, <2>1, <3>1
    <3>2. CASE s # r
      BY <1>7, <2>1, <3>2 DEF MapInv, GuardsOK
    <3> QED
      BY <3>1, <3>2
  <2> QED
    BY <2>1 DEF GuardsOK
<1>10. RetiredMaps' = RetiredMaps
  BY DEF RetiredMaps
<1>11. \A w \in Writers : Unchecked(w)' = Unchecked(w)
  BY DEF Unchecked
<1>12. SweepOK'
  <2>1. ASSUME NEW w \in Writers, writer[w] \in Sweeping
        PROVE  Cardinality(RetiredMaps' \ Unchecked(w)') <= Cardinality(Past(w)')
    <3>1. Cardinality(RetiredMaps \ Unchecked(w)) <= Cardinality(Past(w))
      BY <2>1 DEF MapInv, SweepOK
    <3>2. g \notin Unchecked(w)
      BY <1>8, UncheckedKept, RetiredType
    <3>3. Past(w) \subseteq Past(w)' /\ Past(w)' \subseteq Readers
      BY <1>7, <1>11, <3>2 DEF Past
    <3>4. IsFiniteSet(Past(w)')
      BY <3>3, ListBounds, FS_Subset
    <3>5. IsFiniteSet(Past(w)) /\ Cardinality(Past(w)) <= Cardinality(Past(w)')
      BY <3>3, <3>4, FS_Subset
    <3>6. IsFiniteSet(RetiredMaps \ Unchecked(w))
      BY RetiredType, FS_Difference
    <3>7. /\ Cardinality(Past(w)) \in Nat /\ Cardinality(Past(w)') \in Nat
          /\ Cardinality(RetiredMaps \ Unchecked(w)) \in Nat
      BY <3>4, <3>5, <3>6, FS_CardinalityType
    <3>8. Cardinality(RetiredMaps \ Unchecked(w)) <= Cardinality(Past(w)')
      BY <3>1, <3>5, <3>7
    <3> QED
      BY <1>10, <1>11, <3>8
  <2> QED
    BY <2>1 DEF SweepOK, Sweeping
<1>13. RetiredBounded'
  BY <1>10 DEF MapInv, RetiredBounded
<1>14. \E S : maps' \in Seq(S)
  BY DEF MapInv
<1> QED
  BY <1>2, <1>5, <1>6, <1>9, <1>12, <1>13, <1>14 DEF MapInv

\* A step that leaves the memory alone.
LEMMA MemoryKept ==
    ASSUME MapInv,
           UNCHANGED <<maps, cell, ring, overflow, holder, writer, op, freed, dropped, guard>>
    PROVE  MapInv'
<1>1. Versions' = Versions /\ RetiredMaps' = RetiredMaps
  BY DEF Versions, RetiredMaps
<1>2. MapTypeOK' /\ WritersOK' /\ GuardsOK' /\ RetiredBounded'
  <2>1. MapTypeOK'
    BY <1>1 DEF MapInv, MapTypeOK
  <2>2. WritersOK'
    BY <1>1 DEF MapInv, WritersOK, Inside, Sweeping
  <2>3. GuardsOK'
    BY DEF MapInv, GuardsOK
  <2>4. RetiredBounded'
    BY <1>1 DEF MapInv, RetiredBounded
  <2> QED
    BY <2>1, <2>2, <2>3, <2>4
<1>3. OnePlace'
  BY SamePlaces
<1>4. SweepOK'
  <2>1. \A w \in Writers : Unchecked(w)' = Unchecked(w)
    BY DEF Unchecked
  <2>2. \A w \in Writers : Past(w)' = Past(w)
    BY <2>1 DEF Past
  <2> QED
    BY <1>1, <2>1, <2>2 DEF MapInv, SweepOK, Sweeping
<1>5. \E S : maps' \in Seq(S)
  BY DEF MapInv
<1> QED
  BY <1>2, <1>3, <1>4, <1>5 DEF MapInv

\* The invariant holds of the list as it is made.
LEMMA MapInvInit == ListInit => MapInv
<1> SUFFICES ASSUME ListInit PROVE MapInv
  OBVIOUS
<1>1. /\ maps = << <<>> >> /\ Len(maps) = 1 /\ cell = 0 /\ overflow = <<>> /\ dropped = {}
      /\ holder = NoWriter
      /\ ring = [i \in 1 .. RING |-> NoVersion] /\ writer = [w \in Writers |-> "idle"]
      /\ op = [w \in Writers |-> [removed |-> 0, displaced |-> NoVersion, at |-> 0]]
      /\ freed = [w \in Writers |-> {}] /\ guard = [r \in Readers |-> NoVersion]
  BY DEF ListInit
<1>2. Versions = {0}
  BY <1>1 DEF Versions
<1>3. MapTypeOK
  BY <1>1, <1>2 DEF MapTypeOK
<1>4. maps \in Seq({<<>>})
  BY <1>1
<1>5. WritersOK
  <2>1. op \in [Writers -> [removed : {0}, displaced : Versions \cup {NoVersion}, at : Nat]]
    BY <1>1
  <2>2. \A w \in Writers : /\ writer[w] = "idle" /\ holder # w /\ op[w].displaced = NoVersion
    BY <1>1, ListBounds
  <2>3. "idle" \notin Inside /\ "idle" \notin Sweeping /\ "idle" # "store"
    BY DEF Inside, Sweeping
  <2> QED
    BY <2>1, <2>2, <2>3 DEF WritersOK
<1>6. OnePlace
  <2>1. /\ InCell(0) = {<<"cell", 0>>} /\ InNew(0) = {} /\ InRing(0) = {} /\ InOverflow(0) = {}
        /\ InDisplaced(0) = {} /\ InFreed(0) = {} /\ InGone(0) = {}
    <3>1. InCell(0) = {<<"cell", 0>>} /\ InGone(0) = {}
      BY <1>1, KindsHold
    <3>2. InNew(0) = {} /\ InFreed(0) = {}
      BY <1>1, KindsEmpty
    <3>3. InRing(0) = {} /\ InDisplaced(0) = {}
      BY <1>1, KindsEmpty DEF NoVersion
    <3>4. InOverflow(0) = {}
      BY <1>1, KindsEmpty
    <3> QED
      BY <3>1, <3>2, <3>3, <3>4
  <2>2. PlacesOf(0) = {<<"cell", 0>>}
    BY <2>1, PlaceKinds
  <2> QED
    BY <1>2, <2>2 DEF OnePlace
<1>7. GuardsOK
  BY <1>1 DEF GuardsOK
<1>8. SweepOK
  BY <1>1 DEF SweepOK, Sweeping
<1>9. RetiredBounded
  <2>1. RetiredMaps = {}
    BY <1>1 DEF RetiredMaps, Range
  <2>2. Cardinality(RetiredMaps) = 0 /\ Cardinality(Readers) \in Nat
    BY <2>1, FS_EmptySet, ListBounds, FS_CardinalityType
  <2> QED
    BY <2>2 DEF RetiredBounded
<1> QED
  BY <1>3, <1>4, <1>5, <1>6, <1>7, <1>8, <1>9 DEF MapInv

\* Every step of a writer or a post keeps the invariant.
LEMMA MapInvStep == MapInv /\ [ListNext]_mapVars => MapInv'
<1> SUFFICES ASSUME MapInv, [ListNext]_mapVars PROVE MapInv'
  OBVIOUS
<1>1. ASSUME NEW w \in Writers, NEW s \in Subs, NEW f \in Fields, try_add(w, s, f)
      PROVE  MapInv'
  <2>1. \/ UNCHANGED <<maps, cell, ring, overflow, holder, writer, op, freed, dropped, guard>>
        \/ PublishStep(w)
    BY <1>1 DEF try_add, publish, PublishStep
  <2> QED
    BY <2>1, MemoryKept, PublishKeeps
<1>2. ASSUME NEW w \in Writers, NEW gone \in SUBSET Subs, retain(w, gone)
      PROVE  MapInv'
  <2>1. PublishStep(w)
    BY <1>2 DEF retain, publish, PublishStep
  <2> QED
    BY <2>1, PublishKeeps
<1>3. ASSUME NEW w \in Writers, CloseList(w)
      PROVE  MapInv'
  <2>1. \/ UNCHANGED <<maps, cell, ring, overflow, holder, writer, op, freed, dropped, guard>>
        \/ PublishStep(w)
    BY <1>3 DEF CloseList, publish, PublishStep
  <2> QED
    BY <2>1, MemoryKept, PublishKeeps
<1>4. ASSUME NEW w \in Writers, SweepRing(w)
      PROVE  MapInv'
  BY <1>4, SweepTurns, RingDoneKeeps, RingKeepKeeps, RingFreeKeeps
<1>5. ASSUME NEW w \in Writers, SweepOverflow(w)
      PROVE  MapInv'
  BY <1>5, SweepTurns, OverflowDoneKeeps, OverflowKeepKeeps, OverflowFreeKeeps
<1>6. ASSUME NEW w \in Writers, Swap(w) \/ Release(w) \/ DropFreed(w)
      PROVE  MapInv'
  BY <1>6, SwapKeeps, ReleaseKeeps, DropKeeps
<1>7. ASSUME NEW r \in Readers, load(r)
      PROVE  MapInv'
  <2>1. /\ guard' = [guard EXCEPT ![r] = cell] /\ cell \in {cell, NoVersion}
        /\ UNCHANGED <<maps, cell, ring, overflow, holder, writer, op, freed, dropped>>
    BY <1>7 DEF load
  <2> QED
    BY <2>1, GuardKeeps
<1>8. ASSUME NEW r \in Readers, DropGuard(r)
      PROVE  MapInv'
  <2>1. /\ guard' = [guard EXCEPT ![r] = NoVersion] /\ NoVersion \in {cell, NoVersion}
        /\ UNCHANGED <<maps, cell, ring, overflow, holder, writer, op, freed, dropped>>
    BY <1>8 DEF DropGuard
  <2> QED
    BY <2>1, GuardKeeps
<1>9. CASE UNCHANGED mapVars
  BY <1>9, MemoryKept DEF mapVars
<1> QED
  BY <1>1, <1>2, <1>3, <1>4, <1>5, <1>6, <1>7, <1>8, <1>9 DEF ListNext

\* What the invariant says: a post walks a version the list still owns, every
\* version is in one place, and the kept ones are bounded.
LEMMA MapInvSound == MapInv => MapsSound
<1> SUFFICES ASSUME MapInv PROVE MapsSound
  OBVIOUS
<1>1. VersionsAccounted
  BY FS_Singleton DEF VersionsAccounted, MapInv, OnePlace
<1>2. ReaderNeverFrees
  <2> SUFFICES ASSUME NEW r \in Readers, guard[r] # NoVersion
               PROVE  /\ guard[r] \in {cell} \cup RetiredMaps \cup Displaced
                      /\ guard[r] \notin dropped \cup UNION Range(freed)
    BY DEF ReaderNeverFrees
  <2> DEFINE v == guard[r]
  <2>1. v \in Versions /\ DOMAIN ring = 1 .. RING /\ DOMAIN freed = Writers
    BY DEF MapInv, MapTypeOK
  <2>2. /\ v \notin dropped
        /\ \A w \in Writers : /\ v \notin freed[w]
                              /\ writer[w] = "store" => v # Len(maps) - 1
    BY DEF MapInv, GuardsOK
  <2> HIDE DEF v
  <2>3. v \notin dropped \cup UNION Range(freed)
    BY <2>1, <2>2 DEF Range
  <2>4. PICK h : PlacesOf(v) = {h}
    BY <2>1 DEF MapInv, OnePlace
  <2>5. InNew(v) = {} /\ InFreed(v) = {} /\ InGone(v) = {}
    BY <2>2, KindsHold, KindsEmpty
  <2>6. InCell(v) # {} \/ InRing(v) # {} \/ InOverflow(v) # {} \/ InDisplaced(v) # {}
    BY <2>4, <2>5, PlaceKinds
  <2>7. v # NoVersion
    BY DEF v
  <2>8. v \in {cell} \cup RetiredMaps \cup Displaced
    <3>1. CASE InCell(v) # {}
      BY <3>1, KindsHold
    <3>2. CASE InRing(v) # {}
      BY <2>1, <2>7, <3>2 DEF InRing, RetiredMaps, Range
    <3>3. CASE InOverflow(v) # {}
      BY <3>3 DEF InOverflow, RetiredMaps, Range
    <3>4. CASE InDisplaced(v) # {}
      BY <2>7, <3>4 DEF InDisplaced, Displaced
    <3> QED
      BY <2>6, <3>1, <3>2, <3>3, <3>4
  <2> QED
    BY <2>3, <2>8 DEF v
<1> QED
  BY <1>1, <1>2 DEF MapsSound, MapInv

\* The inductive invariant of the map's memory: every version has one place, one
\* writer is inside the mutex, what a post walks is not freed, and a version kept
\* by the sweep was held when it was looked at (`store_deferred`).
THEOREM MapInvariant == ListSpec => []MapInv
BY MapInvInit, MapInvStep, PTL DEF ListSpec

\* The map's memory, for every number of writers, posts and monitors and every
\* size of the ring: no post frees the map it walks, no map is freed twice or
\* leaked, and the maps kept are bounded by the posts (`store_deferred`).
THEOREM MapsFreedOnce == ListSpec => []MapsSound
BY MapInvariant, MapInvSound, PTL
=============================================================================
