--------------------------- MODULE SubscriberList ---------------------------
(***************************************************************************)
(* A record's monitors: a map replaced whole by EVENT_ADD and CANCEL and   *)
(* read without a lock by the posts.  server/event_queue.rs (the list) and *)
(* sync/retiring_swap.rs (the cell whose replaced maps the writer frees).  *)
(*                                                                         *)
(* A version of the map is a number; maps[v] is its entries.  A writer     *)
(* works under the writer mutex; its steps are separate where a reader, or *)
(* the drop of a reader's guard, can come between them.                    *)
(***************************************************************************)
EXTENDS Integers, Sequences, SequencesExt, FiniteSets

CONSTANTS Writers, Readers, Subs, Fields, RING, Cap

NoVersion == -1
NoWriter == "none"

ASSUME ListBounds == RING \in Nat /\ NoWriter \notin Writers /\ IsFiniteSet(Readers)

VARIABLES
    maps,      \* the entries of each version, in the order they were made
    cell,      \* the published version
    ring,      \* replaced versions the writer keeps, RING slots
    overflow,  \* those past a full ring
    count,     \* the "anyone watching" count
    closed,    \* the state the writer mutex holds
    holder,    \* who holds the writer mutex
    writer,    \* where each writer is
    op,        \* the publish each writer is making
    freed,     \* the versions each writer will drop
    dropped,   \* the versions whose memory is gone
    guard,     \* the version each reader is walking
    state,     \* what became of each monitor
    attached   \* the monitors in the order they were listed

mapVars == <<maps, cell, ring, overflow, count, closed, holder, writer, op, freed,
          dropped, guard, state, attached>>

contentVars == <<closed, state, attached>>

Versions == 0 .. Len(maps) - 1
EntriesIn(v) == maps[v + 1]
ListEntry == [field : Fields, sub : Subs]
EntrySubs(es) == {e.sub : e \in Range(es)}

ListInit ==
    /\ maps = << <<>> >>
    /\ cell = 0
    /\ ring = [i \in 1 .. RING |-> NoVersion]
    /\ overflow = <<>>
    /\ count = 0
    /\ closed = FALSE
    /\ holder = NoWriter
    /\ writer = [w \in Writers |-> "idle"]
    /\ op = [w \in Writers |-> [removed |-> 0, displaced |-> NoVersion, at |-> 0]]
    /\ freed = [w \in Writers |-> {}]
    /\ dropped = {}
    /\ guard = [r \in Readers |-> NoVersion]
    /\ state = [s \in Subs |-> "new"]
    /\ attached = <<>>

-----------------------------------------------------------------------------
\* The first part of `publish`: count the added, make the new version.
publish(w, entries, added, removed) ==
    /\ count' = count + added
    /\ maps' = Append(maps, entries)
    /\ op' = [op EXCEPT ![w] = [removed |-> removed, displaced |-> NoVersion, at |-> 0]]
    /\ writer' = [writer EXCEPT ![w] = "store"]
    /\ holder' = w
    /\ UNCHANGED <<cell, ring, overflow, freed, dropped, guard>>

\* The number of entries the binary search skips: those up to `field`.
AfterField(es, field) == Len(SelectSeq(es, LAMBDA e : e.field <= field))

\* Mutant of try_add: the closed flag is not looked at.
try_add_Late(w, s, f) ==
    LET cur == EntriesIn(cell) IN
    /\ writer[w] = "idle" /\ holder = NoWriter /\ state[s] = "new"
    /\ Len(cur) < Cap
    /\ publish(w, InsertAt(cur, AfterField(cur, f) + 1, [field |-> f, sub |-> s]), 1, 0)
    /\ state' = [state EXCEPT ![s] = "listed"]
    /\ attached' = Append(attached, s)
    /\ UNCHANGED closed

\* An add: refused when the list is closed or full, else the monitor goes
\* behind its field's earlier ones.
try_add(w, s, f) ==
    LET cur == EntriesIn(cell) IN
    /\ writer[w] = "idle" /\ holder = NoWriter /\ state[s] = "new"
    /\ \/ /\ closed \/ Len(cur) >= Cap
          /\ state' = [state EXCEPT ![s] = "refused"]
          /\ UNCHANGED <<maps, cell, ring, overflow, count, closed, holder, writer, op,
                         freed, dropped, guard, attached>>
       \/ /\ ~closed /\ Len(cur) < Cap
          /\ publish(w, InsertAt(cur, AfterField(cur, f) + 1, [field |-> f, sub |-> s]), 1, 0)
          /\ state' = [state EXCEPT ![s] = "listed"]
          /\ attached' = Append(attached, s)
          /\ UNCHANGED closed

\* A removal; it stores nothing when nothing goes.
retain(w, gone) ==
    LET cur == EntriesIn(cell) IN
    /\ writer[w] = "idle" /\ holder = NoWriter
    /\ gone # {} /\ gone \subseteq EntrySubs(cur)
    /\ publish(w, SelectSeq(cur, LAMBDA e : e.sub \notin gone), 0, Cardinality(gone))
    /\ state' = [s \in Subs |-> IF s \in gone THEN "removed" ELSE state[s]]
    /\ UNCHANGED <<closed, attached>>

\* The close: everyone goes and later adds are refused, in one section.
CloseList(w) ==
    LET cur == EntriesIn(cell) IN
    /\ writer[w] = "idle" /\ holder = NoWriter /\ ~closed
    /\ closed' = TRUE
    /\ state' = [s \in Subs |-> IF s \in EntrySubs(cur) THEN "removed" ELSE state[s]]
    /\ UNCHANGED attached
    /\ IF cur = <<>>
       THEN UNCHANGED <<maps, cell, ring, overflow, count, holder, writer, op, freed,
                        dropped, guard>>
       ELSE publish(w, <<>>, 0, Len(cur))

\* `store_deferred`: the swap, which also turns the readers' debts on the
\* displaced version into counted references.
Swap(w) ==
    /\ writer[w] = "store"
    /\ cell' = Len(maps) - 1
    /\ op' = [op EXCEPT ![w].displaced = cell]
    /\ writer' = [writer EXCEPT ![w] = "ring"]
    /\ UNCHANGED <<maps, ring, overflow, count, holder, freed, dropped, guard>>
    /\ UNCHANGED contentVars

\* Mutant of Unheld: the count is not consulted.
Unheld_Always(v) == TRUE

\* A strong count of 1: the writer's own reference is the only one.
Unheld(v) == \A r \in Readers : guard[r] # v

\* The sweep looks at each ring slot, then at each overflow entry, with the
\* readers running; what no reader holds is handed back to be freed.
SweepRing(w) ==
    /\ writer[w] = "ring"
    /\ LET i == op[w].at + 1 IN
       IF i > RING
       THEN /\ writer' = [writer EXCEPT ![w] = "overflow"]
            /\ op' = [op EXCEPT ![w].at = 0]
            /\ UNCHANGED <<ring, freed>>
       ELSE /\ op' = [op EXCEPT ![w].at = i]
            /\ UNCHANGED writer
            /\ IF ring[i] # NoVersion /\ Unheld(ring[i])
               THEN /\ ring' = [ring EXCEPT ![i] = NoVersion]
                    /\ freed' = [freed EXCEPT ![w] = @ \cup {ring[i]}]
               ELSE UNCHANGED <<ring, freed>>
    /\ UNCHANGED <<maps, cell, overflow, count, holder, dropped, guard>>
    /\ UNCHANGED contentVars

\* The last entry takes the place of the one removed.
SwapRemove(seq, i) == Front([seq EXCEPT ![i] = Last(seq)])

SweepOverflow(w) ==
    /\ writer[w] = "overflow"
    /\ LET i == op[w].at + 1 IN
       IF i > Len(overflow)
       THEN /\ writer' = [writer EXCEPT ![w] = "place"]
            /\ UNCHANGED <<op, overflow, freed>>
       ELSE /\ UNCHANGED writer
            /\ IF Unheld(overflow[i])
               THEN /\ overflow' = SwapRemove(overflow, i)
                    /\ freed' = [freed EXCEPT ![w] = @ \cup {overflow[i]}]
                    /\ UNCHANGED op
               ELSE /\ op' = [op EXCEPT ![w].at = i]
                    /\ UNCHANGED <<overflow, freed>>
    /\ UNCHANGED <<maps, cell, ring, count, holder, dropped, guard>>
    /\ UNCHANGED contentVars

FreeSlots == {i \in 1 .. RING : ring[i] = NoVersion}

\* The displaced version goes into the first free slot, or past the ring.
Placed(v) ==
    IF FreeSlots = {}
    THEN /\ overflow' = Append(overflow, v)
         /\ UNCHANGED ring
    ELSE /\ LET i == CHOOSE i \in FreeSlots : \A j \in FreeSlots : i <= j IN
            ring' = [ring EXCEPT ![i] = v]
         /\ UNCHANGED overflow

\* The end of the writer section: keep the displaced version, count the
\* removed, release the mutex.
Release(w) ==
    /\ writer[w] = "place"
    /\ Placed(op[w].displaced)
    /\ count' = count - op[w].removed
    /\ holder' = NoWriter
    /\ op' = [op EXCEPT ![w] = [removed |-> 0, displaced |-> NoVersion, at |-> 0]]
    /\ writer' = [writer EXCEPT ![w] = "drop"]
    /\ UNCHANGED <<maps, cell, freed, dropped, guard>>
    /\ UNCHANGED contentVars

\* The freed versions, and the monitors taken off, drop outside the mutex.
DropFreed(w) ==
    /\ writer[w] = "drop"
    /\ dropped' = dropped \cup freed[w]
    /\ freed' = [freed EXCEPT ![w] = {}]
    /\ writer' = [writer EXCEPT ![w] = "idle"]
    /\ UNCHANGED <<maps, cell, ring, overflow, count, holder, op, guard>>
    /\ UNCHANGED contentVars

\* A post: no map load when nobody watches, else a walk of the version the
\* load found.
load(r) ==
    /\ guard[r] = NoVersion
    /\ count # 0
    /\ guard' = [guard EXCEPT ![r] = cell]
    /\ UNCHANGED <<maps, cell, ring, overflow, count, holder, writer, op, freed, dropped>>
    /\ UNCHANGED contentVars

DropGuard(r) ==
    /\ guard[r] # NoVersion
    /\ guard' = [guard EXCEPT ![r] = NoVersion]
    /\ UNCHANGED <<maps, cell, ring, overflow, count, holder, writer, op, freed, dropped>>
    /\ UNCHANGED contentVars

\* The run of one field's monitors a post walks.
of(es, field) ==
    LET start == Len(SelectSeq(es, LAMBDA e : e.field < field))
        stop  == {i \in start + 1 .. Len(es) : es[i].field # field}
        upto  == IF stop = {} THEN Len(es) ELSE (CHOOSE i \in stop : \A j \in stop : i <= j) - 1
    IN [i \in 1 .. upto - start |-> es[start + i].sub]

ListNext ==
    \/ \E w \in Writers :
        \/ \E s \in Subs, f \in Fields : try_add(w, s, f)
        \/ \E gone \in SUBSET Subs : retain(w, gone)
        \/ CloseList(w)
        \/ Swap(w) \/ SweepRing(w) \/ SweepOverflow(w) \/ Release(w) \/ DropFreed(w)
    \/ \E r \in Readers : load(r) \/ DropGuard(r)

ListSpec == ListInit /\ [][ListNext]_mapVars

-----------------------------------------------------------------------------
RetiredMaps == (Range(ring) \ {NoVersion}) \cup Range(overflow)
Displaced == {op[w].displaced : w \in Writers} \ {NoVersion}

MapTypeOK ==
    /\ Len(maps) \in Nat \ {0} /\ cell \in Versions
    /\ ring \in [1 .. RING -> Versions \cup {NoVersion}]
    /\ overflow \in Seq(Versions)
    /\ holder \in Writers \cup {NoWriter}
    /\ writer \in [Writers -> {"idle", "store", "ring", "overflow", "place", "drop"}]
    /\ freed \in [Writers -> SUBSET Versions] /\ dropped \subseteq Versions
    /\ guard \in [Readers -> Versions \cup {NoVersion}]

ListTypeOK ==
    /\ \A v \in Versions : EntriesIn(v) \in Seq(ListEntry)
    /\ count \in 0 .. Cardinality(Subs)
    /\ closed \in BOOLEAN
    /\ state \in [Subs -> {"new", "listed", "removed", "refused"}]

\* A reader's guard is never the last reference: the list's cell, ring,
\* overflow or the storing writer still owns its version, so the free is
\* never made on a cycle thread.
ReaderNeverFrees ==
    \A r \in Readers : guard[r] # NoVersion =>
        /\ guard[r] \in {cell} \cup RetiredMaps \cup Displaced
        /\ guard[r] \notin dropped \cup UNION Range(freed)

\* Where a version is: published, made and not yet stored, kept in a slot or
\* past the ring, in the hand of the writer that displaced it, to be freed by a
\* writer, or gone.
PlacesOf(v) ==
    {<<"cell", 0>> : x \in {cell} \cap {v}}
    \cup {<<"new", w>> : w \in {x \in Writers : writer[x] = "store" /\ v = Len(maps) - 1}}
    \cup {<<"ring", i>> : i \in {j \in 1 .. RING : ring[j] = v}}
    \cup {<<"overflow", i>> : i \in {j \in DOMAIN overflow : overflow[j] = v}}
    \cup {<<"displaced", w>> : w \in {x \in Writers : op[x].displaced = v}}
    \cup {<<"freed", w>> : w \in {x \in Writers : v \in freed[x]}}
    \cup {<<"dropped", 0>> : x \in dropped \cap {v}}

\* Every version is in one place.  A version in two would be freed twice, in
\* none leaked.
VersionsAccounted == \A v \in Versions : Cardinality(PlacesOf(v)) = 1

\* A count of 0 means an empty map, at every step of a publish: the test a
\* cycle makes instead of a load never hides a monitor.
CountCoversMap == count >= Len(EntriesIn(cell))

\* A post of a field reaches its monitors, all of them and in the order they
\* were attached, in the version it walks.
RunsInAttachOrder ==
    \A v \in Versions, f \in Fields :
        LET listed == {e.sub : e \in {x \in Range(EntriesIn(v)) : x.field = f}} IN
        of(EntriesIn(v), f) = SelectSeq(attached, LAMBDA s : s \in listed)

\* What the list keeps for its readers is bounded by their number: a version
\* stays only while a guard of it lives, and one more.
RetiredBounded == Cardinality(RetiredMaps) <= Cardinality(Readers) + 1

\* Once the close is done the list is empty for good: no add that met it is
\* published behind it.
ClosedIsEmpty == closed /\ holder = NoWriter => EntriesIn(cell) = <<>> /\ count = 0

\* No post frees the map it walks, no map is freed twice or leaked, and the maps
\* kept are bounded by the posts under way (`RetiringSwap::store_deferred`).
MapsSound == MapTypeOK /\ ReaderNeverFrees /\ VersionsAccounted /\ RetiredBounded

\* The count a post tests instead of loading the map never hides a monitor, a
\* post reaches a field's monitors in the order they attached, and no add that
\* met the close is published behind it.
ListCoherent == ListTypeOK /\ CountCoversMap /\ RunsInAttachOrder /\ ClosedIsEmpty

\* A writer never waits for a reader: whatever guards are out, the one inside
\* a store has a step to take.
StoreGoesOn ==
    \A w \in Writers : writer[w] # "idle" =>
        ENABLED (Swap(w) \/ SweepRing(w) \/ SweepOverflow(w) \/ Release(w) \/ DropFreed(w))
=============================================================================
