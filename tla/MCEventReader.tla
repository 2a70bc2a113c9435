--------------------------- MODULE MCEventReader ---------------------------
(***************************************************************************)
(* A monitor's way: the SubscriberList where a record's posts find it, the *)
(* queue its EventReader reads, and, in a PVA client, the DeliveryFence    *)
(* behind which it calls back.  They share no state here, so one of them   *)
(* moves in a behaviour and the others stay as they start.                 *)
(*                                                                         *)
(* The list moves in one of two scenes: two posts against the frees of one *)
(* writer ("freed"), or two writers and two fields ("listed").  So does    *)
(* the fence: data for two subscriptions ("two"), or every kind of frame   *)
(* for one ("one").                                                        *)
(***************************************************************************)
EXTENDS EventReader, DeliveryFence, SubscriberList

CONSTANTS Parts, w1, w2, r1, r2, s1, s2

VARIABLE moving

\* Monitors are alike, so they are added in the order of their numbers.
SubsInOrder == \A s \in 2 .. 3 : state[s] # "new" => state[s - 1] # "new"
OneField == \A v \in Versions : \A e \in Range(EntriesIn(v)) : e.field = 1
OneWriter == writer[w2] = "idle"
OneReader == guard[r2] = NoVersion

\* Subscriptions are alike, so the first frame is for s1; one stays.
FirstForS1 == ~(routing.entry.ticket = 1 /\ routing.sub = s2)
OneStays == (\A s \in {s1, s2} : registered[s]) /\ \E s \in {s1, s2} : ~Abandoned(s)
OneSubscribed == registered[s2] /\ lpc[s2] \in {"recv", "wait"} /\ routing.sub # s2

InScene ==
    \/ moving = "readers" /\ posts + toggles <= MaxPosts
    \/ moving = "freed" /\ SubsInOrder /\ OneWriter /\ OneField /\ Len(maps) <= 6
    \/ moving = "listed" /\ SubsInOrder /\ OneReader /\ Len(maps) <= 5
    \/ moving = "two" /\ FirstForS1 /\ OneStays /\ ends = {}
    \/ moving = "one" /\ OneSubscribed

MCInit == moving \in Parts /\ Init /\ ListInit /\ FenceInit

MCNext ==
    /\ UNCHANGED moving
    /\ \/ moving = "readers" /\ Next /\ UNCHANGED <<mapVars, fenceVars>>
       \/ moving \in {"freed", "listed"} /\ ListNext /\ UNCHANGED <<vars, fenceVars>>
       \/ moving \in {"two", "one"} /\ FenceNext /\ UNCHANGED <<vars, mapVars>>
    /\ InScene'

MCSpec == MCInit /\ [][MCNext]_<<moving, vars, mapVars, fenceVars>>

Interchangeable == Permutations(Producers) \cup Permutations(Slots)

\* When nobody can go on, nothing is left undone: a reader alone on its ring has
\* no entry waiting; a writer of the list never waits for a post; every frame was
\* called back or discarded, a finish ended its loop, and replies were let go.
PathSettled ==
    /\ AloneWoken /\ StoreGoesOn
    /\ RepliesSettled /\ FramesDealtWith /\ FinishEnds
=============================================================================
