---------------------------- MODULE MCEventUser ----------------------------
(***************************************************************************)
(* EventUser for TLC.  A behaviour plays one scene: bounds, and operations *)
(* that happen, within the run's.  A run so reaches several cases, each    *)
(* with the bounds it needs, without the product of them all.              *)
(***************************************************************************)
EXTENDS EventUser

CONSTANT Scenes
VARIABLE scene

\* What monitors are made of: a copied scalar, a by-reference field whose posts
\* carry the scalar, a by-reference field whose filter copies the value.
ValForm == [kind |-> "Val", data |-> "Val"]
RefForm == [kind |-> "Ref", data |-> "Val"]
OwnedForm == [kind |-> "Ref", data |-> "Owned"]

MCFormsVal == {ValForm}
MCFormsAll == {ValForm, RefForm, OwnedForm}

MCClasses == {"VALUE", "ALARM"}
MCMasksBoth == {{"VALUE"}, {"ALARM"}}
MCMasksOne == {{"VALUE"}}

Scene(bursting, attached, posted, owed, toggled, ops, classes) ==
    [bursts |-> bursting, attach |-> attached, posts |-> posted, replies |-> owed,
     toggles |-> toggled, ops |-> ops, classes |-> classes]

\* Closes and cancels on a ring that fills; flow control, every form and class.
RingScenes == {Scene(1, 2, 5, 0, 0, {"close", "cancel"}, {"VALUE"}),
               Scene(1, 2, 3, 0, 1, {}, MCClasses)}

\* Two bursts and a close on two queues; replies and a cancel.
ChainScenes == {Scene(2, 2, 3, 0, 1, {"close"}, {"VALUE"}),
                Scene(1, 2, 2, 1, 1, {"cancel"}, {"VALUE"})}

\* Delivery on two queues under flow control; replies, and ends of streams.
LiveScenes == {Scene(1, 2, 3, 0, 1, {}, {"VALUE"}),
               Scene(1, 1, 2, 1, 1, {"close", "exit"}, {"VALUE"})}

Bursting == {p \in Producers : bursts[p] # [phase |-> "posting", chain |-> <<>>]}

InScene ==
    /\ Cardinality(Bursting) <= scene.bursts
    /\ Len(mons) <= scene.attach
    /\ posts <= scene.posts /\ replied <= scene.replies /\ toggles <= scene.toggles
    /\ closed => "exit" \in scene.ops
    /\ \A m \in DOMAIN mons :
            /\ mons[m].sink \/ "close" \in scene.ops
            /\ mons[m].reader \/ "cancel" \in scene.ops
            /\ mons[m].owed \subseteq scene.classes
    /\ scene.classes = MCClasses \/ \A i \in DOMAIN ques, s \in Slots :
            ques[i].subs[s] # NoSub => ques[i].subs[s].kind = "Val"

MCInit == Init /\ scene \in Scenes
MCNext == Next /\ UNCHANGED scene /\ InScene'
MCSpec == MCInit /\ [][MCNext]_<<vars, scene>>
MCFairSpec == MCSpec /\ Fairness

ActorSymmetry == Permutations(Producers) \cup Permutations(Slots)
=============================================================================
