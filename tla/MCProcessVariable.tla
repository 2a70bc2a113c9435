------------------------- MODULE MCProcessVariable -------------------------
(***************************************************************************)
(* ProcessVariable for TLC.  A behaviour plays one scene, the clients that *)
(* act and their bounds:                                                   *)
(*   writes    three writes on a PV ready, made ready or destroyed         *)
(*   list      two monitors, one setter, three values                      *)
(*   crossing  one monitor, two threads that set and post alarms           *)
(*   reads     two reads, a monitor and two values                         *)
(* Setters are alike, so the one that makes the PV ready is u1.            *)
(***************************************************************************)
EXTENDS ProcessVariable, TLC

CONSTANTS u1, u2, m1, m2, g1, g2, x1, x2, x3

TwoSetters == {u1, u2}
TwoMonitors == {m1, m2}
TwoGetters == {g1, g2}
ThreeWrites == {x1, x2, x3}

VARIABLE scene

\* Writes are alike, so the put callbacks among them come first.
InOrder == (notify[x3] => notify[x2]) /\ (notify[x2] => notify[x1])
NoWrites == wst = [w \in Writes |-> "new"] /\ \A w \in Writes : ~notify[w]
NoMonitors == mpc = [m \in Monitors |-> "new"]
OneSetter == spc[u2] = "idle"
NoPosts == spc[u1] \notin {"meta", "deliver", "post"}
NoReads == gpc = [g \in Getters |-> "start"]

NoLoss == rights = [m \in Monitors |-> "read"]

InScene ==
    \/ scene = "writes" /\ InOrder /\ NoMonitors /\ NoReads /\ OneSetter /\ NoPosts /\ value <= 1
    \/ scene = "list" /\ NoWrites /\ NoReads /\ OneSetter
    \/ scene = "crossing" /\ NoWrites /\ NoReads /\ mpc[m2] = "new"
       /\ spc[u2] \notin {"drain", "first", "wake"}
    \/ scene = "reads" /\ NoWrites /\ NoLoss /\ mpc[m2] = "new" /\ OneSetter /\ value <= 2

MCInit == scene \in {"writes", "list", "crossing", "reads"} /\ Init /\ InScene
MCNext == Next /\ UNCHANGED scene /\ InScene'
MCSpec == MCInit /\ [][MCNext]_<<scene, vars>> /\ Fairness
=============================================================================
