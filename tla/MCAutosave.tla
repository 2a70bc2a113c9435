----------------------------- MODULE MCAutosave -----------------------------
(***************************************************************************)
(* Autosave for TLC.  A behaviour plays one scene: crashes of the process, *)
(* failing operations and sequence files; losses of power, with crashes;   *)
(* or a file damaged from outside, with crashes.                           *)
(***************************************************************************)
EXTENDS Autosave

VARIABLE scene

InScene ==
    CASE scene = "crash" -> TRUE
      [] scene = "power" -> seqs <= 1 /\ crashes + losses <= MaxLosses
      [] scene = "damage" -> seqs <= 2 /\ errors <= 1

MCInit == Init /\ scene \in {"crash", "power", "damage"}
MCNext == /\ UNCHANGED scene
          /\ \/ SaveStep \/ Crash \/ Boot
             \/ scene = "power" /\ LosePower
             \/ scene = "damage" /\ \E f \in Files : Damage(f)
          /\ InScene'
MCSpec == MCInit /\ [][MCNext]_<<scene, vars>>
=============================================================================
