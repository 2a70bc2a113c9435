--------------------------- MODULE MCServerOutput ---------------------------
(***************************************************************************)
(* An instance of each server's monitor output: the CA server's Outbox and *)
(* the PVA server's MonitorControl, with a receiver and with an external   *)
(* consumer.  They share no state, so one of them moves in a behaviour and *)
(* the other stays as it starts.                                           *)
(***************************************************************************)
EXTENDS Outbox, MonitorControl, TLC

CONSTANTS s1, s2, p1, p2

TwoSubs == {s1, s2}
OneRecord == {s1}
TwoProducers == {p1, p2}

VARIABLE moving

allVars == <<moving, vars, gateVars>>

MCInit == Init /\ GateInit /\ moving \in {"outbox", "gate"} /\ (moving = "outbox" => owned)

MCNext ==
    /\ UNCHANGED moving
    /\ \/ moving = "outbox" /\ Next /\ UNCHANGED gateVars
       \/ moving = "gate" /\ GateNext /\ UNCHANGED vars

MCSpec == MCInit /\ [][MCNext]_allVars /\ (moving = "outbox" => Fairness)

\* With a client that reads, every posted update leaves its ring and every
\* cancel is confirmed, each waiting for what only the other may release.
OutboxServes == UpdatesTaken /\ CancelConfirmed
=============================================================================
