--------------------------- MODULE MonitorControl ---------------------------
(***************************************************************************)
(* The producer-side monitor output of the PVA server (server_native/      *)
(* monitor_control.rs): a bounded channel with a count of the values sent  *)
(* and not yet consumed, which try_post tests against a watermark.         *)
(*                                                                         *)
(* The count is kept beside the channel: the producer adds after its send, *)
(* the consumer subtracts after its receive, saturating at zero.           *)
(***************************************************************************)
EXTENDS Integers, FiniteSets

CONSTANTS
    Producers,      \* clones of the control op, each on a thread of its own
    Capacity,       \* of the channel
    Watermark,      \* the high watermark; zero disables the gate
    MaxPosts        \* bound: how often each producer posts

ASSUME GateBounds ==
    /\ Capacity \in Nat \ {0} /\ Watermark \in 0 .. Capacity
    /\ MaxPosts \in Nat /\ IsFiniteSet(Producers)

VARIABLES
    owned,              \* whether the consumer is a MonitorReceiver or calls note_consumed
    channel,            \* how many values are in the channel
    pending,
    ppc, left,          \* each producer: its step and the posts it has left
    consumer, taken,    \* the consumer: its step, the values it has yet to note
    gone                \* the receiver has been dropped

gateVars == <<owned, channel, pending, ppc, left, consumer, taken, gone>>

GateInit ==
    /\ owned \in BOOLEAN /\ channel = 0 /\ pending = 0
    /\ ppc = [p \in Producers |-> "idle"] /\ left = [p \in Producers |-> MaxPosts]
    /\ consumer = "idle" /\ taken = 0 /\ gone = FALSE

-----------------------------------------------------------------------------
\* `try_post`: over the watermark it is refused; the send is another step.
try_post(p) ==
    /\ ppc[p] = "idle" /\ left[p] > 0
    /\ IF Watermark > 0 /\ pending >= Watermark
       THEN UNCHANGED ppc
       ELSE ppc' = [ppc EXCEPT ![p] = "send"]
    /\ left' = [left EXCEPT ![p] = @ - 1]
    /\ UNCHANGED <<owned, channel, pending, consumer, taken, gone>>

\* `force_post` begins at the send.
force_post(p) ==
    /\ ppc[p] = "idle" /\ left[p] > 0
    /\ ppc' = [ppc EXCEPT ![p] = "send"]
    /\ left' = [left EXCEPT ![p] = @ - 1]
    /\ UNCHANGED <<owned, channel, pending, consumer, taken, gone>>

\* `try_send`: full or closed gives the value back.
TrySend(p) ==
    /\ ppc[p] = "send"
    /\ IF gone \/ channel >= Capacity
       THEN ppc' = [ppc EXCEPT ![p] = "idle"] /\ UNCHANGED channel
       ELSE ppc' = [ppc EXCEPT ![p] = "add"] /\ channel' = channel + 1
    /\ UNCHANGED <<owned, pending, left, consumer, taken, gone>>

\* Mutant of Add: a value sent is not counted.
Add_Not(p) ==
    /\ ppc[p] = "add"
    /\ pending' = pending
    /\ ppc' = [ppc EXCEPT ![p] = "idle"]
    /\ UNCHANGED <<owned, channel, left, consumer, taken, gone>>

Add(p) ==
    /\ ppc[p] = "add"
    /\ pending' = pending + 1
    /\ ppc' = [ppc EXCEPT ![p] = "idle"]
    /\ UNCHANGED <<owned, channel, left, consumer, taken, gone>>

-----------------------------------------------------------------------------
\* `recv` and `try_recv` note each value; the external consumer of
\* from_sender may take several and note them together.
Receive ==
    /\ channel > 0 /\ ~gone
    /\ consumer = "idle"
    /\ channel' = channel - 1
    /\ taken' = taken + 1
    /\ consumer' = IF owned THEN "note" ELSE "idle"
    /\ UNCHANGED <<owned, pending, ppc, left, gone>>

NoteBatch ==
    /\ ~owned /\ consumer = "idle" /\ taken > 0
    /\ consumer' = "note"
    /\ UNCHANGED <<owned, channel, pending, ppc, left, taken, gone>>

\* `note_one`, `note_consumed`: a saturating subtraction.
note_consumed ==
    /\ consumer = "note"
    /\ pending' = IF pending > taken THEN pending - taken ELSE 0
    /\ taken' = 0 /\ consumer' = "idle"
    /\ UNCHANGED <<owned, channel, ppc, left, gone>>

DropReceiver ==
    /\ ~gone /\ consumer = "idle"
    /\ gone' = TRUE
    /\ channel' = 0
    /\ UNCHANGED <<owned, pending, ppc, left, consumer, taken>>

GateNext ==
    \/ \E p \in Producers : try_post(p) \/ force_post(p) \/ TrySend(p) \/ Add(p)
    \/ Receive \/ NoteBatch \/ note_consumed \/ DropReceiver

GateSpec == GateInit /\ [][GateNext]_gateVars

-----------------------------------------------------------------------------
GateTypeOK ==
    /\ owned \in BOOLEAN /\ channel \in Nat /\ pending \in Nat /\ taken \in Nat /\ gone \in BOOLEAN
    /\ ppc \in [Producers -> {"idle", "send", "add"}] /\ left \in [Producers -> 0 .. MaxPosts]
    /\ consumer \in {"idle", "note"}

\* The hard ceiling: however many producers pass the gate together, what
\* waits never exceeds the channel's capacity.
NeverOverfull == channel <= Capacity

\* The count is never short of the channel's: with nobody between a send and
\* its add, the gate is never open by a count that misses waiting values.
CountsWaiting == (~gone /\ \A p \in Producers : ppc[p] # "add") => pending >= channel

\* Producers that pass the gate together never overfill the channel
\* (`try_post`, `force_post`), and the count never misses a value that is
\* waiting, whoever consumes.
GateSound == GateTypeOK /\ NeverOverfull /\ CountsWaiting
=============================================================================
