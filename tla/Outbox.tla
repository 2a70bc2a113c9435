------------------------------- MODULE Outbox -------------------------------
(***************************************************************************)
(* The wire outbox of one asynchronous CA circuit (server/outbox.rs): the  *)
(* connection loop is the only writer of the socket and drains one queue;  *)
(* the circuit's event task (run_circuit_monitors) frames monitor updates  *)
(* into it on credit, each under the gate of its subscription, which a     *)
(* cancel revokes before it queues its confirmation.                       *)
(*                                                                         *)
(* The ring the events come from is EventUser's; here it is the set of     *)
(* subscriptions with an update waiting, coalesced.  A cancel is EVENT_    *)
(* CANCEL's, confirmed and then detached; CLEAR_CHANNEL's, whose detach    *)
(* comes before its echo (tcp.rs:2809-2831), leaves the event task less to *)
(* take and is left out.                                                   *)
(***************************************************************************)
EXTENDS Integers, Sequences, FiniteSets

CONSTANTS
    Subs,       \* subscriptions of the circuit
    Records,    \* those on a record field; the others are on a simple PV
    Credits,    \* MONITOR_CREDIT
    MayFail,    \* whether the live read of an update, or its encoding, may fail
    Replies,    \* bound: put-notify replies the event task passes on
    Posts       \* bound: updates posted

ASSUME BoundsAssumption == /\ Records \subseteq Subs /\ Credits \in Nat \ {0} /\ MayFail \in BOOLEAN
                           /\ Replies \in Nat /\ Posts \in Nat

VARIABLES
    due, denied, attached,  \* sets of subscriptions: update waiting, access denied, on the ring
    live,                   \* the subscriptions whose gate is open
    queue,                  \* the outbox
    credit,                 \* permits left in the semaphore
    epc, cur, permit,       \* the event task: its step, its subscription, whether it holds credit
    cpc, target, inflight,  \* the connection loop: its step, the cancelled one, the frame it writes
    confirmed,              \* history: the subscriptions whose confirmation is on the wire
    posted, replied         \* counts, for the bounds

eventVars == <<epc, cur, permit>>
loopVars == <<cpc, target, inflight>>
ringVars == <<due, denied, attached>>
counts == <<posted, replied>>
vars == <<ringVars, live, queue, credit, eventVars, loopVars, confirmed, counts>>

NoSub == "none"
NoFrame == [kind |-> "none", sub |-> NoSub, credit |-> FALSE]
Frame(kind, s, c) == [kind |-> kind, sub |-> s, credit |-> c]

\* The frames of a sequence that hold a credit, by their places in it.
OnCredit(frames) == {i \in DOMAIN frames : frames[i].credit}

Init ==
    /\ due = {} /\ denied = {} /\ attached = Subs /\ live = Subs
    /\ queue = <<>> /\ credit = Credits
    /\ epc = "next" /\ cur = NoSub /\ permit = FALSE
    /\ cpc = "idle" /\ target = NoSub /\ inflight = NoFrame
    /\ confirmed = {} /\ posted = 0 /\ replied = 0

Open == cpc # "closed"

-----------------------------------------------------------------------------
(* The database. *)

Post(s) ==
    /\ s \in attached /\ posted < Posts
    /\ due' = due \cup {s} /\ posted' = posted + 1
    /\ UNCHANGED <<denied, attached, live, queue, credit, eventVars, loopVars, confirmed, replied>>

\* `reeval_access_rights`: a monitor that loses read access has the denial
\* posted to it, one that regains it the current value.
Deny(s) ==
    /\ s \in attached \ denied
    /\ denied' = denied \cup {s} /\ due' = due \cup {s}
    /\ UNCHANGED <<attached, live, queue, credit, eventVars, loopVars, confirmed, counts>>

Regain(s) ==
    /\ s \in attached \cap denied /\ posted < Posts
    /\ denied' = denied \ {s} /\ due' = due \cup {s}
    /\ posted' = posted + 1
    /\ UNCHANGED <<attached, live, queue, credit, eventVars, loopVars, confirmed, replied>>

-----------------------------------------------------------------------------
(* The event task. *)

\* `push_with`: after the drain is gone the frame is dropped, and its credit.
push_with(frame) ==
    IF Open THEN queue' = Append(queue, frame) /\ credit' = credit
    ELSE queue' = queue /\ credit' = IF frame.credit THEN credit + 1 ELSE credit

Done == epc' = "next" /\ cur' = NoSub /\ permit' = FALSE

\* `poll_next` hands out the next update; a denied one goes no further.  The
\* end of a stream (`m.ended`, tcp.rs:7599) is left out: its subscription has no
\* update any more.
Take(s) ==
    /\ epc = "next" /\ s \in due
    /\ due' = due \ {s}
    /\ cur' = s
    /\ epc' = IF s \in denied THEN "denied" ELSE IF s \in Records THEN "read" ELSE "reserve"
    /\ UNCHANGED <<denied, attached, live, queue, credit, permit, loopVars, confirmed, counts>>

\* A put-notify reply that comes through the same task.
PassReply ==
    /\ epc = "next" /\ replied < Replies
    /\ push_with(Frame("reply", NoSub, FALSE))
    /\ replied' = replied + 1
    /\ UNCHANGED <<ringVars, live, eventVars, loopVars, confirmed, posted>>

\* Mutant of gate_deliver: the gate is not looked at again.
gate_deliver_Early(s, frame) == push_with(frame)

\* Inside the gate: the frame if the subscription is live, nothing if not.
gate_deliver(s, frame) ==
    IF s \in live THEN push_with(frame)
    ELSE queue' = queue /\ credit' = IF frame.credit THEN credit + 1 ELSE credit

send_denied_event ==
    /\ epc = "denied"
    /\ gate_deliver(cur, Frame("status", cur, FALSE))
    /\ Done
    /\ UNCHANGED <<ringVars, live, loopVars, confirmed, counts>>

\* `reserve`: parks while there is no credit.
reserve ==
    /\ epc = "reserve" /\ credit > 0
    /\ credit' = credit - 1
    /\ permit' = TRUE
    /\ epc' = IF cur \in Records THEN "deliver" ELSE "read"
    /\ UNCHANGED <<ringVars, live, queue, cur, loopVars, confirmed, counts>>

\* `with_live_options` and the encoding of a record's update.  Left out: an
\* update refused as too large for the client's protocol or with nothing to send
\* (tcp.rs:7663, :7696; monitor.rs:106, :120), which ends with no update queued
\* and the credit, if there is one, dropped.
ReadOk ==
    /\ epc = "read"
    /\ epc' = IF cur \in Records THEN "reserve" ELSE "deliver"
    /\ UNCHANGED <<ringVars, live, queue, credit, cur, permit, loopVars, confirmed, counts>>

\* A failed read is answered by send_get_fail_event, which pushes an update
\* without credit and without the gate.
ReadFails ==
    /\ MayFail /\ epc = "read"
    /\ LET held == IF permit THEN 1 ELSE 0
       IN  IF Open THEN queue' = Append(queue, Frame("status", cur, FALSE)) /\ credit' = credit + held
           ELSE queue' = queue /\ credit' = credit + held
    /\ Done
    /\ UNCHANGED <<ringVars, live, loopVars, confirmed, counts>>

\* The update of a record, or `send_event` of a simple PV.
Deliver ==
    /\ epc = "deliver"
    /\ gate_deliver(cur, Frame("update", cur, permit))
    /\ Done
    /\ UNCHANGED <<ringVars, live, loopVars, confirmed, counts>>

\* `send_event` of a simple PV, inside the gate: a failed encoding sends a
\* status frame, and the unspent credit goes.
DeliverUnsent ==
    /\ MayFail /\ epc = "deliver" /\ cur \notin Records
    /\ queue' = IF cur \in live /\ Open THEN Append(queue, Frame("status", cur, FALSE)) ELSE queue
    /\ credit' = credit + 1
    /\ Done
    /\ UNCHANGED <<ringVars, live, loopVars, confirmed, counts>>

\* The circuit's end aborts the task where it waits.
Abort ==
    /\ ~Open /\ epc \in {"next", "reserve"}
    /\ epc' = "gone" /\ cur' = NoSub
    /\ UNCHANGED <<ringVars, live, queue, credit, permit, loopVars, confirmed, counts>>

-----------------------------------------------------------------------------
(* The connection loop. *)

\* EVENT_CANCEL: the gate is revoked first.
revoke(s) ==
    /\ cpc = "idle" /\ s \in attached
    /\ live' = live \ {s}
    /\ target' = s /\ cpc' = "confirm"
    /\ UNCHANGED <<ringVars, queue, credit, eventVars, inflight, confirmed, counts>>

\* Mutant of Confirm: it waits for the delivery under way.
Confirm_AwaitsDelivery ==
    /\ cpc = "confirm" /\ cur # target
    /\ queue' = Append(queue, Frame("confirm", target, FALSE))
    /\ cpc' = "detach"
    /\ UNCHANGED <<ringVars, live, credit, eventVars, target, inflight, confirmed, counts>>

\* The confirmation is queued, then the subscriber removed with what its
\* ring still holds, and the dispatch's replies are drained.
Confirm ==
    /\ cpc = "confirm"
    /\ queue' = Append(queue, Frame("confirm", target, FALSE))
    /\ cpc' = "detach"
    /\ UNCHANGED <<ringVars, live, credit, eventVars, target, inflight, confirmed, counts>>

Detach ==
    /\ cpc = "detach"
    /\ attached' = attached \ {target} /\ due' = due \ {target}
    /\ target' = NoSub /\ cpc' = "drain"
    /\ UNCHANGED <<denied, live, queue, credit, eventVars, inflight, confirmed, counts>>

\* `outbox_drain.recv` with nothing to read, then `drain_and_flush`.
TryNext ==
    /\ cpc \in {"idle", "drain"} /\ inflight = NoFrame
    /\ IF queue # <<>>
       THEN inflight' = Head(queue) /\ queue' = Tail(queue) /\ cpc' = "drain"
       ELSE cpc = "drain" /\ cpc' = "idle" /\ UNCHANGED <<inflight, queue>>
    /\ UNCHANGED <<ringVars, live, credit, eventVars, target, confirmed, counts>>

\* `write_all` returns: the frame is dropped, and its credit.
Write ==
    /\ inflight # NoFrame
    /\ credit' = IF inflight.credit THEN credit + 1 ELSE credit
    /\ confirmed' = IF inflight.kind = "confirm" THEN confirmed \cup {inflight.sub} ELSE confirmed
    /\ inflight' = NoFrame
    /\ UNCHANGED <<ringVars, live, queue, eventVars, cpc, target, counts>>

\* The peer goes, or a write fails: every gate is revoked, every subscriber
\* removed, and the drain dropped with what it holds.
Disconnect ==
    /\ cpc \in {"idle", "drain"}
    /\ live' = {} /\ attached' = {} /\ due' = {}
    /\ credit' = credit + Cardinality(OnCredit(queue))
                        + IF inflight.credit THEN 1 ELSE 0
    /\ queue' = <<>> /\ inflight' = NoFrame
    /\ cpc' = "closed"
    /\ UNCHANGED <<denied, eventVars, target, confirmed, counts>>

-----------------------------------------------------------------------------
EventStep ==
    \/ \E s \in Subs : Take(s)
    \/ PassReply \/ send_denied_event \/ reserve \/ ReadOk \/ ReadFails \/ Deliver \/ DeliverUnsent \/ Abort

LoopStep == Confirm \/ Detach \/ TryNext \/ Write

Next ==
    \/ \E s \in Subs : Post(s) \/ Deny(s) \/ Regain(s) \/ revoke(s)
    \/ EventStep \/ LoopStep \/ Disconnect

Spec == Init /\ [][Next]_vars

\* Both tasks run and the client reads; posts, cancels and the end of the
\* circuit need not come.
Fairness == WF_vars(EventStep) /\ WF_vars(LoopStep)

FairSpec == Spec /\ Fairness

-----------------------------------------------------------------------------
\* What is in the writer and what waits, in the order it is written.
Unwritten == IF inflight = NoFrame THEN queue ELSE <<inflight>> \o queue

TypeOK ==
    /\ due \subseteq Subs /\ denied \subseteq Subs /\ attached \subseteq Subs /\ live \subseteq Subs
    /\ credit \in 0 .. Credits /\ permit \in BOOLEAN
    /\ epc \in {"next", "denied", "read", "reserve", "deliver", "gone"} /\ cur \in Subs \cup {NoSub}
    /\ cpc \in {"idle", "confirm", "detach", "drain", "closed"} /\ target \in Subs \cup {NoSub}

\* No credit is lost or minted on any path: a frame written, discarded by its
\* gate, dropped with the circuit, or never built gives its permit back.
CreditsConserved ==
    credit + (IF permit THEN 1 ELSE 0) + Cardinality(OnCredit(Unwritten)) = Credits

\* Updates that carry a value are never queued or in the writer beyond the
\* credit, however slow the client.
UpdatesBounded == Cardinality({i \in DOMAIN Unwritten : Unwritten[i].kind = "update"}) <= Credits

\* The i-th frame not yet written goes out before its cancel's confirmation.
Ahead(i) ==
    /\ Unwritten[i].sub \notin confirmed
    /\ \A j \in 1 .. i - 1 : ~(Unwritten[j].kind = "confirm" /\ Unwritten[j].sub = Unwritten[i].sub)

\* On the wire, no monitor frame of a subscription follows the confirmation
\* of its cancel (`revoke` before the confirmation, `deliver` as one step).
NoneAfterConfirm == \A i \in DOMAIN Unwritten : Unwritten[i].kind \in {"update", "status"} => Ahead(i)

\* The same of the frames that carry a value, which are built under the gate.
NoValueAfterConfirm == \A i \in DOMAIN Unwritten : Unwritten[i].kind = "update" => Ahead(i)

\* A CA circuit's credit is conserved whatever fails, no more updates wait than
\* there is credit, and no value follows the confirmation of its cancel.
OutboxSound == TypeOK /\ CreditsConserved /\ UpdatesBounded /\ NoValueAfterConfirm

\* A posted update is taken off the ring whatever the queue holds: a client
\* that reads is served, and a cancel or the circuit's end ends the wait.
UpdatesTaken == \A s \in Subs : (s \in due) ~> (s \notin due)

\* A cancel is confirmed, though the event task may be waiting for credit
\* only the confirming loop releases.
CancelConfirmed == \A s \in Subs : (cpc = "confirm" /\ target = s) ~> (s \in confirmed \/ cpc = "closed")
=============================================================================
