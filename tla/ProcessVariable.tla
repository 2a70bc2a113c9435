--------------------------- MODULE ProcessVariable ---------------------------
(***************************************************************************)
(* A PV with no record behind it (server/pv.rs): its stored value and the  *)
(* metadata posted with it, its monitors, and, for a gateway's PV, the     *)
(* time it is pending (no value yet), the reads parked and the writes held *)
(* meanwhile, the put callbacks in flight and the writes postponed on      *)
(* them.  The monitor list is SubscriberList's promise: a list replaced in *)
(* one step.                                                               *)
(*                                                                         *)
(* Values are numbered in the order they are stored, so "older" is "less". *)
(* The value lock is the set of its read holders: every write hold is one  *)
(* step, or is turned into a read hold in the step that takes it.  Each    *)
(* monitor selects a class every post here carries (DBE_LOG, or both       *)
(* DBE_VALUE and DBE_ALARM); post_property's class is its own, and its     *)
(* value the caller's, so it is left out.                                  *)
(***************************************************************************)
EXTENDS Integers, Sequences, SequencesExt, FiniteSets

CONSTANTS
    Setters,    \* threads that set the value, post an alarm, make the PV ready
    Monitors,   \* the monitors clients add
    Getters,    \* reads that wait for the PV to be ready
    Writes,     \* client writes that go through the write hook
    MAX_SIMUL_WRITE_IO,
    MaxSets     \* bound on the stored values

Nobody == "nobody"

\* Each name stands for one thing, and a put callback may be in flight (it is
\* 100 in the code, and with none a postponed write would wait for ever).
ASSUME Bounds ==
    /\ Setters \cap Monitors = {} /\ Setters \cap Writes = {}
    /\ Nobody \notin Setters \cup Writes
    /\ IsFiniteSet(Writes)
    /\ MAX_SIMUL_WRITE_IO \in Nat \ {0} /\ MaxSets \in Nat

VARIABLES
    value, posted_meta, readers, pending,
    crossed,                               \* history: the last store met a post under way
    listed, destroyed,                     \* the monitor list and its closed state
    spc, cur, todo,                        \* each setter: step, its value, who to post to
    mpc, rights,                           \* each monitor: step, its client's read access
    last, most, firsts,                    \* last and newest value queued to it, first events
    gpc, notified,                         \* each read, and the ones a wake has reached
    heldBy, held, in_flight, epoch,        \* the write IO; epoch counts its signals
    wst, notify, end, seen,                \* each write, its WriteEnd
    sent, arrived,                         \* history: what upstream got, what was held
    dpc                                    \* the destroy

monitorVars == <<mpc, rights, last, most, firsts>>
valueVars == <<value, posted_meta, readers, pending, crossed>>
setterVars == <<spc, cur, todo>>
getterVars == <<gpc, notified>>
writeVars == <<heldBy, held, in_flight, epoch, wst, notify, end, seen, sent, arrived>>
listVars == <<listed, destroyed>>
vars == <<valueVars, listVars, setterVars, monitorVars, getterVars, writeVars, dpc>>

\* A PV is created with its value, or (`pending`) without one.
Init ==
    /\ value = 0 /\ posted_meta = 0 /\ readers = {} /\ pending \in BOOLEAN
    /\ crossed = FALSE
    /\ listed = <<>> /\ destroyed = FALSE
    /\ spc = [s \in Setters |-> "idle"] /\ cur = [s \in Setters |-> 0]
    /\ todo = [s \in Setters |-> <<>>]
    /\ mpc = [m \in Monitors |-> "new"] /\ rights = [m \in Monitors |-> "read"]
    /\ last = [m \in Monitors |-> -1] /\ most = last /\ firsts = [m \in Monitors |-> 0]
    /\ gpc = [g \in Getters |-> "start"] /\ notified = {}
    /\ heldBy = Nobody /\ held = <<>> /\ in_flight = 0 /\ epoch = 0
    /\ wst = [w \in Writes |-> "new"] /\ notify \in [Writes -> BOOLEAN]
    /\ end = [w \in Writes |-> "none"] /\ seen = [w \in Writes |-> 0] /\ sent = <<>> /\ arrived = <<>>
    /\ dpc = "idle"

-----------------------------------------------------------------------------
(* set and set_snapshot: three holds, one after the other.                 *)

\* A store meets a post under way of an older value, which may come last.
Posting(s) == spc[s] \in {"meta", "deliver", "post", "first"}
Stores(s) == crossed' = \E x \in Setters \ {s} : Posting(x)

\* The new value, under the write hold alone.
SetValue(s) ==
    /\ spc[s] = "idle" /\ readers = {} /\ value < MaxSets
    /\ value' = value + 1
    /\ Stores(s)
    /\ cur' = [cur EXCEPT ![s] = value + 1]
    /\ spc' = [spc EXCEPT ![s] = "meta"]
    /\ UNCHANGED <<posted_meta, readers, pending, listVars, todo, monitorVars, getterVars, writeVars, dpc>>

SetMeta(s) ==
    /\ spc[s] = "meta"
    /\ posted_meta' = cur[s]
    /\ spc' = [spc EXCEPT ![s] = "deliver"]
    /\ UNCHANGED <<value, readers, pending, crossed, listVars, cur, todo, monitorVars, getterVars, writeVars, dpc>>

\* `post_alarm`: the value is read in a hold of its own, then delivered as it was.
post_alarm(s) ==
    /\ spc[s] = "idle"
    /\ cur' = [cur EXCEPT ![s] = value]
    /\ spc' = [spc EXCEPT ![s] = "deliver"]
    /\ UNCHANGED <<valueVars, listVars, todo, monitorVars, getterVars, writeVars, dpc>>

\* `deliver`: a pending PV posts nothing, else the list is loaded once.
deliver(s) ==
    /\ spc[s] = "deliver"
    /\ todo' = [todo EXCEPT ![s] = IF pending THEN <<>> ELSE listed]
    /\ spc' = [spc EXCEPT ![s] = IF pending THEN "idle" ELSE "post"]
    /\ UNCHANGED <<valueVars, listVars, cur, monitorVars, getterVars, writeVars, dpc>>

\* One monitor's post; one taken off meanwhile has a closed queue.
Cut(m) == mpc[m] \in {"cut", "gone"}
Queue(m, v) ==
    /\ last' = [last EXCEPT ![m] = IF Cut(m) THEN @ ELSE v]
    /\ most' = [most EXCEPT ![m] = IF Cut(m) \/ v <= @ THEN @ ELSE v]

\* `is_active`: a monitor whose client may not read is disabled.
Active(m) == rights[m] # "none"

Post(s) ==
    /\ spc[s] = "post"
    /\ IF todo[s] = <<>>
       THEN /\ spc' = [spc EXCEPT ![s] = "idle"]
            /\ UNCHANGED <<todo, last, most>>
       ELSE /\ IF Active(Head(todo[s]))
               THEN Queue(Head(todo[s]), cur[s])
               ELSE UNCHANGED <<last, most>>
            /\ todo' = [todo EXCEPT ![s] = Tail(@)]
            /\ UNCHANGED spc
    /\ UNCHANGED <<valueVars, listVars, cur, mpc, rights, firsts, getterVars, writeVars, dpc>>

-----------------------------------------------------------------------------
(* Write IO: post, signal and the end a client holds.                      *)

signal == epoch' = epoch + 1

\* Mutant of PostEnd: nobody is told of an end nobody waits for.
PostEnd_NoSignal(w) ==
    /\ end' = [end EXCEPT ![w] = IF @ = "closed" THEN "gone" ELSE "posted"]
    /\ UNCHANGED epoch

\* `WriteIo::post`: to the end, or past a dropped end to the waiting writes.
PostEnd(w) ==
    IF end[w] = "closed"
    THEN end' = [end EXCEPT ![w] = "gone"] /\ signal
    ELSE end' = [end EXCEPT ![w] = "posted"] /\ UNCHANGED epoch

\* Handed to upstream as a put callback (one that cannot be sent drops its
\* WriteDone, which ends as an answer does) or as a plain write.
Sent(w, was) == sent' = Append(sent, [write |-> w, held |-> was])

-----------------------------------------------------------------------------
\* Mutant of make_ready: the PV is ready before its held writes are sent.
make_ready_ClearsFirst(s) ==
    /\ spc[s] = "idle" /\ heldBy = Nobody /\ pending /\ value < MaxSets
    /\ pending' = FALSE
    /\ spc' = [spc EXCEPT ![s] = "drain"]
    /\ UNCHANGED <<value, posted_meta, readers, crossed, listVars, cur, todo, monitorVars, getterVars,
                   writeVars, dpc>>

(* make_ready: with the held-writes lock from start to end.                *)
make_ready(s) ==
    /\ spc[s] = "idle" /\ heldBy = Nobody /\ pending /\ value < MaxSets
    /\ heldBy' = s
    /\ spc' = [spc EXCEPT ![s] = "drain"]
    /\ UNCHANGED <<valueVars, listVars, cur, todo, monitorVars, getterVars, held, in_flight,
                   epoch, wst, notify, end, seen, sent, arrived, dpc>>

\* Each held write is sent, in order, before anything is answered.
SendHeld(s) ==
    /\ spc[s] = "drain" /\ held # <<>>
    /\ LET w == Head(held) IN
       /\ held' = Tail(held)
       /\ Sent(w, TRUE)
       /\ IF notify[w]
          THEN /\ in_flight' = in_flight + 1
               /\ wst' = [wst EXCEPT ![w] = "flight"]
               /\ UNCHANGED <<end, epoch>>
          ELSE /\ PostEnd(w)
               /\ wst' = [wst EXCEPT ![w] = "over"]
               /\ UNCHANGED in_flight
    /\ UNCHANGED <<valueVars, listVars, setterVars, monitorVars, getterVars, heldBy,
                   notify, seen, arrived, dpc>>

\* In one write hold the value and its metadata are stored, `pending` ends and
\* the waiting monitors are read; the hold goes on as a read hold.
StoreReady(s) ==
    /\ spc[s] = "drain" /\ held = <<>> /\ readers = {}
    /\ value' = value + 1
    /\ posted_meta' = value + 1
    /\ Stores(s)
    /\ cur' = [cur EXCEPT ![s] = value + 1]
    /\ pending' = FALSE
    /\ todo' = [todo EXCEPT ![s] = listed]
    /\ readers' = {s}
    /\ spc' = [spc EXCEPT ![s] = "first"]
    /\ UNCHANGED <<listVars, monitorVars, getterVars, writeVars, dpc>>

\* `post_single`: the first event of a monitor.
FirstEvent(m, v) ==
    /\ Queue(m, v)
    /\ firsts' = [firsts EXCEPT ![m] = IF Cut(m) THEN @ ELSE @ + 1]

\* Each waiting monitor's first event; then both locks are released.
PostFirst(s) ==
    /\ spc[s] = "first"
    /\ IF todo[s] # <<>>
       THEN /\ FirstEvent(Head(todo[s]), cur[s])
            /\ todo' = [todo EXCEPT ![s] = Tail(@)]
            /\ UNCHANGED <<spc, readers, heldBy>>
       ELSE /\ readers' = readers \ {s}
            /\ heldBy' = Nobody
            /\ spc' = [spc EXCEPT ![s] = "wake"]
            /\ UNCHANGED <<last, most, firsts, todo>>
    /\ UNCHANGED <<value, posted_meta, pending, crossed, listVars, cur, mpc, rights, getterVars, held,
                   in_flight, epoch, wst, notify, end, seen, sent, arrived, dpc>>

\* `Notify::notify_waiters`: every read registered now, and no later one.
notify_waiters == notified' = notified \cup {g \in Getters : gpc[g] \in {"ready?", "gone?", "parked"}}

WakeReads(s) ==
    /\ spc[s] = "wake"
    /\ notify_waiters
    /\ spc' = [spc EXCEPT ![s] = "idle"]
    /\ UNCHANGED <<valueVars, listVars, cur, todo, monitorVars, gpc, writeVars, dpc>>

-----------------------------------------------------------------------------
(* Monitors.                                                               *)

\* `add_monitor_on`: one read hold over the attach and the first event.
AddBegin(m) ==
    /\ mpc[m] = "new"
    /\ readers' = readers \cup {m}
    /\ mpc' = [mpc EXCEPT ![m] = "attach"]
    /\ UNCHANGED <<value, posted_meta, pending, crossed, listVars, setterVars, rights, last, most, firsts, getterVars, writeVars, dpc>>

\* Mutant of attach: the value's read lock is let go at the attach.
attach_Unheld(m) ==
    /\ mpc[m] = "attach"
    /\ readers' = readers \ {m}
    /\ IF destroyed
       THEN /\ mpc' = [mpc EXCEPT ![m] = "gone"]
            /\ UNCHANGED listed
       ELSE /\ listed' = Append(listed, m)
            /\ mpc' = [mpc EXCEPT ![m] = "first"]
    /\ UNCHANGED <<value, posted_meta, pending, crossed, destroyed, setterVars, rights, last, most, firsts, getterVars, writeVars, dpc>>

attach(m) ==
    /\ mpc[m] = "attach"
    /\ IF destroyed
       THEN /\ mpc' = [mpc EXCEPT ![m] = "gone"]
            /\ readers' = readers \ {m}
            /\ UNCHANGED listed
       ELSE /\ listed' = Append(listed, m)
            /\ mpc' = [mpc EXCEPT ![m] = "first"]
            /\ UNCHANGED readers
    /\ UNCHANGED <<value, posted_meta, pending, crossed, destroyed, setterVars, rights, last, most, firsts, getterVars, writeVars, dpc>>

\* `post_single_held`: on a pending PV the first event is make_ready's.
post_single_held(m) ==
    IF pending \/ m \notin Range(listed) THEN UNCHANGED <<last, most, firsts>> ELSE FirstEvent(m, value)

AddEnd(m) ==
    /\ mpc[m] \in {"first", "cut"}
    /\ post_single_held(m)
    /\ readers' = readers \ {m}
    /\ mpc' = [mpc EXCEPT ![m] = IF @ = "cut" THEN "gone" ELSE "on"]
    /\ UNCHANGED <<value, posted_meta, pending, crossed, listVars, setterVars, rights, getterVars, writeVars, dpc>>

\* A later `post_single_event`: the value is read and queued in one hold.
post_single_event(m) == IF pending THEN UNCHANGED <<last, most>> ELSE Queue(m, value)

\* The client loses read access (`reeval_access_rights`): its monitor gets one
\* event, which the circuit answers with the refusal, and then is disabled.
LoseRead(m) ==
    /\ mpc[m] = "on" /\ rights[m] = "read"
    /\ post_single_event(m)
    /\ rights' = [rights EXCEPT ![m] = "lost"]
    /\ UNCHANGED <<valueVars, listVars, setterVars, mpc, firsts, getterVars, writeVars, dpc>>

Disable(m) ==
    /\ mpc[m] = "on" /\ rights[m] = "lost"
    /\ rights' = [rights EXCEPT ![m] = "none"]
    /\ UNCHANGED <<valueVars, listVars, setterVars, mpc, last, most, firsts, getterVars, writeVars, dpc>>

\* It regains it: the monitor is enabled first, then gets the value.
RegainRead(m) ==
    /\ mpc[m] = "on" /\ rights[m] = "none"
    /\ rights' = [rights EXCEPT ![m] = "gained"]
    /\ UNCHANGED <<valueVars, listVars, setterVars, mpc, last, most, firsts, getterVars, writeVars, dpc>>

PostRegained(m) ==
    /\ mpc[m] = "on" /\ rights[m] = "gained"
    /\ post_single_event(m)
    /\ rights' = [rights EXCEPT ![m] = "read"]
    /\ UNCHANGED <<valueVars, listVars, setterVars, mpc, firsts, getterVars, writeVars, dpc>>

\* By the client's own circuit, so not between two steps of the above.
remove_subscriber(m) ==
    /\ mpc[m] = "on" /\ rights[m] \in {"read", "none"}
    /\ \E i \in DOMAIN listed : listed[i] = m /\ listed' = RemoveAt(listed, i)
    /\ mpc' = [mpc EXCEPT ![m] = "gone"]
    /\ UNCHANGED <<valueVars, destroyed, setterVars, rights, last, most, firsts, getterVars, writeVars, dpc>>

-----------------------------------------------------------------------------
(* Reads: `until_ready` registers for the wake, looks, then waits.         *)
Registered(g) == notified' = notified \ {g}

Register(g) ==
    /\ \/ gpc[g] = "start"
       \/ gpc[g] = "parked" /\ g \in notified
    /\ Registered(g)
    /\ gpc' = [gpc EXCEPT ![g] = "ready?"]
    /\ UNCHANGED <<valueVars, listVars, setterVars, monitorVars, writeVars, dpc>>

LookReady(g) ==
    /\ gpc[g] = "ready?"
    /\ gpc' = [gpc EXCEPT ![g] = IF pending THEN "gone?" ELSE "answered"]
    /\ UNCHANGED <<valueVars, listVars, setterVars, monitorVars, notified, writeVars, dpc>>

LookGone(g) ==
    /\ gpc[g] = "gone?"
    /\ gpc' = [gpc EXCEPT ![g] = IF destroyed THEN "failed" ELSE "parked"]
    /\ UNCHANGED <<valueVars, listVars, setterVars, monitorVars, notified, writeVars, dpc>>

-----------------------------------------------------------------------------
(* forward_write: under the held-writes lock until the write is counted.   *)
Refused(w) == wst' = [wst EXCEPT ![w] = "over"] /\ UNCHANGED <<held, arrived, end, seen, heldBy>>

Postponed(w) ==
    /\ wst' = [wst EXCEPT ![w] = "postponed"]
    /\ seen' = [seen EXCEPT ![w] = epoch]
    /\ UNCHANGED <<held, arrived, end, heldBy>>

Hold(w) ==
    /\ held' = Append(held, w)
    /\ arrived' = Append(arrived, w)
    /\ end' = [end EXCEPT ![w] = "live"]
    /\ wst' = [wst EXCEPT ![w] = "held"]
    /\ UNCHANGED <<seen, heldBy>>

\* A first look at the count keeps the lock for the second.
Look(w) ==
    /\ heldBy' = w
    /\ wst' = [wst EXCEPT ![w] = IF in_flight >= MAX_SIMUL_WRITE_IO THEN "full" ELSE "room"]
    /\ UNCHANGED <<held, arrived, end, seen>>

Requested(w) ==
    \/ wst[w] = "new"
    \/ wst[w] = "postponed" /\ seen[w] # epoch

forward_write(w) ==
    /\ Requested(w) /\ heldBy = Nobody
    /\ IF destroyed THEN Refused(w)
       ELSE IF pending
       THEN IF Len(held) > MAX_SIMUL_WRITE_IO THEN Postponed(w) ELSE Hold(w)
       ELSE Look(w)
    /\ UNCHANGED <<valueVars, listVars, setterVars, monitorVars, getterVars, in_flight,
                   epoch, notify, sent, dpc>>

Subscribe(w) ==
    /\ wst[w] = "full"
    /\ seen' = [seen EXCEPT ![w] = epoch]
    /\ wst' = [wst EXCEPT ![w] = "again"]
    /\ UNCHANGED <<valueVars, listVars, setterVars, monitorVars, getterVars, heldBy, held,
                   in_flight, epoch, notify, end, sent, arrived, dpc>>

\* Mutant of LookAgain: the count is looked at once, before the subscribe.
LookAgain_Once(w) ==
    /\ wst[w] = "again"
    /\ wst' = [wst EXCEPT ![w] = "postponed"] /\ heldBy' = Nobody
    /\ UNCHANGED <<valueVars, listVars, setterVars, monitorVars, getterVars, held,
                   in_flight, epoch, notify, end, seen, sent, arrived, dpc>>

\* The second look is after the subscribe, so an end in between shows in one
\* or the other.
LookAgain(w) ==
    /\ wst[w] = "again"
    /\ IF in_flight >= MAX_SIMUL_WRITE_IO
       THEN wst' = [wst EXCEPT ![w] = "postponed"] /\ heldBy' = Nobody
       ELSE wst' = [wst EXCEPT ![w] = "room"] /\ UNCHANGED heldBy
    /\ UNCHANGED <<valueVars, listVars, setterVars, monitorVars, getterVars, held,
                   in_flight, epoch, notify, end, seen, sent, arrived, dpc>>

\* A put callback is counted under the lock; the lock is released before
\* either kind is sent.
Start(w) ==
    /\ wst[w] = "room"
    /\ heldBy' = Nobody
    /\ in_flight' = in_flight + (IF notify[w] THEN 1 ELSE 0)
    /\ end' = [end EXCEPT ![w] = IF notify[w] THEN "live" ELSE @]
    /\ wst' = [wst EXCEPT ![w] = "sending"]
    /\ UNCHANGED <<valueVars, listVars, setterVars, monitorVars, getterVars, held, epoch,
                   notify, seen, sent, arrived, dpc>>

SendReady(w) ==
    /\ wst[w] = "sending"
    /\ Sent(w, FALSE)
    /\ wst' = [wst EXCEPT ![w] = IF notify[w] THEN "flight" ELSE "over"]
    /\ UNCHANGED <<valueVars, listVars, setterVars, monitorVars, getterVars, heldBy, held,
                   in_flight, epoch, notify, end, seen, arrived, dpc>>

\* `WriteDone::post`, at upstream's answer, a failure or its drop: it leaves
\* the count first, so that a write the post wakes finds the room.
Leave(w) ==
    /\ wst[w] = "flight"
    /\ in_flight' = in_flight - 1
    /\ wst' = [wst EXCEPT ![w] = "post"]
    /\ UNCHANGED <<valueVars, listVars, setterVars, monitorVars, getterVars, heldBy, held,
                   epoch, notify, end, seen, sent, arrived, dpc>>

PostDone(w) ==
    /\ wst[w] = "post"
    /\ PostEnd(w)
    /\ wst' = [wst EXCEPT ![w] = "over"]
    /\ UNCHANGED <<valueVars, listVars, setterVars, monitorVars, getterVars, heldBy, held,
                   in_flight, notify, seen, sent, arrived, dpc>>

\* The client answers a posted status, then drops the end, which signals.
\* It may drop the end first, at any time: then the post signals.
DropEnd(w) ==
    /\ end[w] \in {"live", "posted"}
    /\ \/ end[w] = "posted" /\ end' = [end EXCEPT ![w] = "gone"] /\ signal
       \/ end[w] = "live" /\ end' = [end EXCEPT ![w] = "closed"] /\ UNCHANGED epoch
    /\ UNCHANGED <<valueVars, listVars, setterVars, monitorVars, getterVars, heldBy, held,
                   in_flight, wst, notify, seen, sent, arrived, dpc>>

-----------------------------------------------------------------------------
(* destroy: the list is closed, then the held writes are canceled, the     *)
(* parked reads woken and the postponed writes signalled.                  *)
CloseList ==
    /\ dpc = "idle" /\ ~destroyed
    /\ destroyed' = TRUE
    /\ listed' = <<>>
    /\ mpc' = [m \in Monitors |-> CASE mpc[m] = "on" -> "gone"
                                   [] mpc[m] = "first" -> "cut"
                                   [] OTHER -> mpc[m]]
    /\ dpc' = "take"
    /\ UNCHANGED <<valueVars, setterVars, rights, last, most, firsts, getterVars, writeVars>>

\* A write pushed under the lock before the take is in it.
TakeHeld ==
    /\ dpc = "take" /\ heldBy = Nobody
    /\ held' = <<>>
    /\ dpc' = "cancel"
    /\ wst' = [w \in Writes |-> IF w \in Range(held) THEN "cancel" ELSE wst[w]]
    /\ UNCHANGED <<valueVars, listVars, setterVars, monitorVars, getterVars, heldBy,
                   in_flight, epoch, notify, end, seen, sent, arrived>>

Cancel(w) ==
    /\ wst[w] = "cancel"
    /\ PostEnd(w)
    /\ wst' = [wst EXCEPT ![w] = "over"]
    /\ UNCHANGED <<valueVars, listVars, setterVars, monitorVars, getterVars, heldBy, held,
                   in_flight, notify, seen, sent, arrived, dpc>>

AllCanceled == dpc = "cancel" /\ \A w \in Writes : wst[w] # "cancel"

WakeDestroyed ==
    /\ AllCanceled
    /\ notify_waiters
    /\ signal
    /\ dpc' = "done"
    /\ UNCHANGED <<valueVars, listVars, setterVars, monitorVars, gpc, heldBy, held,
                   in_flight, wst, notify, end, seen, sent, arrived>>

-----------------------------------------------------------------------------
SetterStep(s) == SetMeta(s) \/ deliver(s) \/ Post(s) \/ SendHeld(s) \/ StoreReady(s)
                 \/ PostFirst(s) \/ WakeReads(s)
MonitorStep(m) == attach(m) \/ AddEnd(m) \/ Disable(m) \/ PostRegained(m)
MonitorAsks(m) == AddBegin(m) \/ LoseRead(m) \/ RegainRead(m) \/ remove_subscriber(m)
GetterStep(g) == Register(g) \/ LookReady(g) \/ LookGone(g)
WriteStep(w) == Subscribe(w) \/ LookAgain(w) \/ Start(w) \/ SendReady(w) \/ Leave(w) \/ PostDone(w) \/ Cancel(w)
DestroyStep == TakeHeld \/ WakeDestroyed

Next ==
    \/ \E s \in Setters : SetValue(s) \/ post_alarm(s) \/ make_ready(s) \/ SetterStep(s)
    \/ \E m \in Monitors : MonitorAsks(m) \/ MonitorStep(m)
    \/ \E g \in Getters : GetterStep(g)
    \/ \E w \in Writes : forward_write(w) \/ WriteStep(w) \/ DropEnd(w)
    \/ CloseList \/ DestroyStep

Spec == Init /\ [][Next]_vars

\* Threads run, a woken client runs its request again and drops a posted end
\* once it has answered it, and a put callback ends, by upstream's answer or
\* by the drop of its WriteDone.  Nothing makes a PV ready, or destroys it.
WriteMoves(w) ==
    \/ WriteStep(w)
    \/ wst[w] = "postponed" /\ forward_write(w)
    \/ end[w] = "posted" /\ DropEnd(w)

Fairness ==
    /\ \A s \in Setters : WF_vars(SetterStep(s))
    /\ \A m \in Monitors : WF_vars(MonitorStep(m))
    /\ \A w \in Writes : WF_vars(WriteMoves(w))
    /\ WF_vars(DestroyStep)

FairSpec == Spec /\ Fairness

-----------------------------------------------------------------------------
ValueType ==
    /\ value \in Nat /\ posted_meta \in 0 .. value /\ pending \in BOOLEAN
    /\ crossed \in BOOLEAN
    /\ readers \subseteq Setters \cup Monitors
    /\ listed \in Seq(Monitors) /\ destroyed \in BOOLEAN
    /\ dpc \in {"idle", "take", "cancel", "done"}

SetterType ==
    /\ spc \in [Setters -> {"idle", "meta", "deliver", "post", "drain", "first", "wake"}]
    /\ cur \in [Setters -> 0 .. value] /\ todo \in [Setters -> Seq(Monitors)]

MonitorType ==
    /\ mpc \in [Monitors -> {"new", "attach", "first", "cut", "on", "gone"}]
    /\ rights \in [Monitors -> {"read", "lost", "none", "gained"}]
    /\ last \in [Monitors -> Int] /\ most \in [Monitors -> Int] /\ firsts \in [Monitors -> Nat]

ReadType ==
    /\ gpc \in [Getters -> {"start", "ready?", "gone?", "parked", "answered", "failed"}]
    /\ notified \subseteq Getters

WriteType ==
    /\ heldBy \in Setters \cup Writes \cup {Nobody}
    /\ held \in Seq(Writes) /\ in_flight \in Nat /\ epoch \in Nat
    /\ wst \in [Writes -> {"new", "held", "postponed", "full", "again", "room", "sending",
                           "flight", "post", "cancel", "over"}]
    /\ notify \in [Writes -> BOOLEAN] /\ seen \in [Writes -> Nat]
    /\ end \in [Writes -> {"none", "live", "posted", "closed", "gone"}]
    /\ sent \in Seq([write : Writes, held : BOOLEAN]) /\ arrived \in Seq(Writes)

TypeOK == ValueType /\ SetterType /\ MonitorType /\ ReadType /\ WriteType

\* A write is held once, and is held exactly while it is among the held writes.
HeldOnce == IsInjective(held) /\ \A w \in Writes : (wst[w] = "held") = (w \in Range(held))

\* The put callbacks in flight are counted exactly, and stay within one of
\* the bound: a pending PV may hold one write more than the bound, and each
\* may be sent as a put callback.  Ready writes never pass the bound together.
InFlightBounded ==
    /\ in_flight = Cardinality({w \in Writes : notify[w] /\ wst[w] \in {"sending", "flight"}})
    /\ in_flight <= MAX_SIMUL_WRITE_IO + 1

\* Every write the PV held while it was pending reaches upstream before any
\* write that found it ready.
HeldWritesFirst == \A i, j \in DOMAIN sent : i < j /\ sent[j].held => sent[i].held

\* And they reach it in the order in which they were held.
HeldInOrder ==
    \A i \in DOMAIN sent : sent[i].held => i \in DOMAIN arrived /\ sent[i].write = arrived[i]

\* A write is not left held by a PV nobody will make ready: neither behind
\* make_ready's drain nor behind destroy's take.
NoWriteStranded == (~pending /\ heldBy = Nobody) \/ dpc \in {"cancel", "done"} => held = <<>>

\* A postponed write waits only while a signal is still owed: by an IO whose
\* end is not gone, or by the destroy.
PostponedHasSignal ==
    \A w \in Writes : wst[w] = "postponed" /\ seen[w] = epoch =>
        \/ \E x \in Writes : end[x] \in {"live", "posted", "closed"}
        \/ dpc \in {"take", "cancel"}

\* A monitor gets its first event once, whether it came before, after or
\* while the PV was made ready.
FirstEventOnce ==
    \A m \in Monitors :
        /\ firsts[m] <= (IF pending THEN 0 ELSE 1)
        /\ mpc[m] = "on" /\ ~pending /\ (\A s \in Setters : spc[s] # "first") => firsts[m] = 1

Quiet == (\A s \in Setters : spc[s] = "idle") /\ ~pending

\* With nothing under way, every monitor whose client may read was sent the
\* value the PV holds; and it is the last it was sent, unless the store of it
\* met the post of an older one, which may then have come after.
MonitorHasLast ==
    Quiet => \A m \in Monitors : mpc[m] = "on" /\ rights[m] \in {"read", "lost"} =>
        /\ most[m] = value
        /\ ~crossed => last[m] = value

\* With nothing under way, the metadata served is the last store's, unless it
\* met another set: the value and its metadata are two holds.
MetaOfValue == Quiet /\ ~crossed => posted_meta = value

\* On a PV that is ready or destroyed every write ends: it is refused, done,
\* or its status posted and its end dropped, postponed or not.
WritesEnd ==
    \A w \in Writes :
        (wst[w] # "new" /\ (~pending \/ destroyed))
            ~> (wst[w] = "over" /\ end[w] \in {"none", "gone"})

\* A read parked on a PV that is ready has the wake of the call that made it
\* ready coming, one parked on a destroyed PV the destroy's: each registers
\* before it looks, and each wake comes after what it tells of.
ReadsWoken ==
    \A g \in Getters : gpc[g] = "parked" /\ g \notin notified =>
        /\ ~pending => \E s \in Setters : spc[s] \in {"first", "wake"}
        /\ destroyed => dpc \in {"take", "cancel"}

\* Writes held before the PV is ready go before later ones, in the order they
\* came and each once, and of the put callbacks at most one more than the limit
\* is in flight (`make_ready`, `forward_write`).
HeldGoFirst == TypeOK /\ HeldOnce /\ InFlightBounded /\ HeldWritesFirst /\ HeldInOrder

\* Nobody waits for nothing: no write stays held on a PV that is ready or gone, a
\* postponed one has a signal coming, and a parked read its wake.
NoneStranded == NoWriteStranded /\ PostponedHasSignal /\ ReadsWoken

\* A monitor gets one first event, and when all is sent it has been sent the
\* value the PV holds, whatever sets, alarms and changes of access crossed; with
\* no post in its way that value came last, with its metadata.
MonitorsServed == FirstEventOnce /\ MonitorHasLast /\ MetaOfValue
=============================================================================
