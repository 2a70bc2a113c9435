--------------------------- MODULE DeliveryFence ---------------------------
(***************************************************************************)
(* The PVA client's monitor delivery (client_native/monitor_queue.rs): the *)
(* connection's reader routes each monitor frame into the backlog of its   *)
(* subscription with a ticket of the connection's fence; a drain loop per  *)
(* subscription calls back when its ticket is the oldest outstanding; the  *)
(* reply of any other operation waits until every ticket issued before it  *)
(* was routed has been released.                                           *)
(*                                                                         *)
(* A frame is named by its ticket.  A full backlog squashes a data frame   *)
(* into its tail, so an entry stands for a set of frames.                  *)
(***************************************************************************)
EXTENDS Integers, Sequences, FiniteSets, FiniteSetsExt, SequencesExt

CONSTANTS
    Subscriptions,           \* subscriptions of one connection, each with a drain loop
    Replies,        \* replies of other operations on the connection
    Limit,          \* `limit`, the queueSize of every backlog
    Pipelined,      \* the subscriptions whose `pipeline` disables the squash
    Kinds,          \* of frames the server sends: "data", "finish", "bad" (does not decode)
    MaxFrames       \* bound: monitor frames read

Reader == "reader"

ASSUME FenceBounds ==
    /\ Limit \in Nat \ {0} /\ MaxFrames \in Nat /\ Pipelined \subseteq Subscriptions
    /\ Kinds \subseteq {"data", "finish", "bad"} /\ "data" \in Kinds
    /\ Reader \notin Subscriptions

Threads == Subscriptions \cup {Reader}

VARIABLES
    next, outstanding,  \* `Tickets`
    waiter,             \* the tickets whose loop has left its waker
    owed,               \* per thread: None, or the wake and the notify its release owes
    queue, shut,        \* each backlog, and its `closed`
    permit,             \* its `Notify` permit
    registered,         \* the IOID slot holds the sink
    lpc, held,          \* each drain loop: its step and the entry it popped
    rpc, routing,       \* the reader: its step, the subscription and frame it routes
    ypc, at, told,      \* each reply: its step, its place, its registration with `released`
    last, done, discarded,  \* history: the ticket last called back; frames handled; discarded
    ends                    \* history: subscriptions a frame was routed to that ends them

ticketVars == <<next, outstanding, waiter, owed>>
loopVars == <<lpc, held>>
readerVars == <<rpc, routing>>
replyVars == <<ypc, at, told>>
history == <<last, done, discarded, ends>>
fenceVars == <<ticketVars, queue, shut, permit, registered, loopVars, readerVars, replyVars, history>>

None == [wake |-> {}, none |-> TRUE]
Emptied == [ticket |-> 0, frames |-> {}, kind |-> "none"]

FenceInit ==
    /\ next = 1 /\ outstanding = {} /\ waiter = {} /\ owed = [t \in Threads |-> None]
    /\ queue = [s \in Subscriptions |-> <<>>] /\ shut = [s \in Subscriptions |-> FALSE]
    /\ permit = [s \in Subscriptions |-> FALSE] /\ registered = [s \in Subscriptions |-> TRUE]
    /\ lpc = [s \in Subscriptions |-> "recv"] /\ held = [s \in Subscriptions |-> Emptied]
    /\ rpc = "idle" /\ routing = [sub |-> Reader, entry |-> Emptied]
    /\ ypc = [y \in Replies |-> "unrouted"] /\ at = [y \in Replies |-> 0]
    /\ told = [y \in Replies |-> "no"]
    /\ last = 0 /\ done = {} /\ discarded = {} /\ ends = {}

Free(t) == owed[t] = None

-----------------------------------------------------------------------------
(* The fence. *)

OldestOf(tickets) == Min(tickets)
IsOldest(ticket) == ticket = OldestOf(outstanding)

\* Mutant of drop: nobody is told of the turn.
drop_KeepsTurn(thread, ticket) ==
    /\ outstanding' = outstanding \ {ticket}
    /\ owed' = IF IsOldest(ticket)
               THEN [owed EXCEPT ![thread] = [wake |-> {}, none |-> FALSE]] ELSE owed
    /\ UNCHANGED waiter

\* `Delivery::drop` under the lock: the turn passes to the new oldest ticket
\* alone, and the wakes are owed until after the unlock.
drop(thread, ticket) ==
    LET left == outstanding \ {ticket}
        woken == IF left = {} THEN {} ELSE {OldestOf(left)} \cap waiter
    IN  /\ outstanding' = left
        /\ IF IsOldest(ticket)
           THEN /\ waiter' = waiter \ (woken \cup {ticket})
                /\ owed' = [owed EXCEPT ![thread] = [wake |-> woken, none |-> FALSE]]
           ELSE waiter' = waiter \ {ticket} /\ UNCHANGED owed

\* `next.wake()`, then `released.notify_waiters()`, which reaches the points
\* that have registered and leaves nothing for later ones.
Signal(t) ==
    /\ ~Free(t)
    /\ lpc' = [s \in Subscriptions |-> IF lpc[s] = "waitTurn" /\ held[s].ticket \in owed[t].wake
                              THEN "turn" ELSE lpc[s]]
    /\ told' = [y \in Replies |-> IF told[y] = "waiting" THEN "fired" ELSE told[y]]
    /\ owed' = [owed EXCEPT ![t] = None]
    /\ UNCHANGED <<next, outstanding, waiter, queue, shut, permit, registered, held, readerVars,
                   ypc, at, history>>

-----------------------------------------------------------------------------
(* The reader, which holds the IOID slot while it routes into it. *)

\* `issue`, as a frame is routed to a registered subscription.
issue(s, kind) ==
    /\ rpc = "idle" /\ Free(Reader) /\ registered[s] /\ next <= MaxFrames
    /\ outstanding' = outstanding \cup {next}
    /\ next' = next + 1
    /\ routing' = [sub |-> s, entry |-> [ticket |-> next, frames |-> {next}, kind |-> kind]]
    /\ rpc' = "push"
    /\ ends' = IF kind = "data" THEN ends ELSE ends \cup {s}
    /\ UNCHANGED <<waiter, owed, queue, shut, permit, registered, loopVars, replyVars,
                   last, done, discarded>>

\* `Inner::push` squashes at the limit: a data frame into a data tail, both
\* of which decode, and never under pipeline.
Squashes(s, e) ==
    /\ e.kind = "data" /\ s \notin Pipelined /\ Len(queue[s]) >= Limit
    /\ Last(queue[s]).kind = "data"

\* Mutant of Squashed: the entry takes the ticket of the newer frame.
Squashed_NewTicket(tail, e) ==
    [ticket |-> e.ticket, frames |-> tail.frames \cup e.frames, kind |-> tail.kind]

\* The tail keeps its own ticket, which is older.
Squashed(tail, e) == [tail EXCEPT !.frames = @ \cup e.frames]

\* `MonitorBacklog::push`; the ticket not kept is released as it returns.
push ==
    LET s == routing.sub  e == routing.entry
        kept == IF Squashes(s, e) THEN Squashed(Last(queue[s]), e) ELSE e
    IN  /\ rpc = "push"
        /\ \/ /\ shut[s]
              /\ drop(Reader, e.ticket)
              /\ discarded' = discarded \cup e.frames
              /\ rpc' = "idle" /\ routing' = [sub |-> Reader, entry |-> Emptied]
              /\ UNCHANGED queue
           \/ /\ ~shut[s] /\ Squashes(s, e)
              /\ queue' = [queue EXCEPT ![s] = Append(Front(@), kept)]
              /\ drop(Reader, IF kept.ticket = e.ticket THEN Last(queue[s]).ticket ELSE e.ticket)
              /\ rpc' = "notify"
              /\ UNCHANGED <<routing, discarded>>
           \/ /\ ~shut[s] /\ ~Squashes(s, e)
              /\ queue' = [queue EXCEPT ![s] = Append(@, e)]
              /\ rpc' = "notify"
              /\ UNCHANGED <<outstanding, waiter, owed, routing, discarded>>
        /\ UNCHANGED <<next, shut, permit, registered, loopVars, replyVars, last, done, ends>>

Notify ==
    /\ rpc = "notify"
    /\ permit' = [permit EXCEPT ![routing.sub] = TRUE]
    /\ rpc' = "idle" /\ routing' = [sub |-> Reader, entry |-> Emptied]
    /\ UNCHANGED <<ticketVars, queue, shut, registered, loopVars, replyVars, history>>

\* `point`: behind every ticket issued so far.
point(y) ==
    /\ rpc = "idle" /\ Free(Reader) /\ ypc[y] = "unrouted"
    /\ at' = [at EXCEPT ![y] = IF outstanding = {} THEN 0 ELSE next]
    /\ ypc' = [ypc EXCEPT ![y] = "enable"]
    /\ UNCHANGED <<ticketVars, queue, shut, permit, registered, loopVars, readerVars, told, history>>

\* The slot's removal: on unregister, on a destroyed channel, or on the
\* connection's death.
close(s) ==
    /\ registered[s] /\ ~(routing.sub = s)
    /\ registered' = [registered EXCEPT ![s] = FALSE]
    /\ shut' = [shut EXCEPT ![s] = TRUE]
    /\ permit' = [permit EXCEPT ![s] = TRUE]
    /\ UNCHANGED <<ticketVars, queue, loopVars, readerVars, replyVars, history>>

-----------------------------------------------------------------------------
(* A subscription's drain loop. *)

LoopAt(s, step) == lpc[s] = step /\ Free(s)

\* `recv`: pop, or end if closed, or wait.
recv(s) ==
    /\ LoopAt(s, "recv")
    /\ \/ /\ queue[s] # <<>>
          /\ held' = [held EXCEPT ![s] = Head(queue[s])]
          /\ queue' = [queue EXCEPT ![s] = Tail(@)]
          /\ lpc' = [lpc EXCEPT ![s] = "turn"]
       \/ /\ queue[s] = <<>>
          /\ lpc' = [lpc EXCEPT ![s] = IF shut[s] THEN "abandon" ELSE "wait"]
          /\ UNCHANGED <<held, queue>>
    /\ UNCHANGED <<ticketVars, shut, permit, registered, readerVars, replyVars, history>>

Notified(s) ==
    /\ LoopAt(s, "wait") /\ permit[s]
    /\ permit' = [permit EXCEPT ![s] = FALSE]
    /\ lpc' = [lpc EXCEPT ![s] = "recv"]
    /\ UNCHANGED <<ticketVars, queue, shut, registered, held, readerVars, replyVars, history>>

\* `turn`: the oldest ticket goes on; any other leaves its waker.
turn(s) ==
    /\ LoopAt(s, "turn")
    /\ IF IsOldest(held[s].ticket)
       THEN /\ lpc' = [lpc EXCEPT ![s] = "callback"]
            /\ last' = held[s].ticket
            /\ UNCHANGED waiter
       ELSE /\ waiter' = waiter \cup {held[s].ticket}
            /\ lpc' = [lpc EXCEPT ![s] = "waitTurn"]
            /\ UNCHANGED last
    /\ UNCHANGED <<next, outstanding, owed, queue, shut, permit, registered, held, readerVars,
                   replyVars, done, discarded, ends>>

\* The frame is handed to the callback and then its ticket is dropped; a
\* finish or a body that does not decode ends the loop.
callback(s) ==
    /\ LoopAt(s, "callback")
    /\ done' = done \cup held[s].frames
    /\ drop(s, held[s].ticket)
    /\ held' = [held EXCEPT ![s] = Emptied]
    /\ lpc' = [lpc EXCEPT ![s] = IF held[s].kind = "data" THEN "recv" ELSE "abandon"]
    /\ UNCHANGED <<next, queue, shut, permit, registered, readerVars, replyVars, last, discarded, ends>>

\* The handle cancels: the dropped receive discards what it had popped.
cancel(s) ==
    /\ \E step \in {"recv", "wait", "turn", "waitTurn"} : LoopAt(s, step)
    /\ IF held[s] = Emptied THEN UNCHANGED <<outstanding, waiter, owed, held, discarded>>
       ELSE /\ drop(s, held[s].ticket)
            /\ discarded' = discarded \cup held[s].frames
            /\ held' = [held EXCEPT ![s] = Emptied]
    /\ lpc' = [lpc EXCEPT ![s] = "abandon"]
    /\ UNCHANGED <<next, queue, shut, permit, registered, readerVars, replyVars, last, done, ends>>

\* Mutant of abandon: the frames are forgotten with their tickets held.
abandon_Leaks(s) ==
    /\ LoopAt(s, "abandon")
    /\ shut' = [shut EXCEPT ![s] = TRUE]
    /\ queue' = [queue EXCEPT ![s] = <<>>]
    /\ discarded' = discarded \cup UNION {e.frames : e \in ToSet(queue[s])}
    /\ lpc' = [lpc EXCEPT ![s] = "discard"]
    /\ UNCHANGED <<ticketVars, permit, registered, held, readerVars, replyVars, last, done, ends>>

\* The stream is dropped: `abandon` closes the backlog and takes its queue;
\* the taken frames are then dropped one by one.
abandon(s) ==
    /\ LoopAt(s, "abandon")
    /\ shut' = [shut EXCEPT ![s] = TRUE]
    /\ lpc' = [lpc EXCEPT ![s] = "discard"]
    /\ UNCHANGED <<ticketVars, queue, permit, registered, held, readerVars, replyVars, history>>

Discard(s) ==
    /\ LoopAt(s, "discard") /\ queue[s] # <<>>
    /\ drop(s, Head(queue[s]).ticket)
    /\ discarded' = discarded \cup Head(queue[s]).frames
    /\ queue' = [queue EXCEPT ![s] = Tail(@)]
    /\ UNCHANGED <<next, shut, permit, registered, loopVars, readerVars, replyVars, last, done, ends>>

-----------------------------------------------------------------------------
(* A reply: `settle` awaits `reached`. *)

\* `enable` registers before the outstanding tickets are looked at.
enable(y) ==
    /\ ypc[y] = "enable"
    /\ ypc' = [ypc EXCEPT ![y] = IF at[y] = 0 THEN "settled" ELSE "check"]
    /\ told' = [told EXCEPT ![y] = "waiting"]
    /\ UNCHANGED <<ticketVars, queue, shut, permit, registered, loopVars, readerVars, at, history>>

reached(y) == outstanding = {} \/ OldestOf(outstanding) >= at[y]

check(y) ==
    /\ ypc[y] = "check"
    /\ ypc' = [ypc EXCEPT ![y] = IF reached(y) THEN "settled" ELSE "poll"]
    /\ UNCHANGED <<ticketVars, queue, shut, permit, registered, loopVars, readerVars, at, told, history>>

\* `released.await`: over at once if it fired since it was registered.
Await(y) ==
    /\ \/ ypc[y] = "poll"
       \/ ypc[y] = "await" /\ told[y] = "fired"
    /\ ypc' = [ypc EXCEPT ![y] = IF told[y] = "fired" THEN "enable" ELSE "await"]
    /\ told' = [told EXCEPT ![y] = IF @ = "fired" THEN "no" ELSE "waiting"]
    /\ UNCHANGED <<ticketVars, queue, shut, permit, registered, loopVars, readerVars, at, history>>

-----------------------------------------------------------------------------
ReaderStep == push \/ Notify
LoopStep(s) == recv(s) \/ Notified(s) \/ turn(s) \/ callback(s) \/ abandon(s) \/ Discard(s)
ReplyStep(y) == enable(y) \/ check(y) \/ Await(y)

FenceNext ==
    \/ \E s \in Subscriptions : close(s) \/ cancel(s) \/ LoopStep(s) \/ \E k \in Kinds : issue(s, k)
    \/ \E t \in Threads : Signal(t)
    \/ \E y \in Replies : point(y) \/ ReplyStep(y)
    \/ ReaderStep

FenceSpec == FenceInit /\ [][FenceNext]_fenceVars

-----------------------------------------------------------------------------
Frames == 1 .. next - 1
Undelivered(s) == ToSet(queue[s]) \cup ({held[s]} \ {Emptied})
InHand == {routing.entry} \ {Emptied}
Abandoned(s) == lpc[s] \in {"abandon", "discard"}

FenceTypeOK ==
    /\ next \in 1 .. MaxFrames + 1 /\ outstanding \subseteq Frames /\ waiter \subseteq outstanding
    /\ lpc \in [Subscriptions -> {"recv", "wait", "turn", "waitTurn", "callback", "abandon", "discard"}]
    /\ rpc \in {"idle", "push", "notify"}
    /\ ypc \in [Replies -> {"unrouted", "enable", "check", "poll", "await", "settled"}]
    /\ told \in [Replies -> {"no", "waiting", "fired"}]
    /\ shut \in [Subscriptions -> BOOLEAN] /\ permit \in [Subscriptions -> BOOLEAN] /\ registered \in [Subscriptions -> BOOLEAN]

\* The callbacks of all subscriptions run in the order the frames were read
\* and one at a time, though each loop is a task of its own: nothing read
\* before the frame last called back is still waiting (`turn`, `Delivery::drop`,
\* and the squash, which keeps the older ticket).
CallbacksInOrder ==
    /\ \A t \in outstanding : t >= last
    /\ Cardinality({s \in Subscriptions : lpc[s] = "callback"}) <= 1

\* A settled reply is behind every monitor frame read before it: each has
\* been through its callback, merged or not, or was discarded with its
\* subscription (`point`, `reached`).
ReplyBehindFrames ==
    \A y \in Replies : ypc[y] = "settled" => \A f \in Frames : f < at[y] => f \in done \cup discarded

\* No frame is lost in a squash or a hand-over: each is in hand, waiting, or
\* dealt with exactly once, and it is discarded only for a subscription
\* whose loop has gone (`Inner::push`, `recv_in_turn`, `abandon`).
NoFrameLost ==
    /\ Frames = done \cup discarded \cup (UNION {e.frames : e \in InHand})
                \cup (UNION {UNION {e.frames : e \in Undelivered(s)} : s \in Subscriptions})
    /\ done \cap discarded = {}
    /\ discarded # {} => \E s \in Subscriptions : Abandoned(s)

\* The tickets outstanding are those of the entries somebody still holds.
TicketsHeld ==
    outstanding = {e.ticket : e \in (IF rpc = "push" THEN InHand ELSE {}) \cup UNION {Undelivered(s) : s \in Subscriptions}}

\* A backlog exceeds its limit only by frames that may not be squashed.
BacklogBounded ==
    \A s \in Subscriptions \ Pipelined :
        Cardinality({i \in DOMAIN queue[s] : queue[s][i].kind = "data"
                                             /\ (i = 1 \/ queue[s][i - 1].kind = "data")}) <= Limit

\* A PVA client calls back in the order the frames were read, one at a time,
\* though each subscription drains in a task of its own; a settled reply is
\* behind every frame read before it (`DeliveryFence::reached`).
WireOrder == CallbacksInOrder /\ ReplyBehindFrames

\* No frame is lost, or dealt with twice, in a squash or a hand-over; tickets
\* outstanding are held by somebody; a backlog exceeds its limit only by frames
\* that may not be squashed.
FramesKept == FenceTypeOK /\ NoFrameLost /\ TicketsHeld /\ BacklogBounded

\* No task can go on: callbacks have returned, and nothing more is read.
AtRest ==
    ~ENABLED (\/ ReaderStep
              \/ \E s \in Subscriptions : LoopStep(s)
              \/ \E t \in Threads : Signal(t)
              \/ \E y \in Replies : ReplyStep(y))

\* No routed reply is left waiting: the frames ahead of it are called back or
\* discarded, and the last release reaches it.
RepliesSettled == AtRest => \A y \in Replies : ypc[y] \in {"unrouted", "settled"}

\* No frame read is left behind: the turn, once released, is passed on.
FramesDealtWith == AtRest => Frames = done \cup discarded

\* A finish, or a body that does not decode, ends the loop of its
\* subscription: it is never merged away at the limit.
FinishEnds == AtRest => \A s \in ends : Abandoned(s)
=============================================================================
