# epics-rs: a TLA+ development

TLA+ models of the concurrent core of [epics-rs](../src), a Rust implementation
of EPICS (IOC runtime, Channel Access, pvAccess, asyn, motor, areaDetector),
with TLC runs on small instances and TLAPS proofs for every instance.

File names without a path are those of section 2's tables.

## 1. The system

The workspace has about 30 crates. The parts that carry state and logic of their
own:

| part | state it keeps | operations | hard because |
|---|---|---|---|
| **Event queue** (`EvQue`) | a ring shared by the monitors of a circuit, a slab of subscriptions, quota, duplicate count | attach, post (append / replace / collapse), take, close, cancel | counters of shared state kept in step by hand; a ring that must never fill |
| **Event user** and its consumer | chain of queues, EVENTS_OFF flag, owed replies, one parked waker | poll, flow control, `post_reply`, exit | wakes against parks; queue locks under a chain lock; an atomic flag outside both |
| **Per-monitor readers** | handles into a queue | `recv`, `try_recv`, drop | take from the middle of the ring; park with one lock fewer |
| **Subscriber list** | a record's monitors, replaced whole | add, remove, close, lock-free walk | readers of retired maps; who frees |
| **Simple PV** | value, metadata, monitors, held and postponed writes | set, make ready, attach, get, write, destroy | a monitor attaching in the middle of a set; writes held over readiness |
| **Callback band** | lock-free inbox, ready and free stacks, slot pool, parking registry; admission word | request, pop, refill, park; init, stop, cleanup | ABA, missed wakes, a stop that must drain and let nothing in |
| **scanOnce** | ring of requests, one worker | request, run, stop, restart | a stop from one of its own tails |
| **Delayed timer, sleeps** | heap of deadlines; a cell per sleep | schedule, cancel, fire, poll, reset | cancel racing fire, parking past a deadline |
| **Future executor** | state word, slot of the future, join slot | schedule, poll, abort, join | a wake while polling, an abort from elsewhere |
| **CA server output** | outbox, credit, a gate per monitor | reserve, deliver, cancel, write | credit returned on every path; cancel against an update in flight |
| **PVA server output** | bounded channel, a count beside it | `try_post`, consume | two counters of one thing, no lock |
| **PVA client delivery** | backlog and tickets per connection | push, squash, turn, callback | wire order over several tasks |
| **CA client breakers** | registry of failing servers | gate, record, evict | results late, crossed or missing |
| **Autosave** | `.sav`, `.savB`, sequence files | save, rotate, restore | a crash or loss of power between writes |
| Record locks, processing, put-notify | PACT, RPRO, lock sets, notify queues | process, complete, put | completions out of order |
| Links, scan lists | pending puts, scan lists | put, connect, scan, edit | edits under a running scan |
| CA client search, PVA operations | channels, back-off, windows | search, connect, ack | reconnects, stale answers |
| Bridge and gateways, asyn, motor, areaDetector, sequencer, procServ, StreamDevice | group snapshots, port queues, phase machines, buffer pools | | long legal sequences |

The parts in bold are modelled. How they meet: a record thread holding a record's
lock posts to a field's monitors through `SubscriberList`, in one `PostBurst`;
each post goes to the `EvQue` its monitor is attached to. When the burst drops,
the queues it made non-empty wake the circuit's consumer, which polls the
`EventUser` and, in the CA server, pushes updates to the `Outbox` on credit. The
circuit's dispatch thread attaches and cancels monitors, toggles EVENTS_OFF and
EVENTS_ON and posts the replies of put-callbacks. Callbacks of every kind run on
bands; the timer, the futures and scanOnce are the band's neighbours.

`PROJECT.json` lists every part, with the reason where it is not modelled, and
the hazards, each at its line.

## 2. Modules

| module | models | source |
|---|---|---|
| `EvQue` | one queue as a record; each locked operation an operator from queue to queue; `RingOK`, `SlotsOK` | `epics-base-rs/.../event_queue.rs` |
| `EventUser` | a circuit over a chain of `EvQue`s: producers' bursts, the consumer lock by lock | same, and `epics-ca-rs/.../tcp.rs` |
| `EventReader` | a task reading several monitors of one queue | `event_queue.rs` |
| `SubscriberList` | the copied map of a record's monitors, `RetiringSwap` | `event_queue.rs`, `sync/retiring_swap.rs` |
| `ProcessVariable` | a simple PV | `pv.rs` |
| `Band` | what a band promises: each accepted entry is run once (abstract) | |
| `BandQueue` | the lock-free band; implements `Band` | `callback_queue.rs`, `runtime/sync.rs` |
| `BandStop` | admission and the stopping of a band, over the promise of its queue | `callback_executor.rs` |
| `ScanOnce`, `TimerSleep`, `FutureTask` | the rest of the runtime | `scan_once.rs`; `delayed_timer.rs`, `timer_sleep.rs`; `future_exec.rs` |
| `Outbox` | a CA circuit's output | `outbox.rs`, `monitor.rs`, `tcp.rs` |
| `MonitorControl` | a PVA monitor's producer side | `monitor_control.rs` |
| `DeliveryFence` | a PVA client's monitor delivery | `monitor_queue.rs`, `ops_v2.rs`, `server_conn.rs` |
| `CircuitBreaker` | the breakers and the penalty box | `circuit_breaker.rs` |
| `Autosave` | the files of one save set | `autosave/{backup,save_file,save_set,mod}.rs` |
| `MC...` | instances for TLC | |
| `EvQueProofs`, `EventUserProofs` | theorems about `EvQue` and `EventUser` | |
| `EventReaderProofs` | about `EventReader`, `DeliveryFence` and `SubscriberList` | |
| `ServerOutputProofs`, `RuntimeProofs` | about `Outbox`, `MonitorControl`; `FutureTask`, `TimerSleep`, `BandStop` | |
| `ProcessVariableProofs`, `CircuitBreakerProofs`, `AutosaveProofs` | about the module named | |

### Actions and code

An action is one locked section, or one access outside every lock; a thread's
local steps go with the shared access before them. Memory is sequentially
consistent. A step that publishes a private store and the store itself are one.

**EventUser.** The consumer's poll (`poll_next_into`) is cut further, since other
threads may act on the queues it does not hold: it holds the chain's lock in
`pc` = `walk`, `drain` and `park`, and the lock of the queue it is `at` in the last
two. Actions that need one of these locks are disabled meanwhile (`ChainLocked`,
`QueLocked`). The EVENTS_OFF flag is an atomic and changes under everybody's feet.

| action | code |
|---|---|
| `Attach`, `attach_que` | `attach_with`, `attach_que`: first queue with quota, else a new one |
| `CloseProducer`, `CloseReader`, `OwedWake` | `EventSink::close` and drop, `EventReader` drop; the wake after the unlock |
| `flow_ctrl_on`, `flow_ctrl_off`, `FlowReleased` | the store, and the wakes under the chain lock |
| `post_reply` | marks per non-empty queue, then a wake (`OwedWake`) |
| `Post` | `EventSink::post_in`, one post of a producer's burst |
| `wake_chain`, `BurstWake` | `PostBurst`'s drop: out of the burst under the lock, wake after it |
| `PollReply`, `PollBegin` | `poll_next_into` up to its loop |
| `PollEvent`, `DropCancelled` | `take_oldest`, one turn of its loop per action |
| `PollEnded`, `PollNothing`, `ParkNext`, `ParkLast` | `take_ended`, the park, the end of the loop |
| `Resume`, `ResumeOther` | the executor runs the woken task; another arm of its `select` does |
| `close_replies` | the consumer's exit by any path (`CloseReplies`) |

A log keeps how it holds its value (`Val`, `Ref`, `Owned`), the value (the number
of the post within its monitor) and its class mask. `sid`, delivery context,
`nreplace` and `ncollapse` are written and never read by the queue, and left out.
The free list is a set, so an attach may be given any free slot, the code's LIFO
choice included. Folded: `post_reply` reads its queues one by one under the chain
lock, and a post to a queue not yet read only adds an entry the reply then also
waits for; `burst.push` follows the unlock, and only its burst reads it;
`flow_ctrl_off` wakes once per queue, of one waker, under the lock. `wake_readers`
takes the waker and wakes after; the gap is a later poll, and polls at any time
are `ResumeOther`. A refused post and a close of a detached handle are stutters. A
by-reference field is read after its entry's take: `seen` counts the posts made
before the take, which the value read covers. Generations are 48 bits in the
code and naturals here: their wrap is not modelled.

**EventReader** has the same operations with `take_for`'s rotation (`ToHead`) and
polls of one queue: `BeginTake`, `Purge`, `take_for`, `EndOfStream`, `PollNothing`,
`Park`, `NextReader`, `SkipReader`.

**SubscriberList.** Writers under the mutex: `try_add`, `retain`, `CloseList`, then
`Swap`, `SweepRing`, `SweepOverflow`, `Release`, `DropFreed` of
`RetiringSwap::store_deferred`; readers: `load`, `DropGuard`. `arc_swap`'s debts are
references from the load on: its swap counts them before it returns.

**ProcessVariable.** A set: `SetValue`, `SetMeta`, `Post`, `PostEnd`, each hold its
own action. Readiness: `make_ready`, `SendHeld`, `StoreReady`, `PostFirst`, `WakeReads`. A
monitor: `AddBegin`, `attach`, `AddEnd`, `remove_subscriber`; an access change, whose
post and enabling are two holds: `LoseRead`, `Disable`, `RegainRead`, `PostRegained`. An
alarm: `post_alarm`, then as a set. A read: `Register`, `LookReady`, `LookGone`. A write: `forward_write`, `Subscribe`, `LookAgain`,
`Start`, `SendReady`, `Leave`, `PostDone`, `DropEnd`. Destruction: `CloseList`,
`TakeHeld`, `Cancel`, `WakeDestroyed`. Values are numbered in store order. Every
monitor selects a class each post carries; `post_property`, whose value is its
caller's, is left out.

**BandQueue.** Each load, link and compare-and-swap of the stacks is an action:
`PopHead`, `PopNext`, `PopCas`, `PublishAim`, `PublishCas`, `ReadyCas`, `Refill`, `Linked`,
`GiveAim`, `GiveCas`; growth: `LinkChunk`, `Supply`, `Count`; parking: `Announce`,
`CheckReady`, `CheckInbox`, `CheckShutdown`, `Uncount`, `Unparked`, `Spurious`; waking:
`WakeOne`, `Signal`, `Unpark`. Root tags are kept where they are compared; link tags
never are, and are dropped.

**BandStop.** `admit`, `claim`, `alloc_ring`, `publish`, `unadmit`; `TakeEntry`, `Run`, `finish`;
`arm`, `StopBegin`, `SealBegin`, `SealSum`, `SealCas`, `StopReturn`, `cleanup`,
`Shutdown`, `Leave`. One band of three; init, stop and cleanup are serialised, as
their callers do, but for a callback that stops its own band (`OwnStop`, in one step
through STOPPING, where no seal can succeed).

**ScanOnce.** `ensure_worker`, `scan_once`, `Signal`; `Loop`, `Run`, `Announce`, `Check`,
`Unparked`; `ShutDown`, `Take`, `Join`, `Reopen`.
**TimerSleep.** The thread: `Sample`, `Fire`, `Announce`, `Check`, `Unparked`, `TimedOut`;
a sleep: `Poll`, `Delay`, `Stamp`, `Arm`, `Signal`, `reset`, `Drop`, `ClearWaker`; a delayed
request: `RequestDelayed`, `Stamp`, `FileRequest`, `Signal`. The clock is a counter that
moves (`Tick`) between any two readings.
**FutureTask.** `schedule`, `Enqueue`, `Push`, `Unrun`, `UnrunFuture`; `Claim`, `Take`, `Look`,
`Done`, `PutBack`, `Release`, `Again`; `Wake`, `TimerFires`, `Abort`, `Upgrade`, `ShutDownBand`,
`DropTask`, `JoinPoll`, `WakeJoiner`.

**Outbox.** The event task: `Take`, `PassReply`, `send_denied_event`, `reserve`, `ReadOk`,
`ReadFails`, `Deliver`, `DeliverUnsent`, `Abort`; the connection loop: `revoke`,
`Confirm`, `Detach`, `TryNext`, `Write`, `Disconnect`; around them `Post`, `Deny`, `Regain`.
The ring before it is `EventUser`'s, abstracted to the set of subscriptions with an
update. Left out: the mark of an ended stream (`tcp.rs:7599`), an update refused as too
large or with nothing to send (`:7663`, `:7696`), which queues no update and holds no
credit after it, and CLEAR_CHANNEL, which detaches before it echoes (`:2809-2831`).
**MonitorControl.** `try_post`, `force_post`, `TrySend`, `Add`; `Receive`, `NoteBatch`,
`note_consumed`, `DropReceiver`.
**DeliveryFence.** `issue`, `push`, `Notify`; `recv`, `turn`, `callback`, `abandon`, `Discard`,
`close`, `cancel`; a reply's `point`, `enable`, `check`, `Await`; `drop` of a ticket and the
wakes it owes, `Signal`. The backlog is armed from the start: no data frame is legal before.
**CircuitBreaker.** `SearchReply` (the gate), `ConnectSucceeds`, `ConnectFails`,
`ConnectDropped` (no result recorded), `Tick`. Ages are relative, failures in arrival
order, and a channel is served by one of its `Hosts`.
**Autosave.** `Save`, `OpenTmp`, `WriteTmp`, `SyncTmp`, `CheckTmp`, `Rename`, `SyncDir`, `Copy`,
`Publish`, `do_seq`, `SeqCopy`, their failures, and `Crash`, `LosePower`, `Damage`, `Boot`.
A file is the number of its save, with its marker or torn, with all its values or
not, synced or not. `WriteTmp` may be short (a flush that fails is only printed) or
lossy (an element of an array that fails only counts against the array's sum, and the
file still ends in `<END>`); `SyncTmp` and `SyncDir` may fail, which is printed and
ignored. A loss of power leaves under a name any contents it had since the directory
was last synced, and may tear what was not synced. Files are damaged between cycles. Backups are enabled; the dated and
manual saves and the `_SBAD`/`_RBAD` copies are left out.

## 3. Runs

A behaviour of a run plays one **scene**, chosen in its first state: bounds and
operations that may happen, so that each case has the bounds it needs without the
product of them all. Modules that share no state are checked in one run as a
**sum**: one of them moves, the others stay as they start. Deadlock is not checked
where a bounded environment, when it is done, leaves servers asleep, as it does.

| run | instance | checks |
|---|---|---|
| `circuit_ring` | 2 monitors, ring of 6; 5 posts with closes and cancels, or 3 posts of every form and class over an EVENTS_OFF | `TypeOK`, `RingSound`, `SlotsSound`, `MonitorInOrder`, `ClassesNotLost`, `GateHolds` |
| `circuit_chain` | 2 queues; 2 producers, 3 posts, closes, a toggle; or a reply, 2 posts, cancels, a toggle | `BurstOwnsQueue`, `NoLostWake`, `OneDrainPass`, `EndAfterLast`, `ReplyAfterPosts` |
| `circuit_live` | 2 queues, 3 posts, a toggle; or 1 monitor, 2 posts, a reply, close and exit | `ValueDelivered`, `RepliesReleased`, `EndReported` |
| `monitor_path` | 2 readers of a ring of 6; a list of 3 monitors, 2 writers or 2 readers; a fence of 3 frames, 2 subscriptions or every kind of frame | `ReadersSound`, `MapsSound`, `ListCoherent`, `WireOrder`, `FramesKept`, `PathSettled` |
| `pv` | a PV that starts pending or ready; 3 writes; or 2 monitors, 3 values; or 1 monitor, 2 setters crossing; or 2 reads | `HeldGoFirst`, `NoneStranded`, `MonitorsServed`, `WritesEnd` |
| `band` | 2 workers and a shutdown; nodes given back in twos; a growing supply; a full ring | `AllAccounted`, `NothingStranded`, `KeepsPromise`, `AllLeave` |
| `runtime` | a sleep and a delayed request; a band of 2 workers, ring of 2 and 3 requests; a task with 2 workers, 2 sources and a shutdown; scanOnce with 2 requests whose tails may stop it and 2 `scanStop`s | `TimersKept`, `BandSealed`, `TasksClaimed`, `RuntimeSettled`, `PromisesKept` |
| `server_output` | 2 subscriptions, 1 credit; 2 producers, channel of 2 | `OutboxSound`, `GateSound`, `OutboxServes` |
| `breaker` | 2 channels of a server, 1 of another, room for 1 breaker | `OneProbe`, `NotGivenUp` |
| `autosave` | 3 saves, 2 sequence files, 2 crashes or losses of power, 2 errors, or damage | `BootFindsNewest`, `NewestSlotKept` |
| `reader_flow` | 1 reader, a toggle | `ReaderWoken`: **violated** |
| `outbox_late` | 2 subscriptions | `NoneAfterConfirm`: **violated** |

Each property of a passing run has a mutant of the code, written beside the
definition it replaces, that TLC finds to violate it.

*Why the bounds are enough.* `EVENT_ENTRIES` is 2 (the code: 4) and
`EVENTS_PER_QUE` 2 or 3: the smallest rings with a replace threshold inside them
and, in a chain, with one monitor per queue; five posts pass the threshold.
They do not wrap the ring, which only the theorems cover (`RingsSound`,
`ReadersAreSound`). Two of each competing actor is where every race here begins, and the
resources they compete for are 1 (credit, ring of the list, room for breakers,
`MAX_SIMUL_WRITE_IO`), so that the limit is met. Two nodes given back at once need
8 slots, by the code's formula; three requests come in two batches of the inbox, where
the second could overtake what is left of the first. Three requests overfill the ring
of two of a stopping band; the third meets one stop, from outside. Three writes leave
one waiting behind one in flight and one held. Two crashes let a boot be interrupted by
the second. `MaxPosts` in the reader runs counts posts and toggles together. The
theorems of section 4 hold for every value of these.

*Symmetry.* Producers and slots are permuted in the safety runs of the event queue.
Elsewhere like writes, monitors or subscriptions are numbered and used in order.

`PathSettled` and `RuntimeSettled` have parts of the form "when nobody can take a
step of his own (`AtRest`, by `ENABLED`), nothing is left waiting". On these bounded
instances they say what a liveness property would, with no fairness to be argued
about. `NoneStranded` says the like of writes and reads by the place each is at: a
read that waits has a wake to come (`ReadsWoken`).

Some properties name what the code does not promise, by a history variable, so that
they hold of everything else and the case itself is explored: `crossed` in
`ProcessVariable` (a store met a post under way of an older value), `crossed` in
`ScanOnce` (two stops met), `Stranded` with `late` in `FutureTask` (a push behind a
shutdown), `unsynced` and `lossy` in `Autosave` (saves whose sync or whose write failed
unheeded). Each case is described below.

### Refinement

`KeepsPromise`: `BandQueue` implements `Band` (`INSTANCE ... WITH` the entries
submitted, running and run), with its liveness: an entry accepted is run, once.

### Fairness

* `EventUser`: the executor runs a task that was woken and lets a poll finish (`WF`
  of `Resume` and `Poll`); a thread inside a call finishes it, weakly for wakes
  outside a lock, strongly for `FlowReleased` and `wake_chain`, which wait for a mutex
  the consumer releases and takes again. Nothing is assumed of producers, clients
  or the other arms of the consumer's `select`. Replies are bounded: an endless
  stream of replies due at once would delay everything else.
* `ProcessVariable`: threads inside a call run, a woken client looks again, put
  callbacks end. That the PV becomes ready or is destroyed is not assumed.
* `BandQueue`, `BandStop`: `WF` on each thread; callbacks return.
* `Outbox`: `WF` on the task and the loop, and the client reads.
* `CircuitBreaker`: time passes, search replies come, a connect ends, with a result
  or without.

### Where a comment and the code disagree

With a run:

* `reader_flow`. `event_queue.rs:1013-1016` says of a reader's poll that an entry
  withheld by EVENTS_OFF "is released by the same `wake_readers` call
  `flow_ctrl_off` makes". The reader tests the flag under the queue's lock only,
  `flow_ctrl_off` takes the chain's: the reader sees the flag set, the flag is
  cleared and the empty waker slot woken, the reader parks. The circuit consumer
  holds the chain lock while it polls, and `NoLostWake` holds for it; the CA server
  toggles flow control on circuits only.
* `outbox_late`. `outbox.rs:133` says that every monitor frame is enqueued inside
  `deliver`. A failed read is answered outside it (`tcp.rs:7681`), so its status can
  follow the confirmation of a cancel. No *value* can: `OutboxSound`.

Noticed while modelling; the properties above are stated with them in mind:

* `event_queue.rs:983` and `:920-922`: with two readers of one queue, a cancelled
  reader's entry keeps the ring non-empty while the other parks, and the next post
  wakes nobody. It holds for a reader that owns its `EventUser` (`AloneWoken`).
* `pv.rs:1615`, `:1699-1705` and `:1851-1854`: `set` posts after it releases the value, and
  `post_alarm` after it released the value it read, so two setters, or a setter and an
  alarm, can leave a monitor with the older value. `MonitorsServed` says that the newest
  was sent all the same, and is the last unless its store met such a post. `pv.rs:1630`
  and `:1150`: value and metadata are two holds, and can be of two setters.
* `scan_once.rs:108` and `:99`, `:421`: a stop that runs whole between `ensure_worker` and
  the push leaves the request with no worker until the next; `:429-438`: a tail's stop
  leaves the flag set for its own worker ("it exits once this returns and the queue is
  empty, so the flag stays set"), but another stop that meets it finds the slot empty and
  clears the flag. If that worker had not seen it, it goes on beside the next request's
  worker, and a stop that waits for it waits for ever. `OneWorker` allows exactly that:
  besides one worker, only ones whose tail called stop.
* `callback_executor.rs:705-710` and `future_exec.rs:74-81`: when a band shuts down between
  `schedule_task`'s test and its push, and its workers leave, the entry stays on the ring
  (`Stranded`): nobody polls or cancels it while the band's memory is kept, and the joiner
  waits, where the comment has it that "a `JoinFuture` therefore never strands".
  `TasksClaimed` says that this is the only way an entry is left, and `RuntimeSettled`
  that every other handle resolves, with the band shut down or not.
* `save_file.rs:234-239`, `:279-283`, `:394-409`: a failed sync, of the file or of its
  directory, and an element of an array that was not written are not reported to the
  caller: the save counts as done. `BootFindsNewest` makes exceptions of these saves.
* `monitor_control.rs:142` and `:31`: a value noted before it is counted subtracts from
  zero, saturating, and the late add stays: the count drifts up, never down
  (`GateSound` states that side).
* `tcp.rs:7175` and `outbox.rs:48`: status updates hold no credit, and their number is
  not bounded by it.
* `circuit_breaker.rs:285` and `:204`: failing breakers are not evicted, and the map can
  pass `MAX_BREAKERS`.
* `backup.rs:241` and `:148`, `:287`: after a failed `publish_savb` the next cycle finds a
  whole but older `.savB` and replaces the `.sav` that is in no other file.

## 4. Proofs

Each theorem holds for every value of the constants allowed by the named
assumption, any number of actors and unbounded histories; the bounds of the runs
are parameters of them. The assumptions are `ASSUME`s of the modules, which the runs
evaluate; that of `ScanOnce`, which `MCRuntime` instantiates, is repeated there.

### The circuit (`EvQueProofs`, `EventUserProofs`)

From `SizeAssumption` (`EVENT_ENTRIES >= 1`, `EVENTS_PER_QUE >= 2`, that many slots),
`RunAssumption` and `SentinelAssumption` (`NoEntry` and `NoSub` are not an entry and a
subscription).

* `Invariance`, `TypeCorrect`, `RingsSound`, `SlotsAccounted`. `IInv` is `TypeOK` and
  `QueOK` of each queue: its type, `RingOK`, `SlotsOK`. Neither part is inductive alone.
  That the ring never fills rests on `Headroom` (past the threshold, entries are
  first entries of their monitors, so at most one per attached monitor is left to
  come) with the quota's cap on monitors (`SlotsNamed`); that a retired entry can be
  accounted for rests on `Contiguous`, which rests on `CancelledHeld`; that counters
  never go below zero, which typing needs, on `DuplicatesCount` and `EndsCounted`.
  `EvQueProofs` gives the arithmetic of the ring and one lemma per operation: sound
  queue to sound queue under the condition the code tests.
* `BurstsOwnQueues` (`BurstOwnsQueue`). The property counts places with `Cardinality`;
  `ChainsInv` says it first-order: a marked queue is on a chain, a queue on a chain
  is marked, and places are unique.
* `EventsOffHolds` (`GateHolds`), an action property: from `DuplicatesCount`, a nonzero
  duplicate count means a monitor with two entries.
* `OnePassInFlight` (`OneDrainPass`). `DrainInv` adds that a queue with a pass in flight
  is not empty, that the consumer is then neither idle nor parking, and that it is
  at the first queue of its walk: without these a park could leave a pass behind.
* `NoWakeLost` (`NoLostWake`). The property speaks of a consumer asleep; `WakeInv` speaks
  of one on its way there: once it has parked on the first queue a wake can reach
  it; what a queue it has passed has to deliver is owed a wake; what the queue it
  parks on has to deliver came with EVENTS_ON, whose wake waits for the chain lock;
  and a reply behind the poll's look is owed one.
* `Deliveries`, and from it `ValuesInOrder` (`MonitorInOrder`), `NoClassLost`
  (`ClassesNotLost`), `EndOnceAndLast` (`EndAfterLast`). `DeliveryInv` ties a monitor's
  handle to the slab: handles are numbered in attach order, a held slot holds a
  monitor handed out, and, per monitor (`MonOK`), its entries are newer than what it
  saw, increase down the ring, the newest reaches the newest post, and the classes
  owed are those they carry. That posts append, replace or collapse, and takes
  remove the head, is stated once as what each does to `EntriesOf` of any monitor
  (`EvQueProofs`, effects).
* `RepliesFollowPosts` (`ReplyAfterPosts`), an action property. `ReplyInv`: of each reply
  still owed, each value it waits for and a live monitor has not seen has an entry
  that serves it before the mark of its queue (`Kept`); no mark is beyond what its
  queue has held; and a queue this poll has passed, not withheld, has been emptied to
  its mark. A replaced or collapsed entry still serves (`Serves`), and a taken one
  counts towards the mark, which is why counting entries is enough.

### Readers and delivery (`EventReaderProofs`)

* `ReadersAreSound` (`ReadersSound`), from the assumptions of the circuit. `ReaderInv` is
  a sound queue, handles numbered in attach order, and for each monitor what its
  slot and its entries say of its reader (`HandleOK`, `StreamOK`). New here is the
  take from the middle. The code moves the entries ahead of the taken one down a
  place, with the newest-entry marks among them (`ToHead`), but not the mark of the
  taken entry itself, so the queue in between is not sound. `Rotated` moves that mark
  too and is sound; taking the head of either leaves the same queue but for the
  mark of a monitor with no entry left, which nothing reads.
* `CallbacksInWireOrder` (`WireOrder`) and `NoFrameIsLost` (`FramesKept`) from
  `FenceInvariant`, with `FenceBounds`. The properties speak of tickets and of frames
  apart; `FenceInv` ties both to who has them. `Own` is what the reader or one
  subscription has: no two entries share a frame (`OwnedOnce`), an entry's ticket is
  its oldest frame, the tickets outstanding are the entries' (`TicketsOwned`), and
  what no entry has was dealt with (`FramesOwned`). One lemma for each way an entry
  moves (read, pushed, merged, dropped) keeps all four. A backlog is in ticket
  order, so the frame pushed is the newest and a squash keeps the older ticket; the
  loop that calls back has the ticket `last`, and tickets are owned once, so there is
  one such loop. A reply that was let go found no ticket older than its point, so no
  entry has a frame before it.
* `MapsFreedOnce` (`MapsSound`) from `MapInvariant`, with `ListBounds`: a ring of any
  size, none of the writers named as the free mutex, finitely many posts. `PlacesOf`
  lists where a version is; `OnePlace` says there is one such place, and each step
  moves the versions it touches from one to another. A guard is on a version that is
  neither freed nor unpublished (`GuardsOK`): a post only loads the published version,
  whose place is the cell and so not a freed one, and the sweep frees what is unheld.
  The bound on the kept maps is not inductive, as a reader may drop its guard just
  after the sweep looked at its version and kept it. `SweepOK` counts the other way:
  the versions already looked at and kept are no more than the readers that hold none
  still to be looked at. Such a reader never comes to hold one again, for it can only
  load the version just published; at the end of the sweep it says that at most one
  version per reader was kept, and the displaced one is added.

### Simple PV (`ProcessVariableProofs`)

`PVInvariant`: `PVInv`, from the named assumption `Bounds`. Its parts: who is past a
look under the held-writes lock has it (`LockKept`); the put callbacks counted, what
was sent by whom, what is held and whose end is live (`FlightInv`, `SentInv`,
`HeldInv`, `EndInv`); reads past their look (`ReadInv`); the value's read lock, the
list, and the first events past or still to come (`ListInv`, `FirstInv`).

* `HeldWritesGoFirst` (`HeldGoFirst`): the writes a pending PV held are sent in the order
  they were held and before any that found it ready, and the put callbacks in flight
  pass the bound by one at most. While the PV is pending, what was sent and what is still
  held are, one after the other, the writes in the order they arrived (`OrderInv`), until
  the destroy takes them.
  The drain has the held-writes lock until readiness is stored, and a write looks at
  the state under it.
* `NobodyStranded` (`NoneStranded`): a held write has the drain or the destroy to come,
  a postponed one a signal, and a parked read a wake: the setter's that made the PV
  ready or the destroy's, which has not been sent yet.
* `FirstEventsOnce`: a monitor that attaches before, while or after the PV is made
  ready gets one first event. `StoreReady` waits for the value's read lock, so it
  finds no monitor between its attach and its first event.
* `MonitorsAreServed` (`MonitorsServed`), for any number of setters, alarms and access
  changes: `ServedInv` says that a monitor that has not been sent the value is among
  those a post of it under way has yet to reach, and that, unless the value's store met
  a post, every post under way is of the value.

### Output

* `OutboxKept` (`OutboxSound`) from `OutboxInvariant`, with `BoundsAssumption`. `OutboxInv`
  adds `Holding` (where the event task has a permit in hand), needed to conserve
  credit, and `FramesOK` (a confirmed subscription's gate is closed), without which
  an update might be delivered behind a confirmation already queued. The sums of
  credits over a sequence of frames are lemmas about `OnCredit` of an appended, a
  removed and a dropped frame.
* `GateKept` (`GateSound`), with `GateBounds`. `GateInv` adds `Covered`: what was counted
  and what is about to be covers what waits and what the consumer took and has yet
  to note. The saturating subtraction only ever errs upwards.

### Runtime

* `TaskClaimedOnce` (`TasksClaimed`) from `TaskInvariant`, with `TaskBounds` (the threads
  told apart); `OutcomeKept` (`OutcomeStands`). `TaskInv` is the state word read as the
  place of the one claim: which program points go with which state (`ClaimInv`), and
  where the future is then (`FutureInv`); the property's `Cardinality` of claims is too
  coarse to be kept by a step. `EntryAttended`: a worker leaves only an empty ring of a
  band shut down, so an entry pushed while the band was up always has a worker to take
  it (`AttendInv`), and only a late push can be stranded.
* `TimersAreKept` (`TimersKept`) from `TimerInvariant`, with `BoundsAssumption`. To show no
  sleep ends early, `Filed` follows a deadline from the delay computed, to the stamp,
  to the entry, to the callback taken: each is no earlier, and cells to come are not
  marked, so a reset meets no old callback's mark. `Owned` ties an entry to its
  sleep's key, `Awake` says a parked thread was announced.
* `BandsSealed` (`BandSealed`) from `BandInvariant`, with `BandBounds`. A seal reads
  what each worker has finished, one after the other, while they run, so its sum is
  of no one moment. `Counted` bounds it: the word counts what was run, waits, runs or
  is being placed, and a sum so far is no more than the first workers have run by
  now (the partial sums `SumOf`), so a sum equal to the word's count leaves nothing
  that waits or runs. `SealIdle`: a worker that seals has no entry in hand.
  `SlotsOut` counts the ring's slots, and `MarkedOnce` says that a cell is marked
  queued exactly while one entry, requester or worker has its run.

### Client and files

* `ProbedByOne` (`OneProbe`) from `BreakersSound`, `FailingKept` (`FailingRemembered`), with
  `BoundsAssumption`: `InitialCooldown >= ProbeTimeout` (60 s and 30 s in the code). It
  is needed: `ProbeInv` holds over a failure because a breaker opened while a probe
  is fresh stays open until it no longer is.
* `BootFindsSave` (`BootFindsNewest`) from `AutosaveInvariant`, with `BoundsAssumption`;
  `NewestSlotStays`
  (`NewestSlotKept`) with two sequence files or more: with one, it is the newest and is
  replaced. `AutosaveInv` says what the cycle relies on at each step (`Cycle`), that
  modification times tell the newest slot (`Ages`), and what a name may hold after a
  loss of power; values are missing only of saves in `lossy` (`Losses`), and a `.sav` not
  synced is of a save in `unsynced`. Each promise is conditional on what has happened, not on what may:
  it holds until the first damage, or loss of power, that takes it away. The theorems
  have damage, losses of power and sequence files together; the run has them apart,
  with one `do_seq` in its power scene.

### Only model-checked

* Liveness and everything stated with `ENABLED`, out of the prover's reach: the run
  `circuit_live`, `WritesEnd`, `AllLeave`, `OutboxServes`, `NotGivenUp`'s second half,
  `PromisesKept`, `PathSettled`, `RuntimeSettled` (with `ScanOnce`'s safety).
* `BandQueue`'s accounting (`AllAccounted`, `NothingStranded`), and its refinement of
  `Band`: they speak of lists linked through memory (`Walk`, a recursive function),
  and need induction over their length.
* `ListCoherent`: a map's runs and what a removal leaves are filtered sequences
  (`SelectSeq`), defined by recursion over data.
* After a loss of power nothing is promised of files other than the `.sav`.

## 5. Plan

1. More proofs: `Once!OneWorker`. A run of its own for each of the disagreements of section
   3 that has none.
2. `RecordLock`, `Processing`, `PutNotify`: PACT, RPRO, asynchronous completion, the queue
   of waiting put-callbacks, composed with `EventUser`'s replies.
3. `LinkPutQueue`, `CaClient` (search back-off, reconnect), `PvaMonitor`
   (acknowledgement window), `PortActor` (priorities, cancel, timeouts).
4. `NDArrayPool`, the sequencer's state sets, `ProcServ`.

Not planned: record types, calc engine, codecs, drivers, image processing and
parsing, which are sequential routines or arithmetic where tests reach further;
`PROJECT.json` gives the reason for each.

## 6. Running

    tlc -workers 2 -config EventUserRing.cfg MCEventUser
    tlapm EventUserProofs.tla

The runs take from seconds to about three minutes each, the proofs of the circuit
the longest of the proofs.
