------------------------------ MODULE BandQueue ------------------------------
(***************************************************************************)
(* One callback band at the grain of its atomic operations: the tagged     *)
(* Treiber stacks `inbox`, `ready`, `free_ring` and `free_task` over an    *)
(* arena of recycled nodes, the requesters that push, the workers that     *)
(* take the whole inbox and publish it in submission order, and the        *)
(* Parking a worker sleeps in.                                             *)
(*                                                                         *)
(* One step is one access to shared memory, except that stores to a node   *)
(* only its owner can reach are taken with the access that precedes them,  *)
(* and a load whose value is only compared by the CAS of the same loop is  *)
(* taken with that CAS.  Memory is sequentially consistent.  A root is an  *)
(* index and its tag; a link is an index, its tag being compared nowhere.  *)
(***************************************************************************)
EXTENDS Integers, Sequences, FiniteSets, SequencesExt

CONSTANTS
    Requesters,             \* threads that request callbacks or wake tasks
    NumWorkers,             \* threads of the band, one parking slot each
    RingSlots,              \* callbackQueueSize
    ChunkLen, MaxChunks,    \* the run-queue supply grows by chunks
    ReturnEvery,            \* RETURN_EVERY
    TaskEntries,            \* which of 1 .. MaxRequests are run-queue entries
    MaxRequests, CanShutDown, IDX_NONE

ASSUME SizeAssumption ==
    /\ NumWorkers \in Nat \ {0} /\ RingSlots \in Nat /\ ChunkLen \in Nat
    /\ MaxChunks \in Nat /\ ReturnEvery \in Nat \ {0} /\ MaxRequests \in Nat
    /\ TaskEntries \subseteq 1 .. MaxRequests
    /\ Requesters \cap Nat = {} /\ IDX_NONE \notin Nat /\ CanShutDown \in BOOLEAN

Workers == 1 .. NumWorkers
Threads == Requesters \cup Workers
Entries == 1 .. MaxRequests
RingEntries == Entries \ TaskEntries
Nodes == 0 .. (RingSlots + ChunkLen * MaxChunks - 1)
RingNodes == 0 .. (RingSlots - 1)
Index == Nodes \cup {IDX_NONE}
Word == [idx : Index, tag : Nat]
Stacks == {"inbox", "ready", "free_ring", "free_task"}

VARIABLES
    root, link, value,      \* the stacks' roots, the nodes' links and values
    ring_used, chunks,      \* Pool::ring_used, chunks linked so far
    grower,                 \* who holds Pool::grower, or IDX_NONE
    sleepers, event, token, \* Parking: the count, each slot's Event, its park token
    pc, reg,                \* each thread: where it is, its registers
    at, returns,            \* each worker: ReadyCursor and Returns
    shutdown, toWake,       \* the SHUTDOWN bit of the band's word, slots wake_all has left
    issued, ran             \* requests made so far; what each worker ran, in order

arena == <<root, link, value>>
parking == <<sleepers, event, token>>
worker == <<at, returns>>
stopping == <<shutdown, toWake>>
vars == <<root, link, value, ring_used, chunks, grower, sleepers, event, token,
          pc, reg, at, returns, shutdown, toWake, issued, ran>>

None == 0
NoWord == [idx |-> IDX_NONE, tag |-> 0]
NoReg == [head |-> NoWord, next |-> IDX_NONE, node |-> IDX_NONE, tail |-> IDX_NONE,
          entry |-> None, more |-> FALSE, scan |-> 0, claimed |-> FALSE]
NoReturns == [head |-> IDX_NONE, tail |-> IDX_NONE, n |-> 0]

\* Mutant of bump: the tag is not raised, so a recycled head looks current.
bump_NoTag(prev, idx) == [idx |-> idx, tag |-> prev.tag]

bump(prev, idx) == [idx |-> idx, tag |-> prev.tag + 1]

return_batch ==
    IF NumWorkers < 2 THEN 1
    ELSE LET n == RingSlots \div (2 * NumWorkers)
         IN  IF n < 1 THEN 1 ELSE IF n > ReturnEvery THEN ReturnEvery ELSE n

\* The nodes from i on, in stack order, i first.
Walk(i) ==
    LET nth[n \in 0 .. Cardinality(Nodes)] ==
            IF n = 0 THEN i
            ELSE LET p == nth[n - 1] IN IF p = IDX_NONE THEN IDX_NONE ELSE link[p]
    IN  SelectSeq([n \in 1 .. Cardinality(Nodes) + 1 |-> nth[n - 1]],
                  LAMBDA x : x # IDX_NONE)

\* The nodes of a chain from i to its tail.
UpTo(i, tail) ==
    LET chain == Walk(i)
    IN  {chain[k] : k \in {k \in DOMAIN chain : \A j \in 1 .. (k - 1) : chain[j] # tail}}

Goto(t, to) == pc' = [pc EXCEPT ![t] = to]
Set(t, r) == reg' = [reg EXCEPT ![t] = r]
Supply(t) == IF reg[t].entry \in TaskEntries THEN "free_task" ELSE "free_ring"

Init ==
    /\ root = [s \in Stacks |->
                IF s = "free_ring" /\ RingSlots > 0 THEN [idx |-> 0, tag |-> 1] ELSE NoWord]
    /\ link = [n \in Nodes |-> IF n + 1 \in RingNodes THEN n + 1 ELSE IDX_NONE]
    /\ value = [n \in Nodes |-> None]
    /\ ring_used = 0 /\ chunks = 0 /\ grower = IDX_NONE
    /\ sleepers = 0
    /\ event = [w \in Workers |-> "AWAKE"] /\ token = [w \in Workers |-> FALSE]
    /\ pc = [t \in Threads |-> IF t \in Workers THEN "pop_into" ELSE "idle"]
    /\ reg = [t \in Threads |-> NoReg]
    /\ at = [w \in Workers |-> NoWord]
    /\ returns = [w \in Workers |-> NoReturns]
    /\ shutdown = FALSE /\ toWake = {} /\ issued = 0
    /\ ran = [w \in Workers |-> <<>>]

-----------------------------------------------------------------------------
(* A requester: push_ring or push_task, then publish.                      *)

Request(r) ==
    /\ pc[r] = "idle" /\ issued < MaxRequests
    /\ issued' = issued + 1
    /\ IF shutdown
       THEN UNCHANGED <<pc, reg>>                    \* refused by the word
       ELSE Set(r, [NoReg EXCEPT !.entry = issued + 1]) /\ Goto(r, "alloc")
    /\ UNCHANGED <<arena, ring_used, chunks, grower, parking, worker, stopping, ran>>

\* Pool::pop: the head, its link, the CAS.
PopHead(r) ==
    /\ pc[r] \in {"alloc", "grow_alloc"}
    /\ LET h == root[Supply(r)] IN
       /\ Set(r, [reg[r] EXCEPT !.head = h, !.claimed = (pc[r] = "grow_alloc")])
       /\ Goto(r, IF h.idx = IDX_NONE THEN "no_node" ELSE "pop_next")
    /\ UNCHANGED <<arena, ring_used, chunks, grower, parking, worker, stopping, issued, ran>>

PopNext(r) ==
    /\ pc[r] = "pop_next"
    /\ Set(r, [reg[r] EXCEPT !.next = link[reg[r].head.idx]])
    /\ Goto(r, "pop_cas")
    /\ UNCHANGED <<arena, ring_used, chunks, grower, parking, worker, stopping, issued, ran>>

PopCas(r) ==
    /\ pc[r] = "pop_cas"
    /\ LET s == Supply(r) IN
       IF root[s] = reg[r].head
       THEN /\ root' = [root EXCEPT ![s] = bump(reg[r].head, reg[r].next)]
            /\ Set(r, [NoReg EXCEPT !.entry = reg[r].entry, !.node = reg[r].head.idx])
            /\ Goto(r, IF s = "free_ring" THEN "count" ELSE "publish")
            /\ grower' = IF reg[r].claimed THEN IDX_NONE ELSE grower
       ELSE /\ Goto(r, IF reg[r].claimed THEN "grow_alloc" ELSE "alloc")
            /\ UNCHANGED <<root, reg, grower>>
    /\ UNCHANGED <<link, value, ring_used, chunks, parking, worker, stopping, issued, ran>>

\* An empty supply: the ring is full, the run queue grows under Pool::grower.
NoNode(r) ==
    /\ pc[r] = "no_node"
    /\ \/ /\ Supply(r) = "free_ring"
          /\ Set(r, NoReg) /\ Goto(r, "idle") /\ UNCHANGED grower
       \/ /\ Supply(r) = "free_task" /\ ~reg[r].claimed /\ grower = IDX_NONE
          /\ grower' = r /\ Goto(r, "grow_alloc") /\ UNCHANGED reg
       \/ /\ Supply(r) = "free_task" /\ reg[r].claimed
          /\ IF chunks < MaxChunks
             THEN Goto(r, "link") /\ UNCHANGED <<reg, grower>>
             ELSE Set(r, NoReg) /\ Goto(r, "idle") /\ grower' = IDX_NONE
    /\ UNCHANGED <<arena, ring_used, chunks, parking, worker, stopping, issued, ran>>

\* Pool::grow and Pool::link: the chunk's nodes, chained, onto the supply.
LinkChunk(r) ==
    /\ pc[r] = "link"
    /\ LET from == RingSlots + chunks * ChunkLen
           to == from + ChunkLen
       IN  /\ link' = [n \in Nodes |->
                        IF n \notin from .. to - 1 THEN link[n]
                        ELSE IF n = to - 1 THEN root["free_task"].idx ELSE n + 1]
           /\ root' = [root EXCEPT !["free_task"] = bump(@, from)]
    /\ chunks' = chunks + 1 /\ grower' = IDX_NONE
    /\ Set(r, [reg[r] EXCEPT !.head = NoWord, !.claimed = FALSE]) /\ Goto(r, "alloc")
    /\ UNCHANGED <<value, ring_used, parking, worker, stopping, issued, ran>>

\* alloc_ring: the count follows the slot.
Count(r) ==
    /\ pc[r] = "count"
    /\ ring_used' = ring_used + 1 /\ Goto(r, "publish")
    /\ UNCHANGED <<arena, chunks, grower, parking, worker, reg, stopping, issued, ran>>

PublishAim(r) ==
    /\ pc[r] = "publish"
    /\ LET n == reg[r].node IN
       /\ value' = [value EXCEPT ![n] = reg[r].entry]
       /\ link' = [link EXCEPT ![n] = root["inbox"].idx]
    /\ Set(r, [reg[r] EXCEPT !.head = root["inbox"]]) /\ Goto(r, "publish_cas")
    /\ UNCHANGED <<root, ring_used, chunks, grower, parking, worker, stopping, issued, ran>>

\* Mutant of Recruits: the push that begins a batch recruits nobody.
Recruits_Never(head) == FALSE

\* The push that finds the inbox empty begins a batch and recruits for it.
Recruits(head) == head.idx = IDX_NONE

PublishCas(r) ==
    /\ pc[r] = "publish_cas"
    /\ IF root["inbox"] = reg[r].head
       THEN /\ root' = [root EXCEPT !["inbox"] = bump(@, reg[r].node)]
            /\ Goto(r, IF Recruits(reg[r].head) THEN "wake_one" ELSE "idle")
            /\ Set(r, NoReg)
       ELSE Goto(r, "publish") /\ UNCHANGED <<root, reg>>
    /\ UNCHANGED <<link, value, ring_used, chunks, grower, parking, worker, stopping, issued, ran>>

-----------------------------------------------------------------------------
(* Parking::wake_one, by a requester or by a worker that leaves work.      *)

Resume(t) == IF t \in Workers THEN "run" ELSE "idle"

WakeOne(t) ==
    /\ pc[t] = "wake_one"
    /\ IF sleepers = 0 THEN Goto(t, Resume(t)) /\ UNCHANGED reg
       ELSE Goto(t, "scan") /\ Set(t, [reg[t] EXCEPT !.scan = 1])
    /\ UNCHANGED <<arena, ring_used, chunks, grower, parking, worker, stopping, issued, ran>>

\* The scan ends at the slot it claims itself, or past the last one.
Scanned(t, claimed) ==
    LET over == claimed \/ reg[t].scan = NumWorkers
    IN  /\ Goto(t, IF over THEN Resume(t) ELSE "scan")
        /\ Set(t, [reg[t] EXCEPT !.claimed = FALSE, !.scan = IF over THEN 0 ELSE @ + 1])

\* Event::signal_if_parked up to its unpark.
Signal(t) ==
    /\ pc[t] = "scan"
    /\ LET w == reg[t].scan IN
       IF event[w] = "AWAKE" THEN Scanned(t, FALSE) /\ UNCHANGED event
       ELSE /\ event' = [event EXCEPT ![w] = "CLAIMED"]
            /\ Set(t, [reg[t] EXCEPT !.claimed = (event[w] = "SLEEPING")])
            /\ Goto(t, "unpark")
    /\ UNCHANGED <<arena, ring_used, chunks, grower, sleepers, token, worker, stopping, issued, ran>>

Unpark(t) ==
    /\ pc[t] = "unpark"
    /\ token' = [token EXCEPT ![reg[t].scan] = TRUE]
    /\ Scanned(t, reg[t].claimed)
    /\ UNCHANGED <<arena, ring_used, chunks, grower, sleepers, event, worker, stopping, issued, ran>>

-----------------------------------------------------------------------------
(* A worker: pop_into.                                                     *)

PopInto(w) ==
    /\ pc[w] = "pop_into"
    /\ Set(w, [NoReg EXCEPT !.head = IF at[w].idx # IDX_NONE THEN at[w] ELSE root["ready"]])
    /\ Goto(w, "look")
    /\ UNCHANGED <<arena, ring_used, chunks, grower, parking, worker, stopping, issued, ran>>

\* The head it holds: look into the inbox when it is empty, else read its link.
Look(w) ==
    /\ pc[w] = "look"
    /\ LET h == reg[w].head IN
       IF h.idx = IDX_NONE
       THEN /\ at' = [at EXCEPT ![w] = h]
            /\ Goto(w, IF root["inbox"].idx = IDX_NONE THEN "flush" ELSE "refill")
            /\ UNCHANGED reg
       ELSE /\ Set(w, [reg[w] EXCEPT !.next = link[h.idx]])
            /\ Goto(w, "ready_cas") /\ UNCHANGED at
    /\ UNCHANGED <<arena, ring_used, chunks, grower, parking, returns, stopping, issued, ran>>

ReadyCas(w) ==
    /\ pc[w] = "ready_cas"
    /\ LET h == reg[w].head
           taken == bump(h, reg[w].next)
       IN  IF root["ready"] = h
           THEN /\ root' = [root EXCEPT !["ready"] = taken]
                /\ at' = [at EXCEPT ![w] = taken]
                /\ Set(w, [NoReg EXCEPT !.node = h.idx, !.more = (reg[w].next # IDX_NONE)])
                /\ Goto(w, "stage")
           ELSE /\ Set(w, [reg[w] EXCEPT !.head = root["ready"]])
                /\ Goto(w, "look") /\ UNCHANGED <<root, at>>
    /\ UNCHANGED <<link, value, ring_used, chunks, grower, parking, returns, stopping, issued, ran>>

\* The inbox is newest first, submission order is the other way round.
Submission(chain) == Reverse(chain)

Linked(order) ==
    [n \in Nodes |->
        IF \E i \in DOMAIN order : order[i] = n
        THEN LET i == CHOOSE i \in DOMAIN order : order[i] = n
             IN  IF i = Len(order) THEN IDX_NONE ELSE order[i + 1]
        ELSE link[n]]

\* refill: the whole inbox in one CAS, relinked oldest first.  The registers
\* hold the oldest node, the rest of the batch (next) and its last node (tail).
Refill(w) ==
    /\ pc[w] = "refill"
    /\ root' = [root EXCEPT !["inbox"] = bump(@, IDX_NONE)]
    /\ LET order == Submission(Walk(root["inbox"].idx)) IN
       \/ /\ order = <<>>                    \* another worker took the chain
          /\ Set(w, [NoReg EXCEPT !.head = root["ready"]]) /\ Goto(w, "look")
          /\ UNCHANGED link
       \/ /\ order # <<>>
          /\ link' = Linked(order)
          /\ LET alone == Len(order) = 1 IN
             /\ Set(w, [NoReg EXCEPT !.node = order[1],
                                     !.next = IF alone THEN IDX_NONE ELSE order[2],
                                     !.tail = order[Len(order)],
                                     !.head = at[w], !.more = ~alone])
             /\ Goto(w, IF alone THEN "stage" ELSE "publish_ready")
    /\ UNCHANGED <<value, ring_used, chunks, grower, parking, worker, stopping, issued, ran>>

PublishReadyAim(w) ==
    /\ pc[w] = "publish_ready"
    /\ link' = [link EXCEPT ![reg[w].tail] = reg[w].head.idx]
    /\ Goto(w, "publish_ready_cas")
    /\ UNCHANGED <<root, value, ring_used, chunks, grower, parking, worker, reg, stopping, issued, ran>>

PublishReadyCas(w) ==
    /\ pc[w] = "publish_ready_cas"
    /\ IF root["ready"] = reg[w].head
       THEN LET linked == bump(reg[w].head, reg[w].next) IN
            /\ root' = [root EXCEPT !["ready"] = linked]
            /\ at' = [at EXCEPT ![w] = linked]
            /\ Goto(w, "stage") /\ UNCHANGED reg
       ELSE /\ Set(w, [reg[w] EXCEPT !.head = root["ready"]])
            /\ Goto(w, "publish_ready") /\ UNCHANGED <<root, at>>
    /\ UNCHANGED <<link, value, ring_used, chunks, grower, parking, returns, stopping, issued, ran>>

-----------------------------------------------------------------------------
(* Giving nodes back: Returns::stage and flush, dealloc and dealloc_chain. *)

\* A worker that has an entry goes on to run it; one that flushed parks.
AfterGiving(entry, more) ==
    IF entry = None THEN "asleep?" ELSE IF more THEN "wake_one" ELSE "run"

\* The popped node's value is taken and the node staged, given back when the
\* chain is complete.  A band of return_batch 1 gives every node straight back.
Stage(w) ==
    /\ pc[w] = "stage"
    /\ LET n == reg[w].node
           b == returns[w]
           popped == [NoReg EXCEPT !.entry = value[n], !.more = reg[w].more]
           staged == [head |-> n, tail |-> IF b.tail = IDX_NONE THEN n ELSE b.tail, n |-> b.n + 1]
       IN  /\ value' = [value EXCEPT ![n] = None]
           /\ \/ /\ n \notin RingNodes              \* straight back, uncounted
                 /\ Set(w, [popped EXCEPT !.node = n, !.tail = n]) /\ Goto(w, "give")
                 /\ UNCHANGED <<link, returns, ring_used>>
              \/ /\ n \in RingNodes /\ staged.n = return_batch
                 /\ link' = [link EXCEPT ![n] = b.head]
                 /\ ring_used' = ring_used - staged.n
                 /\ Set(w, [popped EXCEPT !.node = n, !.tail = staged.tail]) /\ Goto(w, "give")
                 /\ returns' = [returns EXCEPT ![w] = NoReturns]
              \/ /\ n \in RingNodes /\ staged.n < return_batch
                 /\ link' = [link EXCEPT ![n] = b.head]
                 /\ returns' = [returns EXCEPT ![w] = staged]
                 /\ Goto(w, AfterGiving(popped.entry, popped.more)) /\ Set(w, popped)
                 /\ UNCHANGED ring_used
    /\ UNCHANGED <<root, chunks, grower, parking, at, stopping, issued, ran>>

Flush(w) ==
    /\ pc[w] = "flush"
    /\ LET b == returns[w] IN
       IF b.n = 0 THEN Set(w, NoReg) /\ Goto(w, "asleep?") /\ UNCHANGED <<ring_used, returns>>
       ELSE /\ ring_used' = ring_used - b.n
            /\ returns' = [returns EXCEPT ![w] = NoReturns]
            /\ Set(w, [NoReg EXCEPT !.node = b.head, !.tail = b.tail]) /\ Goto(w, "give")
    /\ UNCHANGED <<arena, chunks, grower, parking, at, stopping, issued, ran>>

Home(n) == IF n \in RingNodes THEN "free_ring" ELSE "free_task"

GiveAim(w) ==
    /\ pc[w] = "give"
    /\ LET s == Home(reg[w].node) IN
       /\ link' = [link EXCEPT ![reg[w].tail] = root[s].idx]
       /\ Set(w, [reg[w] EXCEPT !.head = root[s]])
    /\ Goto(w, "give_cas")
    /\ UNCHANGED <<root, value, ring_used, chunks, grower, parking, worker, stopping, issued, ran>>

GiveCas(w) ==
    /\ pc[w] = "give_cas"
    /\ LET s == Home(reg[w].node) IN
       IF root[s] = reg[w].head
       THEN /\ root' = [root EXCEPT ![s] = bump(@, reg[w].node)]
            /\ Set(w, [NoReg EXCEPT !.entry = reg[w].entry, !.more = reg[w].more])
            /\ Goto(w, AfterGiving(reg[w].entry, reg[w].more))
       ELSE Goto(w, "give") /\ UNCHANGED <<root, reg>>
    /\ UNCHANGED <<link, value, ring_used, chunks, grower, parking, worker, stopping, issued, ran>>

-----------------------------------------------------------------------------
(* The worker loop: run what was popped, or park until there is something. *)

\* The callback itself, which may block for long: no invariant counts on it.
Run(w) ==
    /\ pc[w] = "run"
    /\ ran' = [ran EXCEPT ![w] = Append(@, reg[w].entry)]
    /\ Set(w, NoReg) /\ Goto(w, "pop_into")
    /\ UNCHANGED <<arena, ring_used, chunks, grower, parking, worker, stopping, issued>>

\* Nothing to run: exit if the band is told to, else park_until.
AsleepOrGone(w) ==
    /\ pc[w] = "asleep?"
    /\ IF shutdown THEN Goto(w, "gone") /\ UNCHANGED sleepers
       ELSE Goto(w, "announce") /\ sleepers' = sleepers + 1
    /\ UNCHANGED <<arena, ring_used, chunks, grower, event, token, worker, reg, stopping, issued, ran>>

Announce(w) ==
    /\ pc[w] = "announce"
    /\ event' = [event EXCEPT ![w] = "SLEEPING"] /\ Goto(w, "check_ready")
    /\ UNCHANGED <<arena, ring_used, chunks, grower, sleepers, token, worker, reg, stopping, issued, ran>>

\* ready(): is_empty's two loads, then the shutdown bit.
CheckReady(w) ==
    /\ pc[w] = "check_ready"
    /\ Goto(w, IF root["ready"].idx # IDX_NONE THEN "awake" ELSE "check_inbox")
    /\ UNCHANGED <<arena, ring_used, chunks, grower, parking, worker, reg, stopping, issued, ran>>

\* Mutant of CheckInbox: only `ready` is looked at before the park.
CheckInbox_Skipped(w) ==
    /\ pc[w] = "check_inbox" /\ Goto(w, "check_shutdown")
    /\ UNCHANGED <<arena, ring_used, chunks, grower, parking, worker, reg, stopping, issued, ran>>

CheckInbox(w) ==
    /\ pc[w] = "check_inbox"
    /\ Goto(w, IF root["inbox"].idx # IDX_NONE THEN "awake" ELSE "check_shutdown")
    /\ UNCHANGED <<arena, ring_used, chunks, grower, parking, worker, reg, stopping, issued, ran>>

\* Mutant of CheckShutdown: the bit is not part of what the park waits for.
CheckShutdown_Skipped(w) ==
    /\ pc[w] = "check_shutdown" /\ Goto(w, "parked")
    /\ UNCHANGED <<arena, ring_used, chunks, grower, parking, worker, reg, stopping, issued, ran>>

CheckShutdown(w) ==
    /\ pc[w] = "check_shutdown"
    /\ Goto(w, IF shutdown THEN "awake" ELSE "parked")
    /\ UNCHANGED <<arena, ring_used, chunks, grower, parking, worker, reg, stopping, issued, ran>>

\* std::thread::park returns for a token, and may return without one.
Unparked(w) ==
    /\ pc[w] = "parked" /\ token[w]
    /\ token' = [token EXCEPT ![w] = FALSE] /\ Goto(w, "announce")
    /\ UNCHANGED <<arena, ring_used, chunks, grower, sleepers, event, worker, reg, stopping, issued, ran>>

Spurious(w) ==
    /\ pc[w] = "parked" /\ ~token[w] /\ Goto(w, "announce")
    /\ UNCHANGED <<arena, ring_used, chunks, grower, parking, worker, reg, stopping, issued, ran>>

\* wait_until's last store, then the count, and the carried root dropped.
Awake(w) ==
    /\ pc[w] = "awake"
    /\ event' = [event EXCEPT ![w] = "AWAKE"] /\ Goto(w, "uncount")
    /\ UNCHANGED <<arena, ring_used, chunks, grower, sleepers, token, worker, reg, stopping, issued, ran>>

Uncount(w) ==
    /\ pc[w] = "uncount"
    /\ sleepers' = sleepers - 1 /\ at' = [at EXCEPT ![w] = NoWord] /\ Goto(w, "pop_into")
    /\ UNCHANGED <<arena, ring_used, chunks, grower, event, token, returns, reg, stopping, issued, ran>>

-----------------------------------------------------------------------------
(* request_shutdown: the bit, then wake_all, one slot after the other.     *)

RequestShutdown ==
    /\ CanShutDown /\ ~shutdown
    /\ shutdown' = TRUE /\ toWake' = Workers
    /\ UNCHANGED <<arena, ring_used, chunks, grower, parking, pc, reg, worker, issued, ran>>

Wake(w) ==
    /\ w \in toWake /\ \A v \in toWake : w <= v
    /\ toWake' = toWake \ {w}
    /\ event' = [event EXCEPT ![w] = "AWAKE"] /\ token' = [token EXCEPT ![w] = TRUE]
    /\ UNCHANGED <<arena, ring_used, chunks, grower, sleepers, pc, reg, worker, shutdown, issued, ran>>

-----------------------------------------------------------------------------
RequesterStep(r) ==
    \/ PopHead(r) \/ PopNext(r) \/ PopCas(r) \/ NoNode(r) \/ LinkChunk(r) \/ Count(r)
    \/ PublishAim(r) \/ PublishCas(r) \/ WakeOne(r) \/ Signal(r) \/ Unpark(r)

WorkerStep(w) ==
    \/ PopInto(w) \/ Look(w) \/ ReadyCas(w) \/ Refill(w) \/ PublishReadyAim(w)
    \/ PublishReadyCas(w) \/ Stage(w) \/ Flush(w) \/ GiveAim(w) \/ GiveCas(w)
    \/ WakeOne(w) \/ Signal(w) \/ Unpark(w) \/ AsleepOrGone(w) \/ Announce(w)
    \/ CheckReady(w) \/ CheckInbox(w) \/ CheckShutdown(w) \/ Unparked(w) \/ Awake(w)
    \/ Uncount(w)

Next ==
    \/ \E r \in Requesters : Request(r) \/ RequesterStep(r)
    \/ \E w \in Workers : WorkerStep(w) \/ Run(w) \/ Spurious(w) \/ Wake(w)
    \/ RequestShutdown

\* Every thread is scheduled by the OS; a request is made or not, a park
\* returns early or not, the band is shut down or not.
Fairness ==
    /\ \A r \in Requesters : WF_vars(RequesterStep(r))
    /\ \A w \in Workers : WF_vars(WorkerStep(w)) /\ WF_vars(Run(w)) /\ WF_vars(Wake(w))

Spec == Init /\ [][Next]_vars
FairSpec == Spec /\ Fairness

-----------------------------------------------------------------------------
TypeOK ==
    /\ root \in [Stacks -> Word] /\ link \in [Nodes -> Index]
    /\ value \in [Nodes -> Entries \cup {None}]
    /\ ring_used \in Int /\ chunks \in 0 .. MaxChunks
    /\ grower \in Requesters \cup {IDX_NONE}
    /\ sleepers \in 0 .. NumWorkers
    /\ event \in [Workers -> {"AWAKE", "SLEEPING", "CLAIMED"}]
    /\ token \in [Workers -> BOOLEAN]
    /\ reg \in [Threads -> [head : Word, next : Index, node : Index, tail : Index,
                            entry : Entries \cup {None}, more : BOOLEAN,
                            scan : 0 .. NumWorkers, claimed : BOOLEAN]]
    /\ at \in [Workers -> Word]
    /\ returns \in [Workers -> [head : Index, tail : Index, n : Nat]]
    /\ shutdown \in BOOLEAN /\ toWake \subseteq Workers
    /\ issued \in 0 .. MaxRequests /\ ran \in [Workers -> Seq(Entries)]

\* The nodes a thread holds on no stack: a requester's own, a batch being
\* published, a popped node, a chain being given back or kept for later.
Owned(t) ==
    CASE pc[t] \in {"count", "publish", "publish_cas"} -> {reg[t].node}
      [] pc[t] \in {"publish_ready", "publish_ready_cas"} ->
            {reg[t].node} \cup UpTo(reg[t].next, reg[t].tail)
      [] pc[t] = "stage" -> {reg[t].node}
      [] pc[t] \in {"give", "give_cas"} -> UpTo(reg[t].node, reg[t].tail)
      [] OTHER -> {}

Kept(w) == ToSet(Walk(returns[w].head))

OnStack(s) == ToSet(Walk(root[s].idx))

\* Every node of a linked chunk is in exactly one place: on one stack, in one
\* worker's kept chain, or owned by one thread.  A pop whose CAS takes a
\* recycled head for the one it read puts a node in two places or in none.
NodesAccounted ==
    LET stacked == [s \in Stacks |-> OnStack(s)]
        owned == [t \in Threads |-> Owned(t)]
        kept == [w \in Workers |-> Kept(w)]
    IN  \A n \in 0 .. (RingSlots + chunks * ChunkLen - 1) :
            Cardinality({s \in Stacks : n \in stacked[s]})
                + Cardinality({t \in Threads : n \in owned[t]})
                + Cardinality({w \in Workers : n \in kept[w]}) = 1

\* Pool::ring_used, read by callbackQueueStatus at any moment, is a depth the
\* ring can have: the count is raised after its slot was taken and lowered
\* before it is given back, so it never passes zero on the way.
DepthInRange == 0 <= ring_used /\ ring_used <= RingSlots

\* A worker that will look into the stacks again before it can sleep, whatever
\* the callbacks now running do.
Looking(w) ==
    \/ pc[w] \in {"pop_into", "look", "ready_cas", "refill", "announce", "check_ready",
                  "awake", "uncount", "flush", "asleep?"}
    \/ pc[w] = "check_inbox" /\ root["inbox"].idx # IDX_NONE
    \/ pc[w] \in {"check_inbox", "check_shutdown", "parked"} /\ token[w]
    \/ pc[w] \in {"give", "give_cas"} /\ reg[w].entry = None

Recruiting(t) ==
    \/ pc[t] \in {"wake_one", "scan", "unpark"}
    \/ pc[t] \in {"publish_ready_cas", "stage", "give", "give_cas"} /\ reg[t].more

\* A callback that blocks strands nothing: while an entry waits in inbox or
\* ready and a worker of the band sleeps, some thread that is not inside a
\* callback is going to look again or to wake a sleeper.
NothingStranded ==
    (/\ root["inbox"].idx # IDX_NONE \/ root["ready"].idx # IDX_NONE
     /\ \E w \in Workers : pc[w] = "parked" /\ ~token[w])
    => \/ \E w \in Workers : Looking(w)
       \/ \E t \in Threads : Recruiting(t)

\* While one worker alone has taken entries, they run in the order their
\* pushes linked them, however many batches they came in.
SubmissionOrder ==
    \A w \in Workers :
        (\A v \in Workers \ {w} : ran[v] = <<>> /\ reg[v].node = IDX_NONE /\ reg[v].entry = None)
        => \A i, j \in DOMAIN ran[w] : i < j => ran[w][i] < ran[w][j]

\* The band as its users see it.
Promise == INSTANCE Band WITH
    Capacity <- RingSlots,
    queued <- {value[n] : n \in Nodes \ UNION {Owned(r) : r \in Requesters}} \ {None},
    running <- [w \in Workers |-> reg[w].entry],
    done <- UNION {ToSet(ran[w]) : w \in Workers},
    stopped <- shutdown

\* A band of lock-free stacks and parked workers keeps the promises of Band,
\* that every entry accepted by a band left running runs included.
KeepsPromise == Promise!Spec

\* Told to shut down, every worker leaves, none asleep in its slot.
AllLeave == shutdown ~> \A w \in Workers : pc[w] = "gone"
=============================================================================
