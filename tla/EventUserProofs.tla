--------------------------- MODULE EventUserProofs ---------------------------
(***************************************************************************)
(* What holds of a circuit for every number of producers, monitors, queues *)
(* and posts, every ring size and every interleaving.                      *)
(*                                                                         *)
(* Its queues are sound: TypeOK and QueOK of each queue of the chain are   *)
(* inductive together, by the operation lemmas of EvQueProofs.  On that    *)
(* rest the bursts (ChainsInv), the drain passes (DrainInv), the wakes     *)
(* (WakeInv), what each monitor is delivered (DeliveryInv), and the        *)
(* replies that follow it (ReplyInv).                                      *)
(***************************************************************************)
EXTENDS EventUser, EvQueProofs

\* A chain of sound queues.
ChainOK(c) == c \in Seq(QueInner) /\ \A i \in DOMAIN c : QueOK(c[i])

IInv == TypeOK /\ ChainOK(ques)

-----------------------------------------------------------------------------
(* Chains.                                                                 *)

\* Replacing a queue of the chain by a sound one.
LEMMA ChainUpdate ==
    ASSUME NEW c, ChainOK(c), NEW i \in DOMAIN c, NEW x, QueOK(x)
    PROVE  /\ ChainOK([c EXCEPT ![i] = x])
           /\ DOMAIN [c EXCEPT ![i] = x] = DOMAIN c
           /\ Len([c EXCEPT ![i] = x]) = Len(c)
<1> DEFINE d == [c EXCEPT ![i] = x]
<1>1. c \in Seq(QueInner) /\ x \in QueInner BY DEF ChainOK, QueOK
<1>2. d \in Seq(QueInner) /\ DOMAIN d = DOMAIN c /\ Len(d) = Len(c) BY <1>1
<1>3. \A j \in DOMAIN d : d[j] = IF j = i THEN x ELSE c[j] BY <1>1
<1> HIDE DEF d
<1>4. \A j \in DOMAIN d : QueOK(d[j]) BY <1>2, <1>3 DEF ChainOK
<1> QED BY <1>2, <1>4 DEF ChainOK, d

\* A new queue at the end of the chain.
LEMMA ChainAppend ==
    ASSUME NEW c, ChainOK(c)
    PROVE  /\ ChainOK(Append(c, NewQue))
           /\ Len(Append(c, NewQue)) = Len(c) + 1
           /\ DOMAIN Append(c, NewQue) = 1 .. (Len(c) + 1)
<1> DEFINE d == Append(c, NewQue)
<1>1. c \in Seq(QueInner) /\ NewQue \in QueInner BY NewQueOK DEF ChainOK, QueOK
<1>2. d \in Seq(QueInner) /\ Len(d) = Len(c) + 1 /\ DOMAIN d = 1 .. (Len(c) + 1)
    BY <1>1
<1>3. \A j \in DOMAIN d : d[j] = IF j \in DOMAIN c THEN c[j] ELSE NewQue BY <1>1
<1>4. \A j \in DOMAIN d : QueOK(d[j])
  <2> HIDE DEF d
  <2> QED BY <1>3, NewQueOK DEF ChainOK
<1> QED BY <1>2, <1>4 DEF ChainOK

\* The queue the walk is on is in the chain, and a monitor's queue too.
LEMMA AtFacts ==
    ASSUME IInv
    PROVE  /\ at \in DOMAIN ques /\ QueOK(ques[at]) /\ ques # <<>>
           /\ DOMAIN ques = 1 .. Len(ques) /\ Len(ques) \in Nat
           /\ \A i \in DOMAIN ques : QueOK(ques[i]) /\ ques[i] \in QueInner
           /\ \A m \in DOMAIN mons : mons[m].que \in DOMAIN ques /\ mons[m].id \in AttachId
<1>1. ques \in Seq(QueInner) /\ reading \in DOMAIN ques /\ step \in 0 .. (Len(ques) - 1)
    BY DEF IInv, TypeOK
<1>2. Len(ques) \in Nat /\ DOMAIN ques = 1 .. Len(ques) BY <1>1
<1>3. reading \in 1 .. Len(ques) BY <1>1, <1>2
<1>4. at \in 1 .. Len(ques) BY <1>1, <1>2, <1>3 DEF at
<1>5. \A i \in DOMAIN ques : QueOK(ques[i]) /\ ques[i] \in QueInner
    BY DEF IInv, ChainOK, QueOK
<1>6. \A m \in DOMAIN mons : mons[m].que \in DOMAIN ques /\ mons[m].id \in AttachId
  <2>1. mons \in Seq(Monitor) /\ \A m \in DOMAIN mons : mons[m].que \in DOMAIN ques
      BY DEF IInv, TypeOK
  <2>2. \A m \in DOMAIN mons : mons[m] \in Monitor BY <2>1
  <2> QED BY <2>1, <2>2 DEF Monitor
<1> QED BY <1>1, <1>2, <1>4, <1>5, <1>6

-----------------------------------------------------------------------------
(* The chain after a step.                                                 *)

\* The chain grows at its end only, and stays sound.
ChainStep == /\ ChainOK(ques') /\ Len(ques') \in Nat /\ DOMAIN ques' = 1 .. Len(ques')
             /\ Len(ques) <= Len(ques') /\ DOMAIN ques \subseteq DOMAIN ques'

\* A step that leaves the queues alone.
LEMMA SameChain == ASSUME IInv, ques' = ques PROVE ChainStep
BY AtFacts DEF IInv, ChainStep

\* A step that replaces one queue by a sound one.
LEMMA UpdateStep ==
    ASSUME IInv, NEW i \in DOMAIN ques, NEW x, QueOK(x), ques' = [ques EXCEPT ![i] = x]
    PROVE  ChainStep /\ Len(ques') = Len(ques)
<1>1. ChainOK(ques) /\ Len(ques) \in Nat /\ DOMAIN ques = 1 .. Len(ques)
    BY AtFacts DEF IInv
<1>2. ChainOK(ques') /\ DOMAIN ques' = DOMAIN ques /\ Len(ques') = Len(ques)
    BY <1>1, ChainUpdate
<1> QED BY <1>1, <1>2 DEF ChainStep

\* attach_que on a queue of the chain, or on a new one.
LEMMA AttachStep == ASSUME IInv, Attach PROVE ChainStep /\ (\A j \in DOMAIN ques' : j <= Len(ques) + 1)
<1>1. PICK i \in 1 .. (Len(ques) + 1), slot \in Slots, form \in Forms : attach_que(i, slot, form)
    BY DEF Attach
<1> DEFINE chain == IF i > Len(ques) THEN Append(ques, NewQue) ELSE ques
           x == try_attach(chain[i], Len(mons) + 1, slot, form.kind)
<1>2. /\ CanAttach(chain[i]) /\ slot \in chain[i].free
      /\ ques' = [chain EXCEPT ![i] = x]
    BY <1>1 DEF attach_que
<1>3. ChainOK(ques) /\ Len(ques) \in Nat /\ DOMAIN ques = 1 .. Len(ques)
    BY AtFacts DEF IInv
<1>4. /\ ChainOK(chain) /\ i \in DOMAIN chain /\ DOMAIN chain = 1 .. Len(chain)
      /\ Len(chain) \in Nat /\ Len(ques) <= Len(chain) /\ Len(chain) <= Len(ques) + 1
    BY <1>1, <1>3, ChainAppend
<1> HIDE DEF chain
<1>5. QueOK(chain[i]) BY <1>4 DEF ChainOK
<1>6. Len(mons) + 1 \in Nat BY DEF IInv, TypeOK
<1>7. form.kind \in LogKind BY RunAssumption DEF MonForm
<1>8. QueOK(x) BY <1>2, <1>5, <1>6, <1>7, AttachOK
<1> HIDE DEF x
<1>9. ChainOK(ques') /\ DOMAIN ques' = DOMAIN chain /\ Len(ques') = Len(chain)
    BY <1>2, <1>4, <1>8, ChainUpdate
<1> QED BY <1>3, <1>4, <1>9 DEF ChainStep

\* A post to a monitor's own queue.
LEMMA PostStep ==
    ASSUME IInv, NEW p \in Producers, NEW m \in DOMAIN mons, Post(p, m)
    PROVE  ChainStep /\ Len(ques') = Len(ques)
<1>1. PICK mask \in Masks :
        ques' = [ques EXCEPT ![mons[m].que] = post(@, flow_on, mons[m].id,
                    [data |-> mons[m].data, value |-> mons[m].posted + 1, mask |-> mask])]
    BY DEF Post
<1> DEFINE log == [data |-> mons[m].data, value |-> mons[m].posted + 1, mask |-> mask]
           i == mons[m].que
<1>2. log \in PostLog
  <2>1. mons[m] \in Monitor BY DEF IInv, TypeOK
  <2>2. mons[m].data \in LogData /\ mons[m].posted + 1 \in Nat BY <2>1 DEF Monitor
  <2>3. mask \in SUBSET Classes BY RunAssumption
  <2> QED BY <2>2, <2>3 DEF PostLog
<1>3. i \in DOMAIN ques /\ QueOK(ques[i]) /\ mons[m].id \in AttachId /\ flow_on \in BOOLEAN
    BY AtFacts DEF IInv, TypeOK
<1> HIDE DEF log, i
<1>4. QueOK(post(ques[i], flow_on, mons[m].id, log)) BY <1>2, <1>3, PostOK
<1>5. ques' = [ques EXCEPT ![i] = post(ques[i], flow_on, mons[m].id, log)]
    BY <1>1 DEF log, i
<1> QED BY <1>3, <1>4, <1>5, UpdateStep

\* The consumer takes the head of the queue its walk is on.
LEMMA TakeStep ==
    ASSUME IInv, ques[at].used > 0, ques' = [ques EXCEPT ![at] = advance(@)]
    PROVE  ChainStep /\ Len(ques') = Len(ques)
<1>1. at \in DOMAIN ques /\ QueOK(ques[at]) BY AtFacts
<1>2. QueOK(advance(ques[at])) BY <1>1, AdvanceOK
<1> QED BY <1>1, <1>2, UpdateStep

\* Whatever the step, the chain stays sound.
LEMMA ChainNext ==
    ASSUME IInv, [Next]_vars
    PROVE  ChainStep
<1>1. CASE Attach BY <1>1, AttachStep
<1>2. ASSUME NEW m \in DOMAIN mons, CloseProducer(m) PROVE ChainStep
  <2>1. mons[m].que \in DOMAIN ques /\ QueOK(ques[mons[m].que]) /\ mons[m].id \in AttachId
      BY AtFacts
  <2>2. QueOK(close_producer(ques[mons[m].que], mons[m].id))
      BY <1>2, <2>1, CloseProducerOK DEF CloseProducer
  <2> QED BY <1>2, <2>1, <2>2, UpdateStep DEF CloseProducer
<1>3. ASSUME NEW m \in DOMAIN mons, CloseReader(m) PROVE ChainStep
  <2>1. mons[m].que \in DOMAIN ques /\ QueOK(ques[mons[m].que]) /\ mons[m].id \in AttachId
      BY AtFacts
  <2>2. CASE ~Live(ques[mons[m].que], mons[m].id)
      BY <1>3, <2>2, SameChain DEF CloseReader
  <2>3. CASE Live(ques[mons[m].que], mons[m].id)
    <3>1. QueOK(close_reader(ques[mons[m].que], mons[m].id))
        BY <2>1, <2>3, CloseReaderOK
    <3> QED BY <1>3, <2>1, <2>3, <3>1, UpdateStep DEF CloseReader
  <2> QED BY <2>2, <2>3
<1>4. ASSUME NEW p \in Producers, NEW m \in DOMAIN mons, Post(p, m) PROVE ChainStep
    BY <1>4, PostStep
<1>5. ASSUME NEW p \in Producers, wake_chain(p) PROVE ChainStep
  <2> DEFINE i == Head(bursts[p].chain)
             x == [ques[i] EXCEPT !.in_burst = FALSE]
  <2>1. i \in DOMAIN ques
    <3>1. bursts[p].chain \in Seq(DOMAIN ques) BY DEF IInv, TypeOK, PostBurst
    <3>2. bursts[p].chain # <<>> BY <1>5 DEF wake_chain
    <3> QED BY <3>1, <3>2
  <2>2. QueOK(x) BY <2>1, AtFacts, InBurstOK
  <2>3. ques' = [ques EXCEPT ![i] = x] BY <1>5 DEF wake_chain
  <2> HIDE DEF i, x
  <2> QED BY <2>1, <2>2, <2>3, UpdateStep
<1>6. CASE PollEvent BY <1>6, TakeStep DEF PollEvent, Takes
<1>7. CASE DropCancelled BY <1>7, TakeStep DEF DropCancelled, Takes
<1>8. CASE PollEnded
  <2>1. PICK slot \in Ended(ques[at]) : ques' = [ques EXCEPT ![at] = take_ended(@, slot)]
      BY <1>8 DEF PollEnded
  <2>2. at \in DOMAIN ques /\ QueOK(ques[at]) BY AtFacts
  <2>3. QueOK(take_ended(ques[at], slot)) BY <2>2, TakeEndedOK
  <2> QED BY <2>1, <2>2, <2>3, UpdateStep
<1>9. CASE \/ flow_ctrl_on \/ flow_ctrl_off \/ FlowReleased \/ post_reply \/ OwedWake
           \/ PollReply \/ PollBegin \/ PollNothing \/ ParkNext \/ ParkLast
           \/ Resume \/ ResumeOther \/ close_replies \/ UNCHANGED vars
           \/ \E p \in Producers : BurstWake(p)
  <2>1. ques' = ques
      BY <1>9 DEF flow_ctrl_on, flow_ctrl_off, FlowReleased, post_reply, OwedWake, PollReply,
                  PollBegin, PollNothing, ParkNext, ParkLast, Resume, ResumeOther,
                  close_replies, vars, BurstWake
  <2> QED BY <2>1, SameChain
<1> QED BY <1>1, <1>2, <1>3, <1>4, <1>5, <1>6, <1>7, <1>8, <1>9
        DEF Next, Dispatch, Produce, Poll

-----------------------------------------------------------------------------
(* Types after a step.                                                     *)

\* Sequences over a set are sequences over a larger one.
LEMMA SeqMonotone ==
    ASSUME NEW S, NEW T, S \subseteq T, NEW s \in Seq(S)
    PROVE  s \in Seq(T)
OBVIOUS

\* The rest of a sequence has its elements.
LEMMA TailType ==
    ASSUME NEW S, NEW s \in Seq(S), s # <<>>
    PROVE  Tail(s) \in Seq(S)
OBVIOUS

\* What replies and bursts refer to stays in a chain that grows.
LEMMA TypesMonotone ==
    ASSUME NEW D, NEW E, D \subseteq E
    PROVE  /\ Seq(OwedReply(D)) \subseteq Seq(OwedReply(E))
           /\ [Producers -> PostBurst(D)] \subseteq [Producers -> PostBurst(E)]
<1>1. OwedReply(D) \subseteq OwedReply(E) BY DEF OwedReply
<1>2. Seq(D) \subseteq Seq(E) BY SeqMonotone
<1>3. PostBurst(D) \subseteq PostBurst(E) BY <1>2 DEF PostBurst
<1> QED BY <1>1, <1>3, SeqMonotone

\* Flags and counters.
FlagsOK == /\ flow_on \in BOOLEAN /\ parked \in BOOLEAN /\ closed \in BOOLEAN
           /\ notified \in BOOLEAN /\ releasing \in BOOLEAN
           /\ wakesOwed \in Nat /\ posts \in Nat /\ toggles \in Nat /\ replied \in Nat

\* Flags stay Boolean and counters natural.
LEMMA FlagsNext == ASSUME FlagsOK, [Next]_vars PROVE FlagsOK'
<1>1. CASE \/ OwedWake \/ FlowReleased \/ \E p \in Producers : BurstWake(p)
  <2>1. /\ wakesOwed' \in {wakesOwed, wakesOwed - 1} /\ (wakesOwed > 0 \/ wakesOwed' = wakesOwed)
        /\ UNCHANGED <<posts, toggles, replied>>
      BY <1>1 DEF OwedWake, FlowReleased, BurstWake
  <2>2. /\ notified' = (notified \/ parked) /\ parked' = FALSE
        /\ releasing' \in {releasing, FALSE} /\ UNCHANGED <<flow_on, closed>>
      BY <1>1 DEF OwedWake, FlowReleased, BurstWake, wake_readers
  <2>3. wakesOwed' \in Nat /\ posts' \in Nat /\ toggles' \in Nat /\ replied' \in Nat
      BY <2>1 DEF FlagsOK
  <2>4. notified' \in BOOLEAN BY <2>2
  <2> QED BY <2>2, <2>3, <2>4 DEF FlagsOK
<1>2. CASE Attach
    BY <1>2 DEF Attach, FlagsOK, wakeVars
<1>3. CASE flow_ctrl_on \/ flow_ctrl_off
  <2>1. /\ flow_on' \in {TRUE, FALSE} /\ toggles' \in {toggles, toggles + 1}
        /\ releasing' \in {releasing, TRUE}
        /\ UNCHANGED <<closed, wakesOwed, posts, replied, parked, notified>>
      BY <1>3 DEF flow_ctrl_on, flow_ctrl_off, wakeVars
  <2>2. flow_on' \in BOOLEAN /\ releasing' \in BOOLEAN BY <2>1, Zenon DEF FlagsOK
  <2>3. toggles' \in Nat BY <2>1 DEF FlagsOK
  <2> QED BY <2>1, <2>2, <2>3, Zenon DEF FlagsOK
<1>4. CASE post_reply
  <2>1. /\ wakesOwed' = wakesOwed + 1 /\ replied' = replied + 1
        /\ UNCHANGED <<flow_on, closed, releasing, posts, toggles, parked, notified>>
      BY <1>4 DEF post_reply, wakeVars
  <2> QED BY <2>1 DEF FlagsOK
<1>5. CASE \E m \in DOMAIN mons : CloseProducer(m) \/ CloseReader(m)
  <2>1. /\ wakesOwed' \in {wakesOwed, wakesOwed + 1}
        /\ UNCHANGED <<flow_on, closed, releasing, posts, toggles, parked, notified, replied>>
      BY <1>5 DEF CloseProducer, CloseReader, wakeVars
  <2> QED BY <2>1 DEF FlagsOK
<1>6. CASE \E p \in Producers : wake_chain(p) \/ \E m \in DOMAIN mons : Post(p, m)
  <2>1. /\ posts' \in {posts, posts + 1}
        /\ UNCHANGED <<flow_on, closed, releasing, wakesOwed, toggles, parked, notified, replied>>
      BY <1>6 DEF wake_chain, Post, wakeVars
  <2> QED BY <2>1 DEF FlagsOK
<1>7. CASE PollReply \/ PollBegin \/ PollEvent \/ DropCancelled \/ PollEnded \/ PollNothing
    BY <1>7 DEF PollReply, PollBegin, PollEvent, DropCancelled, PollEnded, PollNothing,
                FlagsOK, wakeVars
<1>8. CASE ParkNext \/ ParkLast
  <2>1. parked' = TRUE /\ UNCHANGED <<flow_on, closed, releasing, wakesOwed, posts, toggles,
                                      notified, replied>>
      BY <1>8 DEF ParkNext, ParkLast
  <2> QED BY <2>1 DEF FlagsOK
<1>9. CASE Resume \/ ResumeOther \/ close_replies \/ UNCHANGED vars
    BY <1>9 DEF Resume, ResumeOther, close_replies, vars, FlagsOK, wakeVars
<1> QED BY <1>1, <1>2, <1>3, <1>4, <1>5, <1>6, <1>7, <1>8, <1>9 DEF Next, Dispatch, Produce, Poll

\* The consumer's place in its walk.
PlaceOK == /\ reading \in DOMAIN ques /\ step \in 0 .. (Len(ques) - 1)
           /\ pc \in {"idle", "poll", "walk", "drain", "park", "gone"}
           /\ withheld \subseteq DOMAIN ques

\* The consumer stays on a queue of the chain.
LEMMA PlaceNext == ASSUME IInv, [Next]_vars PROVE PlaceOK'
<1>1. ChainStep BY ChainNext
<1>2. PlaceOK BY DEF IInv, TypeOK, PlaceOK
<1>3. /\ Len(ques) \in Nat /\ DOMAIN ques = 1 .. Len(ques) /\ at \in DOMAIN ques
      /\ Len(ques') \in Nat /\ DOMAIN ques' = 1 .. Len(ques')
      /\ Len(ques) <= Len(ques') /\ DOMAIN ques \subseteq DOMAIN ques'
    BY <1>1, AtFacts DEF ChainStep
<1>4. 1 \in DOMAIN ques /\ 0 \in 0 .. (Len(ques) - 1) /\ 0 .. (Len(ques) - 1) \subseteq 0 .. (Len(ques') - 1)
    BY <1>2, <1>3 DEF PlaceOK
<1> HIDE DEF at
<1>5. CASE UNCHANGED consumerVars
    BY <1>2, <1>3, <1>4, <1>5 DEF PlaceOK, consumerVars
<1>6. CASE PollEvent \/ PollEnded
  <2>1. reading' = at /\ step' = 0 /\ pc' = "poll" /\ withheld' = {}
      BY <1>6 DEF PollEvent, PollEnded
  <2> QED BY <1>3, <1>4, <2>1 DEF PlaceOK
<1>7. CASE PollBegin \/ DropCancelled \/ Resume \/ ResumeOther \/ close_replies
  <2>1. /\ reading' = reading /\ step' = step /\ withheld' = withheld
        /\ pc' \in {"walk", "drain", "poll", "gone"}
      BY <1>7 DEF PollBegin, DropCancelled, Resume, ResumeOther, close_replies
  <2> QED BY <1>2, <1>3, <1>4, <2>1 DEF PlaceOK
<1>8. CASE PollNothing
    BY <1>2, <1>3, <1>4, <1>8 DEF PollNothing, PlaceOK
<1>9. CASE ParkNext
  <2>1. step' \in 0 .. (Len(ques) - 1) BY <1>2, <1>3, <1>9 DEF ParkNext, PlaceOK
  <2> QED BY <1>2, <1>3, <1>4, <1>9, <2>1 DEF ParkNext, PlaceOK
<1>10. CASE ParkLast
    BY <1>2, <1>3, <1>4, <1>10 DEF ParkLast, PlaceOK
<1>11. \/ UNCHANGED consumerVars \/ PollEvent \/ PollEnded \/ PollBegin \/ DropCancelled
       \/ Resume \/ ResumeOther \/ close_replies \/ PollNothing \/ ParkNext \/ ParkLast
    BY DEF Next, Dispatch, Produce, Poll, vars, consumerVars, Attach, CloseProducer, CloseReader,
           OwedWake, flow_ctrl_on, flow_ctrl_off, FlowReleased, post_reply, Post, wake_chain,
           BurstWake, PollReply
<1> QED BY <1>5, <1>6, <1>7, <1>8, <1>9, <1>10, <1>11

\* Owed replies name queues of the chain.
LEMMA RepliesNext == ASSUME IInv, [Next]_vars PROVE replies' \in Seq(OwedReply(DOMAIN ques'))
<1>1. replies \in Seq(OwedReply(DOMAIN ques)) BY DEF IInv, TypeOK
<1>2. Seq(OwedReply(DOMAIN ques)) \subseteq Seq(OwedReply(DOMAIN ques'))
    BY ChainNext, TypesMonotone DEF ChainStep
<1>3. SUFFICES replies' \in Seq(OwedReply(DOMAIN ques)) BY <1>2
<1>4. CASE post_reply
  <2> DEFINE waits == {j \in DOMAIN ques : ques[j].used > 0}
             ahead == [i \in waits |-> ques[i].taken + ques[i].used]
             needs == [m \in DOMAIN mons |-> mons[m].posted]
  <2>1. replies' = Append(replies, [ahead |-> ahead, needs |-> needs])
      BY <1>4 DEF post_reply
  <2>2. \A i \in DOMAIN ques : ques[i].taken + ques[i].used \in Nat
      BY AtFacts DEF QueInner
  <2>3. ahead \in [waits -> Nat] /\ waits \in SUBSET DOMAIN ques BY <2>2
  <2>4. needs \in Seq(Nat)
    <3>1. mons \in Seq(Monitor) BY DEF IInv, TypeOK
    <3>2. \A m \in DOMAIN mons : mons[m] \in Monitor BY <3>1
    <3>3. \A m \in DOMAIN mons : mons[m].posted \in Nat BY <3>2 DEF Monitor
    <3> QED BY <3>1, <3>3
  <2> HIDE DEF waits, ahead, needs
  <2>5. [ahead |-> ahead, needs |-> needs] \in OwedReply(DOMAIN ques)
      BY <2>3, <2>4 DEF OwedReply
  <2> QED BY <1>1, <2>1, <2>5
<1>5. CASE replies' = Tail(replies) /\ replies # <<>> BY <1>1, <1>5
<1>6. CASE replies' = <<>> BY <1>6
<1>7. CASE replies' = replies BY <1>1, <1>7
<1>8. \/ post_reply
      \/ replies' = Tail(replies) /\ replies # <<>>
      \/ replies' = <<>>
      \/ replies' = replies
    BY DEF Next, Dispatch, Produce, Poll, vars, Attach, CloseProducer, CloseReader,
           OwedWake, flow_ctrl_on, flow_ctrl_off, FlowReleased, Post, wake_chain, BurstWake,
           Resume, ResumeOther, PollReply, reply_due, PollBegin, PollEvent, DropCancelled,
           PollEnded, PollNothing, ParkNext, ParkLast, close_replies
<1> QED BY <1>4, <1>5, <1>6, <1>7, <1>8

\* Bursts chain queues of the chain.
LEMMA BurstsNext == ASSUME IInv, [Next]_vars PROVE bursts' \in [Producers -> PostBurst(DOMAIN ques')]
<1>1. bursts \in [Producers -> PostBurst(DOMAIN ques)] BY DEF IInv, TypeOK
<1>2. [Producers -> PostBurst(DOMAIN ques)] \subseteq [Producers -> PostBurst(DOMAIN ques')]
    BY ChainNext, TypesMonotone DEF ChainStep
<1>3. SUFFICES bursts' \in [Producers -> PostBurst(DOMAIN ques)] BY <1>2
<1>4. ASSUME NEW p \in Producers, NEW m \in DOMAIN mons, Post(p, m)
      PROVE  bursts' \in [Producers -> PostBurst(DOMAIN ques)]
  <2>1. bursts' \in {bursts, [bursts EXCEPT ![p].chain = Append(@, mons[m].que)]}
      BY <1>4 DEF Post
  <2>2. mons[m].que \in DOMAIN ques BY AtFacts
  <2>3. Append(bursts[p].chain, mons[m].que) \in Seq(DOMAIN ques)
      BY <1>1, <2>2 DEF PostBurst
  <2> QED BY <1>1, <2>1, <2>3 DEF PostBurst
<1>5. ASSUME NEW p \in Producers, wake_chain(p)
      PROVE  bursts' \in [Producers -> PostBurst(DOMAIN ques)]
  <2>1. /\ bursts[p].chain # <<>>
        /\ bursts' = [bursts EXCEPT ![p] = [phase |-> "waking", chain |-> Tail(@.chain)]]
      BY <1>5 DEF wake_chain
  <2>2. bursts[p].chain \in Seq(DOMAIN ques) BY <1>1 DEF PostBurst
  <2>3. Tail(bursts[p].chain) \in Seq(DOMAIN ques) BY <2>1, <2>2, TailType
  <2> QED BY <1>1, <2>1, <2>3 DEF PostBurst
<1>6. ASSUME NEW p \in Producers, BurstWake(p)
      PROVE  bursts' \in [Producers -> PostBurst(DOMAIN ques)]
    BY <1>1, <1>6 DEF BurstWake, PostBurst
<1>7. CASE bursts' = bursts BY <1>1, <1>7
<1>8. \/ bursts' = bursts
      \/ \E p \in Producers : wake_chain(p) \/ BurstWake(p) \/ \E m \in DOMAIN mons : Post(p, m)
    BY DEF Next, Dispatch, Produce, Poll, vars, Attach, CloseProducer, CloseReader,
           OwedWake, flow_ctrl_on, flow_ctrl_off, FlowReleased, post_reply,
           Resume, ResumeOther, PollReply, PollBegin, PollEvent, DropCancelled,
           PollEnded, PollNothing, ParkNext, ParkLast, close_replies
<1> QED BY <1>4, <1>5, <1>6, <1>7, <1>8

\* The handles' histories, and the queues they name.
LEMMA MonsNext ==
    ASSUME IInv, [Next]_vars
    PROVE  mons' \in Seq(Monitor) /\ \A m \in DOMAIN mons' : mons'[m].que \in DOMAIN ques'
<1> DEFINE MonsOK(ms, D) == ms \in Seq(Monitor) /\ \A m \in DOMAIN ms : ms[m].que \in D
<1>1. MonsOK(mons, DOMAIN ques) /\ DOMAIN ques \subseteq DOMAIN ques'
    BY ChainNext DEF IInv, TypeOK, ChainStep
<1>2. ASSUME NEW m \in DOMAIN mons, NEW x \in Monitor, x.que = mons[m].que,
             mons' = [mons EXCEPT ![m] = x]
      PROVE  MonsOK(mons', DOMAIN ques')
    BY <1>1, <1>2
<1>3. CASE mons' = mons BY <1>1, <1>3
<1>4. \A m \in DOMAIN mons : mons[m] \in Monitor BY <1>1
<1>5. CASE Attach
  <2>1. PICK i \in 1 .. (Len(ques) + 1), slot \in Slots, form \in Forms : attach_que(i, slot, form)
      BY <1>5 DEF Attach
  <2> DEFINE mon == [que |-> i, id |-> [gen |-> Len(mons) + 1, slot |-> slot],
                     data |-> form.data, sink |-> TRUE, reader |-> TRUE,
                     posted |-> 0, seen |-> 0, owed |-> {}, ended |-> 0]
  <2>2. mons' = Append(mons, mon) BY <2>1 DEF attach_que
  <2>3. i \in Nat \ {0} /\ Len(ques) \in Nat BY <2>1, AtFacts
  <2>4. Len(mons) + 1 \in Nat BY <1>1
  <2>5. form.data \in LogData BY RunAssumption DEF MonForm
  <2>6. mon \in Monitor /\ mon.que = i
      BY <2>3, <2>4, <2>5 DEF Monitor, AttachId
  <2>7. i \in DOMAIN ques'
      BY <2>1, <2>3, ChainNext, AtFacts, ChainAppend DEF attach_que, ChainStep, IInv
  <2> HIDE DEF mon
  <2> QED BY <1>1, <2>2, <2>6, <2>7
<1>6. ASSUME NEW m \in DOMAIN mons, CloseProducer(m) PROVE MonsOK(mons', DOMAIN ques')
  <2> DEFINE x == [mons[m] EXCEPT !.sink = FALSE]
  <2>1. x \in Monitor /\ x.que = mons[m].que BY <1>4 DEF Monitor
  <2>2. mons' = [mons EXCEPT ![m] = x] BY <1>6 DEF CloseProducer
  <2> QED BY <1>2, <2>1, <2>2
<1>7. ASSUME NEW m \in DOMAIN mons, CloseReader(m) PROVE MonsOK(mons', DOMAIN ques')
  <2> DEFINE x == [mons[m] EXCEPT !.reader = FALSE]
  <2>1. x \in Monitor /\ x.que = mons[m].que BY <1>4 DEF Monitor
  <2>2. mons' = [mons EXCEPT ![m] = x] BY <1>7 DEF CloseReader
  <2> QED BY <1>2, <2>1, <2>2
<1>8. ASSUME NEW p \in Producers, NEW m \in DOMAIN mons, Post(p, m) PROVE MonsOK(mons', DOMAIN ques')
  <2>1. PICK mask \in Masks : mons' = [mons EXCEPT ![m].posted = @ + 1, ![m].owed = @ \cup mask]
      BY <1>8 DEF Post
  <2> DEFINE x == [mons[m] EXCEPT !.posted = @ + 1, !.owed = @ \cup mask]
  <2>2. mask \in SUBSET Classes BY RunAssumption
  <2>3. x \in Monitor /\ x.que = mons[m].que
    <3>1. mons[m] \in Monitor BY <1>4
    <3>2. mons[m].posted + 1 \in Nat /\ mons[m].owed \cup mask \in SUBSET Classes
        BY <2>2, <3>1 DEF Monitor
    <3> QED BY <3>1, <3>2 DEF Monitor
  <2>4. mons' = [mons EXCEPT ![m] = x] BY <1>1, <2>1
  <2> HIDE DEF x
  <2> QED BY <1>2, <2>3, <2>4
<1>9. CASE PollEvent
  <2> DEFINE e == HeadEntry(ques[at])
             m == e.id.gen
             value == IF is_ref(e.log) THEN mons[m].posted ELSE e.log.value
             owed == {c \in mons[m].owed : c \in e.log.mask => Carried(ques'[at], e.id, c)}
             x == [mons[m] EXCEPT !.seen = value, !.owed = owed]
  <2>1. mons' = [mons EXCEPT ![m].seen = value,
                             ![m].owed = {c \in @ : c \in e.log.mask => Carried(ques'[at], e.id, c)}]
      BY <1>9 DEF PollEvent
  <2>2. mons' = [mons EXCEPT ![m] = x] BY <1>1, <2>1
  <2>3. CASE m \in DOMAIN mons
    <3>1. e.log.value \in Nat
      <4>1. ques[at].used > 0 /\ QueOK(ques[at]) BY <1>9, AtFacts DEF PollEvent, Takes
      <4>2. ques[at].getix \in Occupied(ques[at]) /\ ques[at] \in QueInner BY <4>1, HeadFacts
      <4>3. e \in Entry BY <4>2 DEF HeadEntry, Occupied, QueInner
      <4> QED BY <4>3 DEF Entry, PostLog
    <3>2. value \in Nat /\ owed \in SUBSET Classes BY <1>4, <2>3, <3>1 DEF Monitor
    <3> HIDE DEF value, owed, m
    <3>3. x \in Monitor /\ x.que = mons[m].que BY <1>4, <2>3, <3>2 DEF Monitor
    <3> HIDE DEF x
    <3> QED BY <1>2, <2>2, <2>3, <3>3
  <2>4. CASE m \notin DOMAIN mons
    <3> HIDE DEF m, x
    <3>1. mons' = mons BY <1>1, <2>2, <2>4
    <3> QED BY <1>3, <3>1
  <2> QED BY <2>3, <2>4
<1>10. CASE PollEnded
  <2>1. PICK g : mons' = [mons EXCEPT ![g].ended = @ + 1]
      BY <1>10 DEF PollEnded
  <2> DEFINE x == [mons[g] EXCEPT !.ended = @ + 1]
  <2>2. CASE g \in DOMAIN mons
    <3>1. x \in Monitor /\ x.que = mons[g].que BY <1>4, <2>2 DEF Monitor
    <3>2. mons' = [mons EXCEPT ![g] = x] BY <2>1
    <3> HIDE DEF x
    <3> QED BY <1>2, <2>2, <3>1, <3>2
  <2>3. CASE g \notin DOMAIN mons
    <3>1. mons' = mons BY <1>1, <2>1, <2>3
    <3> QED BY <1>3, <3>1
  <2> QED BY <2>2, <2>3
<1>11. \/ mons' = mons \/ Attach \/ PollEvent \/ PollEnded
       \/ \E m \in DOMAIN mons : CloseProducer(m) \/ CloseReader(m)
       \/ \E p \in Producers, m \in DOMAIN mons : Post(p, m)
    BY DEF Next, Dispatch, Produce, Poll, vars, OwedWake, flow_ctrl_on, flow_ctrl_off,
           FlowReleased, post_reply, wake_chain, BurstWake, Resume, ResumeOther, PollReply,
           PollBegin, DropCancelled, PollNothing, ParkNext, ParkLast, close_replies
<1> QED BY <1>3, <1>5, <1>6, <1>7, <1>8, <1>9, <1>10, <1>11

-----------------------------------------------------------------------------
(* The theorems.                                                           *)

\* EventUser::new makes one sound queue and an idle circuit.
LEMMA InitInv == Init => IInv
<1> SUFFICES ASSUME Init PROVE IInv OBVIOUS
<1>1. NewQue \in QueInner /\ QueOK(NewQue) BY NewQueOK DEF QueOK
<1>2. ques = <<NewQue>> /\ ques \in Seq(QueInner) /\ Len(ques) = 1 /\ DOMAIN ques = {1} /\ ques[1] = NewQue
    BY <1>1 DEF Init
<1>3. ChainOK(ques) BY <1>1, <1>2 DEF ChainOK
<1>4. /\ reading \in DOMAIN ques /\ step \in 0 .. (Len(ques) - 1) /\ withheld \subseteq DOMAIN ques
    BY <1>2 DEF Init
<1>5. replies \in Seq(OwedReply(DOMAIN ques)) /\ mons \in Seq(Monitor)
      /\ \A m \in DOMAIN mons : mons[m].que \in DOMAIN ques
    BY DEF Init
<1>6. bursts \in [Producers -> PostBurst(DOMAIN ques)] BY DEF Init, PostBurst
<1> QED BY <1>2, <1>3, <1>4, <1>5, <1>6 DEF IInv, TypeOK, Init

\* Every step keeps the inductive invariant.
LEMMA NextInv == IInv /\ [Next]_vars => IInv'
<1> SUFFICES ASSUME IInv, [Next]_vars PROVE IInv' OBVIOUS
<1>1. FlagsOK BY DEF IInv, TypeOK, FlagsOK
<1>2. FlagsOK' BY <1>1, FlagsNext
<1>3. PlaceOK' BY PlaceNext
<1>4. ChainOK(ques') BY ChainNext DEF ChainStep
<1>5. ques' \in Seq(QueInner) BY <1>4 DEF ChainOK
<1>6. replies' \in Seq(OwedReply(DOMAIN ques')) BY RepliesNext
<1>7. bursts' \in [Producers -> PostBurst(DOMAIN ques')] BY BurstsNext
<1>8. mons' \in Seq(Monitor) /\ \A m \in DOMAIN mons' : mons'[m].que \in DOMAIN ques' BY MonsNext
<1>9. TypeOK' BY <1>2, <1>3, <1>5, <1>6, <1>7, <1>8 DEF TypeOK, FlagsOK, PlaceOK
<1> QED BY <1>4, <1>9 DEF IInv

\* IInv holds in every reachable state of the circuit.
THEOREM Invariance == Spec => []IInv
BY InitInv, NextInv, PTL DEF Spec

\* Type correctness of the circuit: every queue of the chain, the consumer's
\* place in its walk, and what bursts, replies and handles refer to.
THEOREM TypeCorrect == Spec => []TypeOK
<1>1. IInv => TypeOK BY DEF IInv
<1> QED BY <1>1, Invariance, PTL

\* post, release, advance (event_queue.rs): whatever is attached, posted,
\* closed, cancelled and taken, in any order, the ring of every queue keeps a
\* free place and npend, last and n_duplicates describe its entries.
THEOREM RingsSound == Spec => []RingSound
<1>1. IInv => RingSound BY DEF IInv, ChainOK, QueOK, RingSound
<1> QED BY <1>1, Invariance, PTL

\* try_attach, free_slot, take_ended (event_queue.rs): slots, quota and
\* unreported ends are given back exactly once, whichever of the reader's
\* close and the drain of its last entry comes last.
THEOREM SlotsAccounted == Spec => []SlotsSound
<1>1. IInv => SlotsSound BY DEF IInv, ChainOK, QueOK, SlotsSound
<1> QED BY <1>1, Invariance, PTL

-----------------------------------------------------------------------------
(* Wake-ups and drain passes: a queue in a burst is on one burst's chain,   *)
(* once; a consumer asleep with something to deliver is owed a wake; one    *)
(* drain pass is in flight; EVENTS_OFF holds back what has no duplicate.    *)
(* Each rests on IInv and on an inductive invariant of its own.             *)

-----------------------------------------------------------------------------
(* What a step does to one queue.                                          *)

\* A step that replaces one queue leaves the others alone.
LEMMA OneQueue ==
    ASSUME IInv, NEW i \in DOMAIN ques, NEW x, ques' = [ques EXCEPT ![i] = x]
    PROVE  /\ DOMAIN ques' = DOMAIN ques /\ Len(ques') = Len(ques) /\ ques'[i] = x
           /\ \A j \in DOMAIN ques : j # i => ques'[j] = ques[j]
BY DEF IInv, TypeOK

\* The flags of bursts, passes and counts are the same, and no end of a stream
\* has become reportable.
Still(q, r) ==
    /\ r.used = q.used /\ r.taken = q.taken /\ r.n_duplicates = q.n_duplicates
    /\ r.draining = q.draining /\ r.in_burst = q.in_burst
    /\ Ended(r) \subseteq Ended(q)

\* Nothing to deliver.
Empty(q) == q.used = 0 /\ q.draining = FALSE /\ q.in_burst = FALSE /\ Ended(q) = {}

\* attach_que.
LEMMA AttachEffect ==
    ASSUME IInv, Attach
    PROVE  /\ \A j \in DOMAIN ques : Still(ques[j], ques'[j])
           /\ \A j \in DOMAIN ques' \ DOMAIN ques : Empty(ques'[j])
<1>1. PICK i \in 1 .. (Len(ques) + 1), slot \in Slots, form \in Forms : attach_que(i, slot, form)
    BY DEF Attach
<1> DEFINE chain == IF i > Len(ques) THEN Append(ques, NewQue) ELSE ques
           x == try_attach(chain[i], Len(mons) + 1, slot, form.kind)
           sub == [id |-> [gen |-> Len(mons) + 1, slot |-> slot], kind |-> form.kind, npend |-> 0,
                    last |-> 0, gone |-> {}, end_reported |-> FALSE]
<1>2. slot \in chain[i].free /\ ques' = [chain EXCEPT ![i] = x]
    BY <1>1 DEF attach_que
<1>3. ques \in Seq(QueInner) /\ Len(ques) \in Nat /\ DOMAIN ques = 1 .. Len(ques) /\ NewQue \in QueInner
    BY AtFacts, NewQueOK DEF IInv, TypeOK, QueOK
<1>4. /\ chain \in Seq(QueInner) /\ i \in DOMAIN chain /\ DOMAIN ques \subseteq DOMAIN chain
      /\ \A j \in DOMAIN ques : chain[j] = ques[j]
      /\ \A j \in DOMAIN chain \ DOMAIN ques : chain[j] = NewQue
    BY <1>1, <1>3
<1> HIDE DEF chain
<1>5. chain[i] \in QueInner BY <1>4
<1>6. Reslots(chain[i], x, slot, sub) BY <1>5, AttachFields
<1>7. Still(chain[i], x)
  <2>1. \A s \in Slots : s # slot => x.subs[s] = chain[i].subs[s]
      BY <1>5, <1>6 DEF Reslots, QueInner
  <2>2. x.subs[slot] = sub BY <1>5, <1>6 DEF Reslots, QueInner
  <2>3. ~Unreported(x.subs[slot]) BY <2>2 DEF Unreported, producer_gone
  <2>4. Ended(x) \subseteq Ended(chain[i]) BY <2>1, <2>3 DEF Ended, Attached
  <2> QED BY <1>6, <2>4 DEF Still, Reslots
<1>8. DOMAIN ques' = DOMAIN chain /\ ques'[i] = x /\ \A j \in DOMAIN chain : j # i => ques'[j] = chain[j]
    BY <1>2, <1>4
<1> HIDE DEF x
<1>9. \A j \in DOMAIN chain : Still(chain[j], ques'[j]) BY <1>7, <1>8 DEF Still
<1>10. Empty(NewQue) BY NewQueFields DEF Empty, Ended, Attached
<1>11. \A q, r : Empty(q) /\ Still(q, r) => Empty(r) BY DEF Empty, Still
<1> QED BY <1>4, <1>8, <1>9, <1>10, <1>11

\* close_producer: only an end becomes reportable.
LEMMA CloseProducerEffect ==
    ASSUME IInv, NEW m \in DOMAIN mons, CloseProducer(m)
    PROVE  /\ DOMAIN ques' = DOMAIN ques /\ Len(ques') = Len(ques)
           /\ \A j \in DOMAIN ques :
                /\ ques'[j].used = ques[j].used /\ ques'[j].taken = ques[j].taken
                /\ ques'[j].n_duplicates = ques[j].n_duplicates
                /\ ques'[j].draining = ques[j].draining /\ ques'[j].in_burst = ques[j].in_burst
                /\ j # mons[m].que => ques'[j] = ques[j]
<1> DEFINE i == mons[m].que
           x == close_producer(ques[i], mons[m].id)
<1>1. i \in DOMAIN ques /\ ques[i] \in QueInner /\ mons[m].id \in AttachId BY AtFacts
<1>2. Live(ques[i], mons[m].id) /\ ques' = [ques EXCEPT ![i] = x] BY DEF CloseProducer
<1>3. PICK sub : Reslots(ques[i], x, mons[m].id.slot, sub)
    BY <1>1, <1>2, CloseProducerFields
<1> HIDE DEF x
<1>4. /\ DOMAIN ques' = DOMAIN ques /\ Len(ques') = Len(ques) /\ ques'[i] = x
      /\ \A j \in DOMAIN ques : j # i => ques'[j] = ques[j]
    BY <1>1, <1>2, OneQueue
<1> QED BY <1>3, <1>4 DEF Reslots

\* close_reader: nothing becomes deliverable.
LEMMA CloseReaderEffect ==
    ASSUME IInv, NEW m \in DOMAIN mons, CloseReader(m)
    PROVE  /\ DOMAIN ques' = DOMAIN ques /\ Len(ques') = Len(ques)
           /\ \A j \in DOMAIN ques : Still(ques[j], ques'[j])
           /\ \A j \in DOMAIN ques : j # mons[m].que => ques'[j] = ques[j]
<1> DEFINE i == mons[m].que
           id == mons[m].id
           x == close_reader(ques[i], id)
           sub == IF ques[i].subs[id.slot].npend = 0 THEN NoSub
                  ELSE [ques[i].subs[id.slot] EXCEPT !.gone = ques[i].subs[id.slot].gone \cup {"reader"}]
<1>1. i \in DOMAIN ques /\ ques[i] \in QueInner /\ id \in AttachId BY AtFacts
<1>2. CASE ~Live(ques[i], id)
  <2>1. ques' = ques BY <1>2 DEF CloseReader
  <2> QED BY <2>1 DEF Still
<1>3. CASE Live(ques[i], id)
  <2>1. ques' = [ques EXCEPT ![i] = x] BY <1>3 DEF CloseReader
  <2>2. Reslots(ques[i], x, id.slot, sub) BY <1>1, <1>3, CloseReaderFields
  <2> HIDE DEF x
  <2>3. /\ DOMAIN ques' = DOMAIN ques /\ Len(ques') = Len(ques) /\ ques'[i] = x
        /\ \A j \in DOMAIN ques : j # i => ques'[j] = ques[j]
      BY <1>1, <2>1, OneQueue
  <2>4. Still(ques[i], x)
    <3>1. id.slot \in Slots /\ ques[i].subs[id.slot] # NoSub /\ ques[i].subs[id.slot] \in SubQ
        BY <1>1, <1>3, SubFacts DEF Live, AttachId
    <3>2. \A s \in Slots : s # id.slot => x.subs[s] = ques[i].subs[s]
        BY <1>1, <2>2 DEF Reslots, QueInner
    <3>3. x.subs[id.slot] = sub BY <1>1, <2>2, <3>1 DEF Reslots, QueInner
    <3>4. sub # NoSub => /\ sub.end_reported = ques[i].subs[id.slot].end_reported
                         /\ producer_gone(sub) => producer_gone(ques[i].subs[id.slot])
                         /\ sub.npend = ques[i].subs[id.slot].npend
        BY <3>1 DEF SubQ, producer_gone
    <3> HIDE DEF sub
    <3>5. id.slot \in Ended(x) => id.slot \in Ended(ques[i])
        BY <3>1, <3>3, <3>4 DEF Ended, Attached, Unreported
    <3>6. Ended(x) \subseteq Ended(ques[i]) BY <3>2, <3>5 DEF Ended, Attached
    <3> QED BY <2>2, <3>6 DEF Still, Reslots
  <2> QED BY <2>3, <2>4 DEF Still
<1> QED BY <1>2, <1>3

\* post, to the monitor's own queue.
LEMMA PostEffect ==
    ASSUME IInv, NEW p \in Producers, NEW m \in DOMAIN mons, Post(p, m)
    PROVE  LET i == mons[m].que
           IN  /\ DOMAIN ques' = DOMAIN ques /\ Len(ques') = Len(ques) /\ i \in DOMAIN ques
               /\ \A j \in DOMAIN ques : j # i => ques'[j] = ques[j]
               /\ \/ /\ PostFlags(ques[i], ques'[i], flow_on, "Appended")
                     /\ bursts' = IF ques[i].used = 0 /\ ~ques[i].in_burst
                                  THEN [bursts EXCEPT ![p].chain = Append(@, i)] ELSE bursts
                  \/ /\ PostFlags(ques[i], ques'[i], flow_on, "Replaced")
                     /\ bursts' = bursts
<1> DEFINE i == mons[m].que
           id == mons[m].id
<1>1. PICK mask \in Masks :
        LET log == [data |-> mons[m].data, value |-> mons[m].posted + 1, mask |-> mask]
        IN  /\ PostOutcome(ques[i], flow_on, id, log) # "Closed"
            /\ ques' = [ques EXCEPT ![i] = post(@, flow_on, id, log)]
            /\ bursts' = IF Chains(ques[i], flow_on, id, log)
                         THEN [bursts EXCEPT ![p].chain = Append(@, i)] ELSE bursts
    BY DEF Post
<1> DEFINE log == [data |-> mons[m].data, value |-> mons[m].posted + 1, mask |-> mask]
           x == post(ques[i], flow_on, id, log)
<1>2. log \in PostLog
  <2>1. mons[m] \in Monitor BY DEF IInv, TypeOK
  <2>2. mons[m].data \in LogData /\ mons[m].posted + 1 \in Nat BY <2>1 DEF Monitor
  <2>3. mask \in SUBSET Classes BY RunAssumption
  <2> QED BY <2>2, <2>3 DEF PostLog
<1>3. i \in DOMAIN ques /\ QueOK(ques[i]) /\ id \in AttachId /\ flow_on \in BOOLEAN
    BY AtFacts DEF IInv, TypeOK
<1>4. /\ PostOutcome(ques[i], flow_on, id, log) # "Closed"
      /\ ques' = [ques EXCEPT ![i] = x]
      /\ bursts' = IF Chains(ques[i], flow_on, id, log)
                   THEN [bursts EXCEPT ![p].chain = Append(@, i)] ELSE bursts
    BY <1>1
<1> HIDE DEF log
<1>5. PostFlags(ques[i], x, flow_on, PostOutcome(ques[i], flow_on, id, log))
    BY <1>2, <1>3, <1>4, PostChanges
<1> HIDE DEF x
<1>6. /\ DOMAIN ques' = DOMAIN ques /\ Len(ques') = Len(ques) /\ ques'[i] = x
      /\ \A j \in DOMAIN ques : j # i => ques'[j] = ques[j]
    BY <1>3, <1>4, OneQueue
<1>7. CASE PostOutcome(ques[i], flow_on, id, log) = "Appended"
  <2>1. FirstEvent(ques[i]) <=> ques[i].used = 0
    <3>1. size \in Nat /\ ques[i].used \in Nat BY <1>3, SizeFacts DEF QueInner, QueOK
    <3> QED BY <3>1 DEF FirstEvent, ring_space
  <2>2. Chains(ques[i], flow_on, id, log) <=> (ques[i].used = 0 /\ ~ques[i].in_burst)
      BY <1>7, <2>1 DEF Chains
  <2> QED BY <1>3, <1>4, <1>5, <1>6, <1>7, <2>2
<1>8. CASE PostOutcome(ques[i], flow_on, id, log) # "Appended"
  <2>1. bursts' = bursts BY <1>4, <1>8 DEF Chains
  <2>2. PostFlags(ques[i], x, flow_on, "Replaced") BY <1>5, <1>8 DEF PostFlags
  <2> QED BY <1>3, <1>6, <2>1, <2>2
<1> QED BY <1>7, <1>8

\* wake_chain: the head of the chain leaves the burst.
LEMMA WakeChainEffect ==
    ASSUME IInv, NEW p \in Producers, wake_chain(p)
    PROVE  LET i == Head(bursts[p].chain)
           IN  /\ i \in DOMAIN ques /\ DOMAIN ques' = DOMAIN ques /\ Len(ques') = Len(ques)
               /\ ques'[i] = [ques[i] EXCEPT !.in_burst = FALSE]
               /\ ques'[i].in_burst = FALSE
               /\ \A j \in DOMAIN ques : j # i => ques'[j] = ques[j]
               /\ \A j \in DOMAIN ques :
                    /\ ques'[j].used = ques[j].used /\ ques'[j].taken = ques[j].taken
                    /\ ques'[j].n_duplicates = ques[j].n_duplicates
                    /\ ques'[j].draining = ques[j].draining /\ Ended(ques'[j]) = Ended(ques[j])
<1> DEFINE i == Head(bursts[p].chain)
           x == [ques[i] EXCEPT !.in_burst = FALSE]
<1>1. i \in DOMAIN ques
  <2>1. bursts[p].chain \in Seq(DOMAIN ques) BY DEF IInv, TypeOK, PostBurst
  <2>2. bursts[p].chain # <<>> BY DEF wake_chain
  <2> QED BY <2>1, <2>2
<1>2. ques' = [ques EXCEPT ![i] = x] BY DEF wake_chain
<1>3. ques[i] \in QueInner BY <1>1, AtFacts
<1>4. /\ x.used = ques[i].used /\ x.taken = ques[i].taken /\ x.n_duplicates = ques[i].n_duplicates
      /\ x.draining = ques[i].draining /\ x.subs = ques[i].subs /\ x.in_burst = FALSE
    BY <1>3 DEF QueInner
<1> HIDE DEF i, x
<1>5. Ended(x) = Ended(ques[i]) BY <1>4 DEF Ended, Attached
<1>6. /\ DOMAIN ques' = DOMAIN ques /\ Len(ques') = Len(ques) /\ ques'[i] = x
      /\ \A j \in DOMAIN ques : j # i => ques'[j] = ques[j]
    BY <1>1, <1>2, OneQueue
<1> QED BY <1>1, <1>4, <1>5, <1>6 DEF i, x

\* The consumer retires the head of the queue its walk is on.
LEMMA TakeEffect ==
    ASSUME IInv, PollEvent \/ DropCancelled
    PROVE  /\ ques[at].used > 0 /\ at \in DOMAIN ques
           /\ DOMAIN ques' = DOMAIN ques /\ Len(ques') = Len(ques)
           /\ Advances(ques[at], ques'[at])
           /\ \A j \in DOMAIN ques : j # at => ques'[j] = ques[j]
<1>1. ques[at].used > 0 /\ ques' = [ques EXCEPT ![at] = advance(ques[at])]
    BY DEF PollEvent, DropCancelled, Takes
<1>2. at \in DOMAIN ques /\ QueOK(ques[at]) BY AtFacts
<1>3. Advances(ques[at], advance(ques[at])) BY <1>1, <1>2, AdvanceFields
<1> HIDE DEF at
<1> QED BY <1>1, <1>2, <1>3, OneQueue

\* The consumer reports an end.
LEMMA PollEndedEffect ==
    ASSUME IInv, PollEnded
    PROVE  /\ DOMAIN ques' = DOMAIN ques /\ Len(ques') = Len(ques) /\ at \in DOMAIN ques
           /\ \A j \in DOMAIN ques : Still(ques[j], ques'[j])
           /\ \A j \in DOMAIN ques : j # at => ques'[j] = ques[j]
<1>1. PICK slot \in Ended(ques[at]) : ques' = [ques EXCEPT ![at] = take_ended(ques[at], slot)]
    BY DEF PollEnded
<1>2. at \in DOMAIN ques /\ ques[at] \in QueInner BY AtFacts
<1> DEFINE x == take_ended(ques[at], slot)
           sub == [ques[at].subs[slot] EXCEPT !.end_reported = TRUE]
<1>3. Reslots(ques[at], x, slot, sub) BY <1>1, <1>2, TakeEndedFields
<1> HIDE DEF at, x
<1>4. /\ DOMAIN ques' = DOMAIN ques /\ Len(ques') = Len(ques) /\ ques'[at] = x
      /\ \A j \in DOMAIN ques : j # at => ques'[j] = ques[j]
    BY <1>1, <1>2, OneQueue DEF x
<1>5. Still(ques[at], x)
  <2>1. slot \in Slots /\ ques[at].subs[slot] \in SubQ
      BY <1>1, <1>2, SubFacts DEF Ended, Attached
  <2>2. \A s \in Slots : s # slot => x.subs[s] = ques[at].subs[s]
      BY <1>2, <1>3 DEF Reslots, QueInner
  <2>3. x.subs[slot] = sub BY <1>2, <1>3, <2>1 DEF Reslots, QueInner
  <2>4. sub.end_reported = TRUE BY <2>1 DEF SubQ
  <2> HIDE DEF sub
  <2>5. Ended(x) \subseteq Ended(ques[at]) BY <2>2, <2>3, <2>4 DEF Ended, Attached, Unreported
  <2> QED BY <1>3, <2>5 DEF Still, Reslots
<1> QED BY <1>2, <1>4, <1>5 DEF Still

-----------------------------------------------------------------------------
(* Bursts and the queues on their chains.                                  *)

\* A queue in a burst is on some chain, a queue on a chain is in a burst, and
\* no queue is on two places of the chains.
ChainsInv ==
    /\ \A i \in DOMAIN ques : ques[i].in_burst =>
            \E p \in Producers : \E k \in DOMAIN bursts[p].chain : bursts[p].chain[k] = i
    /\ \A p \in Producers : \A k \in DOMAIN bursts[p].chain : ques[bursts[p].chain[k]].in_burst
    /\ \A p, r \in Producers : \A k \in DOMAIN bursts[p].chain, l \in DOMAIN bursts[r].chain :
            bursts[p].chain[k] = bursts[r].chain[l] => p = r /\ k = l

\* The chains are sequences of queues of the circuit.
LEMMA ChainTypes ==
    ASSUME IInv
    PROVE  \A p \in Producers :
             /\ bursts[p].chain \in Seq(DOMAIN ques) /\ bursts[p] \in PostBurst(DOMAIN ques)
             /\ Len(bursts[p].chain) \in Nat /\ DOMAIN bursts[p].chain = 1 .. Len(bursts[p].chain)
             /\ \A k \in DOMAIN bursts[p].chain : bursts[p].chain[k] \in DOMAIN ques
<1>1. bursts \in [Producers -> PostBurst(DOMAIN ques)] BY DEF IInv, TypeOK
<1>2. \A p \in Producers : bursts[p] \in PostBurst(DOMAIN ques) /\ bursts[p].chain \in Seq(DOMAIN ques)
    BY <1>1 DEF PostBurst
<1> QED BY <1>2

\* Steps that move no queue into or out of a burst.
LEMMA QuietBursts ==
    ASSUME IInv, [Next]_vars,
           ~(\E p \in Producers : wake_chain(p) \/ \E m \in DOMAIN mons : Post(p, m))
    PROVE  /\ \A p \in Producers : bursts'[p].chain = bursts[p].chain
           /\ \A i \in DOMAIN ques : ques'[i].in_burst = ques[i].in_burst
           /\ \A i \in DOMAIN ques' : ques'[i].in_burst => i \in DOMAIN ques
<1>1. CASE Attach
    BY <1>1, AttachEffect DEF Attach, Still, Empty
<1>2. ASSUME NEW m \in DOMAIN mons, CloseProducer(m) \/ CloseReader(m)
      PROVE  /\ bursts' = bursts /\ DOMAIN ques' = DOMAIN ques
             /\ \A i \in DOMAIN ques : ques'[i].in_burst = ques[i].in_burst
    BY <1>2, CloseProducerEffect, CloseReaderEffect DEF CloseProducer, CloseReader, Still
<1>3. CASE PollEvent \/ DropCancelled
  <2>1. bursts' = bursts BY <1>3 DEF PollEvent, DropCancelled
  <2>2. \A i \in DOMAIN ques : ques'[i].in_burst = ques[i].in_burst
      BY <1>3, TakeEffect DEF Advances
  <2> QED BY <1>3, <2>1, <2>2, TakeEffect
<1>4. CASE PollEnded
    BY <1>4, PollEndedEffect DEF PollEnded, Still
<1>5. ASSUME NEW p \in Producers, BurstWake(p)
      PROVE  /\ ques' = ques /\ \A r \in Producers : bursts'[r].chain = bursts[r].chain
  <2>1. bursts \in [Producers -> PostBurst(DOMAIN ques)] BY DEF IInv, TypeOK
  <2>2. PICK ph : bursts' = [bursts EXCEPT ![p].phase = ph] /\ ques' = ques BY <1>5 DEF BurstWake
  <2> QED BY <2>1, <2>2 DEF PostBurst
<1>6. CASE ques' = ques /\ bursts' = bursts BY <1>6
<1>7. \/ ques' = ques /\ bursts' = bursts
      \/ Attach \/ PollEvent \/ DropCancelled \/ PollEnded
      \/ \E m \in DOMAIN mons : CloseProducer(m) \/ CloseReader(m)
      \/ \E p \in Producers : BurstWake(p)
    BY DEF Next, Dispatch, Produce, Poll, vars, OwedWake, flow_ctrl_on, flow_ctrl_off,
           FlowReleased, post_reply, Resume, ResumeOther, PollReply, PollBegin,
           PollNothing, ParkNext, ParkLast, close_replies
<1> QED BY <1>1, <1>2, <1>3, <1>4, <1>5, <1>6, <1>7

\* The chains and the marks are the same.
LEMMA ChainsKept ==
    ASSUME IInv, ChainsInv,
           \A p \in Producers : bursts'[p].chain = bursts[p].chain,
           \A i \in DOMAIN ques : ques'[i].in_burst = ques[i].in_burst,
           \A i \in DOMAIN ques' : ques'[i].in_burst => i \in DOMAIN ques
    PROVE  ChainsInv'
<1>1. \A p \in Producers : \A k \in DOMAIN bursts[p].chain : bursts[p].chain[k] \in DOMAIN ques
    BY ChainTypes
<1>2. \A i \in DOMAIN ques' : ques'[i].in_burst =>
            \E p \in Producers : \E k \in DOMAIN bursts'[p].chain : bursts'[p].chain[k] = i
  <2> SUFFICES ASSUME NEW i \in DOMAIN ques', ques'[i].in_burst
               PROVE  \E p \in Producers : \E k \in DOMAIN bursts'[p].chain : bursts'[p].chain[k] = i
      OBVIOUS
  <2>1. i \in DOMAIN ques /\ ques[i].in_burst OBVIOUS
  <2> QED BY <2>1 DEF ChainsInv
<1>3. ASSUME NEW p \in Producers, NEW k \in DOMAIN bursts'[p].chain
      PROVE  ques'[bursts'[p].chain[k]].in_burst
    BY <1>1, <1>3 DEF ChainsInv
<1>4. ASSUME NEW p \in Producers, NEW r \in Producers, NEW k \in DOMAIN bursts'[p].chain,
             NEW l \in DOMAIN bursts'[r].chain, bursts'[p].chain[k] = bursts'[r].chain[l]
      PROVE  p = r /\ k = l
    BY <1>4 DEF ChainsInv
<1> QED BY <1>2, <1>3, <1>4 DEF ChainsInv

\* Every step keeps a queue in a burst on one place of the chains.
LEMMA ChainsNext == ASSUME IInv, ChainsInv, [Next]_vars PROVE ChainsInv'
<1>1. CASE ~(\E p \in Producers : wake_chain(p) \/ \E m \in DOMAIN mons : Post(p, m))
  <2>1. /\ \A p \in Producers : bursts'[p].chain = bursts[p].chain
        /\ \A i \in DOMAIN ques : ques'[i].in_burst = ques[i].in_burst
        /\ \A i \in DOMAIN ques' : ques'[i].in_burst => i \in DOMAIN ques
      BY <1>1, QuietBursts
  <2> QED BY <2>1, ChainsKept
<1>2. ASSUME NEW p \in Producers, NEW m \in DOMAIN mons, Post(p, m) PROVE ChainsInv'
  <2> DEFINE i == mons[m].que
  <2>1. /\ DOMAIN ques' = DOMAIN ques /\ i \in DOMAIN ques
        /\ \A j \in DOMAIN ques : j # i => ques'[j] = ques[j]
      BY <1>2, PostEffect
  <2>2. CASE bursts' = bursts /\ ques'[i].in_burst = ques[i].in_burst
    <3>1. \A j \in DOMAIN ques : ques'[j].in_burst = ques[j].in_burst BY <2>1, <2>2
    <3> QED BY <2>1, <2>2, <3>1, ChainsKept
  <2>3. CASE bursts' = [bursts EXCEPT ![p].chain = Append(@, i)] /\ ~ques[i].in_burst /\ ques'[i].in_burst
    <3> DEFINE n == Len(bursts[p].chain)
               c == Append(bursts[p].chain, i)
    <3>1. /\ bursts \in [Producers -> PostBurst(DOMAIN ques)]
          /\ bursts[p].chain \in Seq(DOMAIN ques) /\ n \in Nat
        BY ChainTypes DEF IInv, TypeOK
    <3>2. /\ DOMAIN c = 1 .. (n + 1) /\ c[n + 1] = i
          /\ \A k \in 1 .. n : c[k] = bursts[p].chain[k] /\ k \in DOMAIN c
        BY <2>1, <3>1
    <3>3. bursts'[p].chain = c /\ \A r \in Producers : r # p => bursts'[r].chain = bursts[r].chain
        BY <2>3, <3>1 DEF PostBurst
    <3>4. \A r \in Producers : \A k \in DOMAIN bursts[r].chain : bursts[r].chain[k] # i
        BY <2>3 DEF ChainsInv
    <3>5. DOMAIN bursts[p].chain = 1 .. n BY <3>1
    <3> HIDE DEF c, n, i
    <3>6. \A j \in DOMAIN ques' : ques'[j].in_burst =>
              \E r \in Producers : \E k \in DOMAIN bursts'[r].chain : bursts'[r].chain[k] = j
      <4> SUFFICES ASSUME NEW j \in DOMAIN ques, ques'[j].in_burst
                   PROVE  \E r \in Producers : \E k \in DOMAIN bursts'[r].chain : bursts'[r].chain[k] = j
          BY <2>1
      <4>1. CASE j = i BY <3>1, <3>2, <3>3, <4>1
      <4>2. CASE j # i
        <5>1. ques[j].in_burst BY <2>1, <4>2
        <5>2. PICK r \in Producers : \E k \in DOMAIN bursts[r].chain : bursts[r].chain[k] = j
            BY <5>1 DEF ChainsInv
        <5> QED BY <3>2, <3>3, <3>5, <5>2
      <4> QED BY <4>1, <4>2
    <3>7. \A r \in Producers : \A k \in DOMAIN bursts'[r].chain : ques'[bursts'[r].chain[k]].in_burst
      <4>1. ASSUME NEW r \in Producers, NEW k \in DOMAIN bursts[r].chain
            PROVE  ques'[bursts[r].chain[k]].in_burst
          BY <2>1, <3>4, ChainTypes DEF ChainsInv
      <4> QED BY <2>3, <3>1, <3>2, <3>3, <3>5, <4>1
    <3>8. ASSUME NEW r \in Producers, NEW s \in Producers, NEW k \in DOMAIN bursts'[r].chain,
                 NEW l \in DOMAIN bursts'[s].chain, bursts'[r].chain[k] = bursts'[s].chain[l]
          PROVE  r = s /\ k = l
      <4>1. \/ r = p /\ k = n + 1 /\ bursts'[r].chain[k] = i
            \/ k \in DOMAIN bursts[r].chain /\ bursts'[r].chain[k] = bursts[r].chain[k]
          BY <3>1, <3>2, <3>3, <3>5
      <4>2. \/ s = p /\ l = n + 1 /\ bursts'[s].chain[l] = i
            \/ l \in DOMAIN bursts[s].chain /\ bursts'[s].chain[l] = bursts[s].chain[l]
          BY <3>1, <3>2, <3>3, <3>5
      <4> QED BY <3>4, <3>8, <4>1, <4>2 DEF ChainsInv
    <3> QED BY <3>6, <3>7, <3>8 DEF ChainsInv
  <2>4. \/ bursts' = bursts /\ ques'[i].in_burst = ques[i].in_burst
        \/ bursts' = [bursts EXCEPT ![p].chain = Append(@, i)] /\ ~ques[i].in_burst /\ ques'[i].in_burst
    <3>1. ques[i].in_burst \in BOOLEAN BY <2>1, AtFacts DEF QueInner
    <3>2. CASE /\ PostFlags(ques[i], ques'[i], flow_on, "Appended")
               /\ bursts' = IF ques[i].used = 0 /\ ~ques[i].in_burst
                            THEN [bursts EXCEPT ![p].chain = Append(@, i)] ELSE bursts
      <4>1. ques'[i].in_burst = (ques[i].in_burst \/ ques[i].used = 0) BY <3>2 DEF PostFlags
      <4> HIDE DEF i
      <4> QED BY <3>1, <3>2, <4>1
    <3>3. CASE PostFlags(ques[i], ques'[i], flow_on, "Replaced") /\ bursts' = bursts
        BY <3>3 DEF PostFlags
    <3> QED BY <1>2, <3>2, <3>3, PostEffect
  <2> QED BY <2>2, <2>3, <2>4
<1>3. ASSUME NEW p \in Producers, wake_chain(p) PROVE ChainsInv'
  <2> DEFINE c == bursts[p].chain
             i == Head(c)
  <2>1. /\ DOMAIN ques' = DOMAIN ques /\ i \in DOMAIN ques /\ ques'[i].in_burst = FALSE
        /\ \A j \in DOMAIN ques : j # i => ques'[j] = ques[j]
      BY <1>3, WakeChainEffect
  <2>2. c \in Seq(DOMAIN ques) /\ c # <<>> /\ bursts \in [Producers -> PostBurst(DOMAIN ques)]
      BY <1>3, ChainTypes DEF wake_chain, IInv, TypeOK
  <2>3. /\ DOMAIN Tail(c) = 1 .. (Len(c) - 1) /\ DOMAIN c = 1 .. Len(c) /\ Len(c) \in Nat /\ Len(c) > 0
        /\ \A k \in 1 .. (Len(c) - 1) : Tail(c)[k] = c[k + 1] /\ k + 1 \in DOMAIN c
        /\ c[1] = i
      BY <2>2
  <2>4. bursts'[p].chain = Tail(c) /\ \A r \in Producers : r # p => bursts'[r].chain = bursts[r].chain
      BY <1>3, <2>2 DEF wake_chain
  <2> HIDE DEF c, i
  <2>5. /\ \A k \in 1 .. (Len(c) - 1) : Tail(c)[k] # i
        /\ \A r \in Producers : r # p => \A k \in DOMAIN bursts[r].chain : bursts[r].chain[k] # i
    <3>1. \A k \in DOMAIN c : c[k] = i => k = 1 BY <2>3 DEF ChainsInv, c
    <3>2. \A k \in 1 .. (Len(c) - 1) : k + 1 # 1 BY <2>3
    <3>3. 1 \in DOMAIN c BY <2>3
    <3>4. \A r \in Producers : r # p => \A k \in DOMAIN bursts[r].chain : bursts[r].chain[k] # c[1]
        BY <3>3 DEF ChainsInv, c
    <3> QED BY <2>3, <3>1, <3>2, <3>4
  <2>6. \A j \in DOMAIN ques' : ques'[j].in_burst =>
            \E r \in Producers : \E k \in DOMAIN bursts'[r].chain : bursts'[r].chain[k] = j
    <3> SUFFICES ASSUME NEW j \in DOMAIN ques, ques'[j].in_burst
                 PROVE  \E r \in Producers : \E k \in DOMAIN bursts'[r].chain : bursts'[r].chain[k] = j
        BY <2>1
    <3>1. j # i /\ ques[j].in_burst BY <2>1
    <3>2. PICK r \in Producers : \E k \in DOMAIN bursts[r].chain : bursts[r].chain[k] = j
        BY <3>1 DEF ChainsInv
    <3>3. PICK k \in DOMAIN bursts[r].chain : bursts[r].chain[k] = j BY <3>2
    <3>4. CASE r # p BY <2>4, <3>3, <3>4
    <3>5. CASE r = p
      <4>1. k \in DOMAIN c /\ c[k] = j BY <3>3, <3>5 DEF c
      <4>2. k # 1 BY <2>3, <3>1, <4>1
      <4>3. k - 1 \in 1 .. (Len(c) - 1) /\ (k - 1) + 1 = k BY <2>3, <4>1, <4>2
      <4>4. Tail(c)[k - 1] = j /\ k - 1 \in DOMAIN Tail(c) BY <2>3, <4>1, <4>3
      <4> QED BY <2>4, <4>4
    <3> QED BY <3>4, <3>5
  <2>7. \A r \in Producers : \A k \in DOMAIN bursts'[r].chain : ques'[bursts'[r].chain[k]].in_burst
    <3>1. ASSUME NEW r \in Producers, r # p, NEW k \in DOMAIN bursts[r].chain
          PROVE  ques'[bursts[r].chain[k]].in_burst
        BY <2>1, <2>5, <3>1, ChainTypes DEF ChainsInv
    <3>2. ASSUME NEW k \in 1 .. (Len(c) - 1) PROVE ques'[Tail(c)[k]].in_burst
      <4>1. Tail(c)[k] = c[k + 1] /\ k + 1 \in DOMAIN c /\ Tail(c)[k] # i BY <2>3, <2>5
      <4>2. c[k + 1] \in DOMAIN ques /\ ques[c[k + 1]].in_burst
          BY <4>1, ChainTypes DEF ChainsInv, c
      <4> QED BY <2>1, <4>1, <4>2
    <3> QED BY <2>3, <2>4, <3>1, <3>2
  <2>8. ASSUME NEW r \in Producers, NEW s \in Producers, NEW k \in DOMAIN bursts'[r].chain,
               NEW l \in DOMAIN bursts'[s].chain, bursts'[r].chain[k] = bursts'[s].chain[l]
        PROVE  r = s /\ k = l
    <3> DEFINE up(t, x) == IF t = p THEN x + 1 ELSE x
    <3>1. ASSUME NEW t \in Producers, NEW x \in DOMAIN bursts'[t].chain
          PROVE  /\ up(t, x) \in DOMAIN bursts[t].chain /\ bursts[t].chain[up(t, x)] = bursts'[t].chain[x]
                 /\ t = p => x \in Int
      <4>1. CASE t = p
        <5>1. bursts'[t].chain = Tail(c) /\ x \in 1 .. (Len(c) - 1) BY <2>3, <2>4, <4>1
        <5>2. Tail(c)[x] = c[x + 1] /\ x + 1 \in DOMAIN c /\ x \in Int BY <2>3, <5>1
        <5> QED BY <4>1, <5>1, <5>2 DEF c
      <4>2. CASE t # p BY <2>4, <4>2
      <4> QED BY <4>1, <4>2
    <3>2. r = s /\ up(r, k) = up(s, l) BY <2>8, <3>1 DEF ChainsInv
    <3> QED BY <3>1, <3>2
  <2> QED BY <2>6, <2>7, <2>8 DEF ChainsInv
<1> QED BY <1>1, <1>2, <1>3

\* BurstOwnsQueue from its form without cardinalities.
LEMMA ChainsOwn == ASSUME IInv, ChainsInv PROVE BurstOwnsQueue
<1> SUFFICES ASSUME NEW i \in DOMAIN ques
             PROVE  LET places == UNION {{<<p, k>> : k \in {k \in DOMAIN bursts[p].chain :
                                                bursts[p].chain[k] = i}} : p \in Producers}
                    IN  IF ques[i].in_burst THEN Cardinality(places) = 1 ELSE places = {}
    BY DEF BurstOwnsQueue
<1> DEFINE places == UNION {{<<p, k>> : k \in {k \in DOMAIN bursts[p].chain :
                                                bursts[p].chain[k] = i}} : p \in Producers}
<1>1. \A x : x \in places <=> \E p \in Producers : \E k \in DOMAIN bursts[p].chain :
                                    bursts[p].chain[k] = i /\ x = <<p, k>>
    OBVIOUS
<1> HIDE DEF places
<1>2. CASE ques[i].in_burst
  <2>1. PICK p \in Producers : \E k \in DOMAIN bursts[p].chain : bursts[p].chain[k] = i
      BY <1>2 DEF ChainsInv
  <2>2. PICK k \in DOMAIN bursts[p].chain : bursts[p].chain[k] = i BY <2>1
  <2>3. \A x \in places : x = <<p, k>> BY <1>1, <2>2 DEF ChainsInv
  <2>4. places = {<<p, k>>} BY <1>1, <2>2, <2>3
  <2>5. Cardinality(places) = 1 BY <2>4, FS_Singleton
  <2> QED BY <1>2, <2>5 DEF places
<1>3. CASE ~ques[i].in_burst
  <2>1. places = {} BY <1>1, <1>3 DEF ChainsInv
  <2> QED BY <1>3, <2>1 DEF places
<1> QED BY <1>2, <1>3

\* post and wake_chain (event_queue.rs): however bursts, posts and drops
\* interleave, a queue is marked in_burst exactly while one burst's chain holds
\* it, once, so no wake is owed twice and none is forgotten.
THEOREM BurstsOwnQueues == Spec => []BurstOwnsQueue
<1>1. Init => ChainsInv
  <2> SUFFICES ASSUME Init PROVE ChainsInv OBVIOUS
  <2>1. DOMAIN ques = {1} /\ ques[1] = NewQue /\ \A p \in Producers : bursts[p].chain = <<>>
      BY DEF Init
  <2> QED BY <2>1, NewQueFields DEF ChainsInv
<1>2. IInv /\ ChainsInv /\ [Next]_vars => ChainsInv' BY ChainsNext
<1>3. IInv /\ ChainsInv => BurstOwnsQueue BY ChainsOwn
<1> QED BY <1>1, <1>2, <1>3, Invariance, PTL DEF Spec

-----------------------------------------------------------------------------
(* Drain passes.                                                           *)

\* Only the consumer's take on the queue it walks moves the taken count or the
\* pass mark of a queue, and no queue is made with one.
LEMMA PassKept ==
    ASSUME IInv, [Next]_vars, ~PollEvent, ~DropCancelled
    PROVE  /\ \A i \in DOMAIN ques : /\ ques'[i].taken = ques[i].taken
                                     /\ ques'[i].draining = ques[i].draining
                                     /\ ques'[i].used \in Nat /\ ques[i].used \in Nat
                                     /\ ques'[i].used >= ques[i].used
           /\ \A i \in DOMAIN ques' : ques'[i].draining => i \in DOMAIN ques
<1>1. \A i \in DOMAIN ques : ques[i].used \in Nat BY AtFacts DEF QueInner
<1>2. CASE Attach
  <2>1. \A i \in DOMAIN ques : Still(ques[i], ques'[i]) BY <1>2, AttachEffect
  <2>2. \A i \in DOMAIN ques' \ DOMAIN ques : ques'[i].draining = FALSE
      BY <1>2, AttachEffect DEF Empty
  <2> QED BY <1>1, <2>1, <2>2 DEF Still
<1>3. ASSUME NEW m \in DOMAIN mons, CloseProducer(m) \/ CloseReader(m)
      PROVE  /\ DOMAIN ques' = DOMAIN ques
             /\ \A i \in DOMAIN ques : /\ ques'[i].taken = ques[i].taken
                                       /\ ques'[i].draining = ques[i].draining
                                       /\ ques'[i].used = ques[i].used
  <2>1. CASE CloseProducer(m) BY <2>1, CloseProducerEffect
  <2>2. CASE CloseReader(m)
    <3>1. /\ DOMAIN ques' = DOMAIN ques
          /\ \A i \in DOMAIN ques : Still(ques[i], ques'[i])
        BY <2>2, CloseReaderEffect
    <3> QED BY <3>1 DEF Still
  <2> QED BY <1>3, <2>1, <2>2
<1>4. CASE PollEnded
  <2>1. /\ DOMAIN ques' = DOMAIN ques
        /\ \A i \in DOMAIN ques : Still(ques[i], ques'[i])
      BY <1>4, PollEndedEffect
  <2> QED BY <1>1, <2>1 DEF Still
<1>5. ASSUME NEW p \in Producers, NEW m \in DOMAIN mons, Post(p, m)
      PROVE  /\ DOMAIN ques' = DOMAIN ques
             /\ \A i \in DOMAIN ques : /\ ques'[i].taken = ques[i].taken
                                       /\ ques'[i].draining = ques[i].draining
                                       /\ ques'[i].used \in {ques[i].used, ques[i].used + 1}
  <2>1. /\ DOMAIN ques' = DOMAIN ques /\ mons[m].que \in DOMAIN ques
        /\ \A j \in DOMAIN ques : j # mons[m].que => ques'[j] = ques[j]
        /\ \/ PostFlags(ques[mons[m].que], ques'[mons[m].que], flow_on, "Appended")
           \/ PostFlags(ques[mons[m].que], ques'[mons[m].que], flow_on, "Replaced")
      BY <1>5, PostEffect
  <2> QED BY <2>1 DEF PostFlags
<1>6. ASSUME NEW p \in Producers, wake_chain(p)
      PROVE  /\ DOMAIN ques' = DOMAIN ques
             /\ \A i \in DOMAIN ques : /\ ques'[i].taken = ques[i].taken
                                       /\ ques'[i].draining = ques[i].draining
                                       /\ ques'[i].used = ques[i].used
    BY <1>6, WakeChainEffect
<1>7. CASE ques' = ques BY <1>1, <1>7
<1>8. \/ ques' = ques \/ Attach \/ PollEnded
      \/ \E m \in DOMAIN mons : CloseProducer(m) \/ CloseReader(m)
      \/ \E p \in Producers : wake_chain(p) \/ \E m \in DOMAIN mons : Post(p, m)
    BY DEF Next, Dispatch, Produce, Poll, vars, OwedWake, flow_ctrl_on, flow_ctrl_off,
           FlowReleased, post_reply, BurstWake, Resume, ResumeOther, PollReply, PollBegin,
           PollNothing, ParkNext, ParkLast, close_replies
<1> QED BY <1>1, <1>2, <1>3, <1>4, <1>5, <1>6, <1>7, <1>8

\* may_drain (event_queue.rs): EVENTS_OFF.  Whatever is posted, replaced and
\* cancelled before, with the flag set the consumer starts a pass over a queue
\* only while some monitor of the queue has a second entry in it.
THEOREM EventsOffHolds == Spec => GateHolds
<1>1. IInv /\ [Next]_vars =>
        [\A i \in DOMAIN ques :
            ques'[i].taken > ques[i].taken /\ pc = "walk" /\ flow_on /\ ~ques[i].draining =>
                \E s \in Slots : ques[i].subs[s] # NoSub /\ ques[i].subs[s].npend > 1]_vars
  <2> SUFFICES ASSUME IInv, [Next]_vars, NEW i \in DOMAIN ques,
                      ques'[i].taken > ques[i].taken, pc = "walk", flow_on, ~ques[i].draining
               PROVE  \E s \in Slots : ques[i].subs[s] # NoSub /\ ques[i].subs[s].npend > 1
      OBVIOUS
  <2>1. ques[i].taken \in Nat /\ QueOK(ques[i]) BY AtFacts DEF QueInner
  <2>2. PollEvent \/ DropCancelled BY <2>1, PassKept
  <2>3. i = at BY <2>1, <2>2, TakeEffect
  <2>4. may_drain(ques[i], flow_on) BY <2>2, <2>3 DEF PollEvent, DropCancelled, Takes
  <2>5. ques[i].n_duplicates > 0 BY <2>4 DEF may_drain
  <2> QED BY <2>1, <2>5, DuplicatesMean
<1> QED BY <1>1, Invariance, PTL DEF Spec, GateHolds

\* A pass is in flight on a queue with entries, the one the poll reads first or
\* is draining, and none is when the consumer parks or is past that queue.
DrainInv ==
    /\ pc \in {"idle", "poll"} => step = 0
    /\ \A i \in DOMAIN ques : ques[i].draining =>
            /\ ques[i].used > 0
            /\ pc # "idle" /\ pc # "park"
            /\ i = IF pc = "drain" THEN at ELSE reading
            /\ pc = "walk" => step = 0

\* At the first queue of its walk the consumer is on the queue it reads.
LEMMA AtReading == ASSUME IInv, step = 0 PROVE at = reading
<1>1. reading \in 1 .. Len(ques) /\ Len(ques) \in Nat BY AtFacts DEF IInv, TypeOK
<1> QED BY <1>1 DEF at

\* The queue the walk is on, after a step that keeps its place.
LEMMA AtKept ==
    ASSUME reading' = reading, step' = step, Len(ques') = Len(ques)
    PROVE  at' = at
BY DEF at

\* Every step keeps a pass where it belongs.
LEMMA DrainNext == ASSUME IInv, DrainInv, [Next]_vars PROVE DrainInv'
<1>1. CASE PollEvent
  <2>1. reading' = at /\ step' = 0 /\ pc' = "poll" BY <1>1 DEF PollEvent
  <2>2. /\ at \in DOMAIN ques /\ DOMAIN ques' = DOMAIN ques
        /\ Advances(ques[at], ques'[at])
        /\ \A j \in DOMAIN ques : j # at => ques'[j] = ques[j]
      BY <1>1, TakeEffect
  <2>3. pc = "walk" \/ pc = "drain" BY <1>1 DEF PollEvent, Takes
  <2>4. \A j \in DOMAIN ques : ques[j].draining => j = at
      BY <2>3, AtReading DEF DrainInv
  <2>5. ques[at].used \in Nat /\ ques'[at].used = ques[at].used - 1
        /\ (ques'[at].draining => ques[at].used > 1)
      BY <2>2, AtFacts DEF Advances, QueInner
  <2>6. \A j \in DOMAIN ques : ques'[j].draining => j = at /\ ques'[j].used > 0
    <3>1. ques'[at].draining => ques'[at].used > 0 BY <2>5
    <3> QED BY <2>2, <2>4, <3>1
  <2> QED BY <2>1, <2>2, <2>6 DEF DrainInv
<1>2. CASE DropCancelled
  <2>1. reading' = reading /\ step' = step /\ pc' = "drain" BY <1>2 DEF DropCancelled
  <2>2. /\ at \in DOMAIN ques /\ DOMAIN ques' = DOMAIN ques /\ Len(ques') = Len(ques)
        /\ Advances(ques[at], ques'[at])
        /\ \A j \in DOMAIN ques : j # at => ques'[j] = ques[j]
      BY <1>2, TakeEffect
  <2>3. pc = "walk" \/ pc = "drain" BY <1>2 DEF DropCancelled, Takes
  <2>4. \A j \in DOMAIN ques : ques[j].draining => j = at
      BY <2>3, AtReading DEF DrainInv
  <2>5. ques[at].used \in Nat /\ ques'[at].used = ques[at].used - 1
        /\ (ques'[at].draining => ques[at].used > 1)
      BY <2>2, AtFacts DEF Advances, QueInner
  <2>6. at' = at BY <2>1, <2>2, AtKept
  <2>7. \A j \in DOMAIN ques : ques'[j].draining => j = at /\ ques'[j].used > 0
    <3>1. ques'[at].draining => ques'[at].used > 0 BY <2>5
    <3> QED BY <2>2, <2>4, <3>1
  <2> QED BY <2>1, <2>2, <2>6, <2>7 DEF DrainInv
<1>3. ASSUME ~PollEvent, ~DropCancelled
      PROVE  \A i \in DOMAIN ques' : ques'[i].draining =>
                i \in DOMAIN ques /\ ques[i].draining /\ ques'[i].used > 0
    BY <1>3, PassKept DEF DrainInv
<1>4. CASE ~PollEvent /\ ~DropCancelled /\ UNCHANGED <<pc, step, reading>> /\ pc # "drain"
    BY <1>3, <1>4 DEF DrainInv
<1>5. CASE ~PollEvent /\ ~DropCancelled /\ UNCHANGED <<pc, step, reading>> /\ ~Attach
  <2>1. Len(ques') = Len(ques)
    <3>1. CASE ques' = ques BY <3>1
    <3>2. \/ ques' = ques \/ PollEnded
          \/ \E m \in DOMAIN mons : CloseProducer(m) \/ CloseReader(m)
          \/ \E p \in Producers : wake_chain(p) \/ \E m \in DOMAIN mons : Post(p, m)
        BY <1>5 DEF Next, Dispatch, Produce, Poll, vars, OwedWake, flow_ctrl_on, flow_ctrl_off,
                    FlowReleased, post_reply, BurstWake, Resume, ResumeOther, PollReply, PollBegin,
                    PollNothing, ParkNext, ParkLast, close_replies
    <3> QED BY <3>1, <3>2, PollEndedEffect, CloseProducerEffect, CloseReaderEffect,
               WakeChainEffect, PostEffect
  <2>2. at' = at BY <1>5, <2>1, AtKept
  <2> QED BY <1>3, <1>5, <2>2 DEF DrainInv
<1>6. CASE PollBegin \/ Resume \/ ResumeOther \/ close_replies
  <2>1. ques' = ques /\ reading' = reading /\ step' = step /\ pc \in {"idle", "poll"} /\ pc' # "drain"
        /\ (pc = "idle" \/ pc' # "idle") /\ pc' # "park"
      BY <1>6 DEF PollBegin, Resume, ResumeOther, close_replies
  <2> QED BY <2>1 DEF DrainInv
<1>7. CASE PollEnded
  <2>1. reading' = at /\ step' = 0 /\ pc' = "poll" /\ pc \in {"walk", "drain"}
      BY <1>7 DEF PollEnded
  <2>2. ~PollEvent /\ ~DropCancelled BY <1>7 DEF PollEnded, PollEvent, DropCancelled
  <2>3. \A j \in DOMAIN ques : ques[j].draining => j = at
      BY <2>1, AtReading DEF DrainInv
  <2> QED BY <1>3, <2>1, <2>2, <2>3 DEF DrainInv
<1>8. CASE PollNothing
  <2>1. ques' = ques /\ step' = step /\ reading' = reading /\ pc' = "park" /\ pc \in {"walk", "drain"} /\ ~Takes
      BY <1>8 DEF PollNothing
  <2>2. \A j \in DOMAIN ques : ques[j].draining => j = at
      BY <2>1, AtReading DEF DrainInv
  <2>3. \A j \in DOMAIN ques : ~ques[j].draining
      BY <2>1, <2>2 DEF DrainInv, Takes, may_drain
  <2> QED BY <2>1, <2>3 DEF DrainInv
<1>9. CASE ParkNext \/ ParkLast
  <2>1. ques' = ques /\ pc = "park" /\ (step' = 0 \/ pc' = "walk")
      BY <1>9 DEF ParkNext, ParkLast
  <2>2. \A j \in DOMAIN ques' : ~ques'[j].draining BY <2>1 DEF DrainInv
  <2> QED BY <2>1, <2>2 DEF DrainInv
<1>10. \/ UNCHANGED <<pc, step, reading>> \/ PollEvent \/ DropCancelled \/ PollBegin \/ Resume
       \/ ResumeOther \/ close_replies \/ PollEnded \/ PollNothing \/ ParkNext \/ ParkLast
    BY DEF Next, Dispatch, Produce, Poll, vars, consumerVars, Attach, CloseProducer, CloseReader,
           OwedWake, flow_ctrl_on, flow_ctrl_off, FlowReleased, post_reply, Post, wake_chain,
           BurstWake, PollReply
<1>11. Attach => pc # "drain" BY DEF Attach, ChainLocked
<1> QED BY <1>1, <1>2, <1>4, <1>5, <1>6, <1>7, <1>8, <1>9, <1>10, <1>11

\* poll_next (event_queue.rs): the pass the consumer began on a queue is the
\* only one in flight, at the queue the next poll reads first, so the entries of
\* one queue are never interleaved with another's.
THEOREM OnePassInFlight == Spec => []OneDrainPass
<1>1. Init => DrainInv
  <2> SUFFICES ASSUME Init PROVE DrainInv OBVIOUS
  <2>1. DOMAIN ques = {1} /\ ques[1] = NewQue /\ step = 0 BY DEF Init
  <2> QED BY <2>1, NewQueFields DEF DrainInv
<1>2. IInv /\ DrainInv /\ [Next]_vars => DrainInv' BY DrainNext
<1>3. DrainInv => OneDrainPass BY DEF DrainInv, OneDrainPass
<1> QED BY <1>1, <1>2, <1>3, Invariance, PTL DEF Spec

-----------------------------------------------------------------------------
(* Wakes.                                                                  *)

\* Deliverable, of a queue and the EVENTS_OFF flag.
Owes(q, fl) == (q.used > 0 /\ may_drain(q, fl)) \/ Ended(q) # {}

\* How far along the walk queue i is, and the queues this poll left behind it.
Offset(i) == IF i >= reading THEN i - reading ELSE i - reading + Len(ques)
Passed(i) == pc = "idle" \/ (ChainLocked /\ Offset(i) < step)

\* Once the poll has parked on a queue a wake can reach it: it is parked or a
\* wake has it scheduled.  What a queue left behind has to deliver, or a reply
\* that came after the poll, is owed a wake.  What the queue being parked on has
\* to deliver came with EVENTS_ON, whose wake waits for the chain lock.
WakeInv ==
    /\ ~notified /\ (pc = "idle" \/ (ChainLocked /\ step > 0)) => parked
    /\ ~notified => \A i \in DOMAIN ques : Passed(i) /\ Owes(ques[i], flow_on) => WakeOwed
    /\ pc = "park" /\ Owes(ques[at], flow_on) => releasing
    /\ ~notified /\ pc = "idle" /\ replies # <<>> => WakeOwed

\* Steps that move neither the consumer nor its wake, and whatever they make
\* deliverable they owe a wake for.
LEMMA WakeFrame ==
    ASSUME WakeInv, UNCHANGED <<pc, step, reading, notified, parked>>,
           ChainLocked => Len(ques') = Len(ques),
           WakeOwed => WakeOwed',
           \A i \in DOMAIN ques' : Owes(ques'[i], flow_on') =>
                (i \in DOMAIN ques /\ Owes(ques[i], flow_on)) \/ WakeOwed',
           replies' # <<>> => replies # <<>> \/ WakeOwed',
           pc = "park" /\ Owes(ques'[at'], flow_on') => releasing'
    PROVE  WakeInv'
<1>1. \A i : Passed(i)' => Passed(i) BY DEF Passed, ChainLocked, Offset
<1>2. (~notified /\ (pc = "idle" \/ (ChainLocked /\ step > 0)) => parked)'
    BY DEF WakeInv, ChainLocked
<1>3. ASSUME ~notified', NEW i \in DOMAIN ques', Passed(i)', Owes(ques'[i], flow_on')
      PROVE  WakeOwed'
    BY <1>1, <1>3 DEF WakeInv
<1>4. (~notified /\ pc = "idle" /\ replies # <<>> => WakeOwed)' BY DEF WakeInv
<1> QED BY <1>2, <1>3, <1>4 DEF WakeInv

\* A wake owed stays owed while no mark, call or burst goes.
LEMMA WakeKept ==
    ASSUME WakeOwed, IInv, DOMAIN ques \subseteq DOMAIN ques', wakesOwed' \in {wakesOwed, wakesOwed + 1},
           releasing' = releasing, \A p \in Producers : bursts'[p].phase = bursts[p].phase,
           \A i \in DOMAIN ques : ques[i].in_burst => ques'[i].in_burst
    PROVE  WakeOwed'
<1>1. wakesOwed \in Nat BY DEF IInv, TypeOK
<1>2. wakesOwed > 0 => wakesOwed' > 0 BY <1>1
<1> QED BY <1>2 DEF WakeOwed

\* What is deliverable by the flags alone.
LEMMA OwesStill ==
    ASSUME NEW q, NEW r, NEW fl,
           r.used = q.used, r.n_duplicates = q.n_duplicates, r.draining = q.draining,
           Ended(r) \subseteq Ended(q), Owes(r, fl)
    PROVE  Owes(q, fl)
BY DEF Owes, may_drain

\* Attach, closes, flow control and replies.
LEMMA WakeDispatch ==
    ASSUME IInv, WakeInv,
           \/ Attach \/ flow_ctrl_on \/ flow_ctrl_off \/ post_reply
           \/ \E m \in DOMAIN mons : CloseProducer(m) \/ CloseReader(m)
    PROVE  WakeInv'
<1>1. CASE Attach
  <2>1. /\ UNCHANGED <<flow_on, replies, bursts, wakesOwed, releasing>> /\ ~ChainLocked
        /\ UNCHANGED <<pc, step, reading, notified, parked>>
      BY <1>1 DEF Attach, consumerVars, wakeVars
  <2>2. \A i \in DOMAIN ques : Still(ques[i], ques'[i]) BY <1>1, AttachEffect
  <2>3. \A i \in DOMAIN ques' \ DOMAIN ques : Empty(ques'[i]) BY <1>1, AttachEffect
  <2>4. DOMAIN ques \subseteq DOMAIN ques' BY <1>1, AttachStep DEF ChainStep
  <2>5. WakeOwed => WakeOwed' BY <2>1, <2>2, <2>4, WakeKept DEF Still
  <2>6. \A i \in DOMAIN ques' : Owes(ques'[i], flow_on') => i \in DOMAIN ques /\ Owes(ques[i], flow_on)
    <3> SUFFICES ASSUME NEW i \in DOMAIN ques', Owes(ques'[i], flow_on)
                 PROVE  i \in DOMAIN ques /\ Owes(ques[i], flow_on)
        BY <2>1
    <3>1. CASE i \in DOMAIN ques BY <2>2, <3>1, OwesStill DEF Still
    <3>2. CASE i \notin DOMAIN ques BY <2>3, <3>2 DEF Empty, Owes
    <3> QED BY <3>1, <3>2
  <2>7. pc # "park" BY <2>1 DEF ChainLocked
  <2> QED BY <2>1, <2>5, <2>6, <2>7, WakeFrame
<1>2. ASSUME NEW m \in DOMAIN mons, CloseProducer(m) PROVE WakeInv'
  <2>1. /\ UNCHANGED <<flow_on, replies, bursts, releasing>> /\ wakesOwed' = wakesOwed + 1
        /\ UNCHANGED <<pc, step, reading, notified, parked>> /\ ~QueLocked(mons[m].que)
      BY <1>2 DEF CloseProducer, consumerVars, wakeVars
  <2>2. WakeOwed'
    <3>1. wakesOwed \in Nat BY DEF IInv, TypeOK
    <3> QED BY <2>1, <3>1 DEF WakeOwed
  <2>3. Len(ques') = Len(ques) /\ \A j \in DOMAIN ques : j # mons[m].que => ques'[j] = ques[j]
      BY <1>2, CloseProducerEffect
  <2>4. at' = at BY <2>1, <2>3, AtKept
  <2>5. pc = "park" => ques'[at'] = ques[at]
      BY <2>1, <2>3, <2>4, AtFacts DEF QueLocked
  <2> QED BY <2>1, <2>2, <2>3, <2>5, WakeFrame DEF WakeInv
<1>3. ASSUME NEW m \in DOMAIN mons, CloseReader(m) PROVE WakeInv'
  <2>1. /\ UNCHANGED <<flow_on, replies, bursts, releasing>> /\ wakesOwed' \in {wakesOwed, wakesOwed + 1}
        /\ UNCHANGED <<pc, step, reading, notified, parked>>
      BY <1>3 DEF CloseReader, consumerVars, wakeVars
  <2>2. DOMAIN ques' = DOMAIN ques /\ Len(ques') = Len(ques) /\ \A j \in DOMAIN ques : Still(ques[j], ques'[j])
      BY <1>3, CloseReaderEffect
  <2>3. at' = at /\ at \in DOMAIN ques BY <2>1, <2>2, AtKept, AtFacts
  <2>4. WakeOwed => WakeOwed' BY <2>1, <2>2, WakeKept DEF Still
  <2>5. \A i \in DOMAIN ques : Owes(ques'[i], flow_on') => Owes(ques[i], flow_on)
      BY <2>1, <2>2, OwesStill DEF Still
  <2>6. pc = "park" /\ Owes(ques'[at'], flow_on') => releasing'
      BY <2>1, <2>3, <2>5 DEF WakeInv
  <2> QED BY <2>1, <2>2, <2>4, <2>5, <2>6, WakeFrame
<1>4. CASE flow_ctrl_on
  <2>1. /\ UNCHANGED <<ques, replies, bursts, releasing, wakesOwed>> /\ ~flow_on
        /\ UNCHANGED <<pc, step, reading, notified, parked>>
      BY <1>4 DEF flow_ctrl_on, consumerVars, wakeVars
  <2>2. at' = at BY <2>1, AtKept
  <2>3. WakeOwed => WakeOwed' BY <2>1 DEF WakeOwed
  <2>4. \A q : Owes(q, flow_on') => Owes(q, flow_on) BY <2>1 DEF Owes, may_drain
  <2>5. pc = "park" /\ Owes(ques'[at'], flow_on') => releasing' BY <2>1, <2>2, <2>4 DEF WakeInv
  <2> QED BY <2>1, <2>3, <2>4, <2>5, WakeFrame
<1>5. CASE flow_ctrl_off
  <2>1. /\ UNCHANGED <<ques, replies>> /\ releasing'
        /\ UNCHANGED <<pc, step, reading, notified, parked>>
      BY <1>5 DEF flow_ctrl_off, consumerVars, wakeVars
  <2>2. WakeOwed' BY <2>1 DEF WakeOwed
  <2> QED BY <2>1, <2>2, WakeFrame
<1>6. CASE post_reply
  <2>1. /\ UNCHANGED <<ques, flow_on, releasing>> /\ wakesOwed' = wakesOwed + 1
        /\ UNCHANGED <<pc, step, reading, notified, parked>>
      BY <1>6 DEF post_reply, consumerVars, wakeVars
  <2>2. WakeOwed'
    <3>1. wakesOwed \in Nat BY DEF IInv, TypeOK
    <3> QED BY <2>1, <3>1 DEF WakeOwed
  <2>3. at' = at BY <2>1, AtKept
  <2>4. pc = "park" /\ Owes(ques'[at'], flow_on') => releasing' BY <2>1, <2>3 DEF WakeInv
  <2> QED BY <2>1, <2>2, <2>4, WakeFrame
<1> QED BY <1>1, <1>2, <1>3, <1>4, <1>5, <1>6

\* Posts, and queues leaving a burst.
LEMMA WakeProduce ==
    ASSUME IInv, WakeInv, NEW p \in Producers, wake_chain(p) \/ \E m \in DOMAIN mons : Post(p, m)
    PROVE  WakeInv'
<1>1. ASSUME NEW m \in DOMAIN mons, Post(p, m) PROVE WakeInv'
  <2> DEFINE i == mons[m].que
  <2>1. /\ UNCHANGED <<flow_on, replies, wakesOwed, releasing>> /\ ~QueLocked(i)
        /\ UNCHANGED <<pc, step, reading, notified, parked>>
      BY <1>1 DEF Post, consumerVars, wakeVars
  <2>2. /\ DOMAIN ques' = DOMAIN ques /\ Len(ques') = Len(ques) /\ i \in DOMAIN ques
        /\ \A j \in DOMAIN ques : j # i => ques'[j] = ques[j]
        /\ \/ PostFlags(ques[i], ques'[i], flow_on, "Appended")
           \/ PostFlags(ques[i], ques'[i], flow_on, "Replaced")
        /\ \/ bursts' = bursts
           \/ bursts' = [bursts EXCEPT ![p].chain = Append(@, i)]
      BY <1>1, PostEffect
  <2>3. \A r \in Producers : bursts'[r].phase = bursts[r].phase
    <3>1. bursts \in [Producers -> PostBurst(DOMAIN ques)] BY DEF IInv, TypeOK
    <3> QED BY <2>2, <3>1 DEF PostBurst
  <2> HIDE DEF i
  <2>4. ques[i].used \in Nat /\ ques[i].in_burst \in BOOLEAN BY <2>2, AtFacts DEF QueInner
  <2>5. (ques[i].in_burst => ques'[i].in_burst) /\ (Owes(ques'[i], flow_on) => Owes(ques[i], flow_on) \/ ques'[i].in_burst)
    <3>1. CASE PostFlags(ques[i], ques'[i], flow_on, "Appended")
      <4>1. /\ ques'[i].in_burst = (ques[i].in_burst \/ ques[i].used = 0)
            /\ ques'[i].draining = ques[i].draining /\ ques'[i].used = ques[i].used + 1
            /\ flow_on => ques'[i].n_duplicates = ques[i].n_duplicates
            /\ Ended(ques'[i]) \subseteq Ended(ques[i])
          BY <3>1 DEF PostFlags
      <4>2. (ques[i].in_burst => ques'[i].in_burst) /\ (ques[i].used = 0 => ques'[i].in_burst)
          BY <2>4, <4>1
      <4>3. CASE ques[i].used = 0 BY <4>2, <4>3
      <4>4. CASE ques[i].used # 0
        <5>1. ques[i].used > 0 BY <2>4, <4>4
        <5>2. may_drain(ques'[i], flow_on) => may_drain(ques[i], flow_on)
            BY <4>1 DEF may_drain
        <5> QED BY <4>1, <4>2, <5>1, <5>2 DEF Owes
      <4> QED BY <4>3, <4>4
    <3>2. CASE PostFlags(ques[i], ques'[i], flow_on, "Replaced")
      <4>1. /\ ques'[i].in_burst = ques[i].in_burst
            /\ ques'[i].draining = ques[i].draining /\ ques'[i].used = ques[i].used
            /\ flow_on => ques'[i].n_duplicates = ques[i].n_duplicates
            /\ Ended(ques'[i]) \subseteq Ended(ques[i])
          BY <3>2 DEF PostFlags
      <4>2. may_drain(ques'[i], flow_on) => may_drain(ques[i], flow_on)
          BY <4>1 DEF may_drain
      <4> QED BY <4>1, <4>2 DEF Owes
    <3> QED BY <2>2, <3>1, <3>2
  <2>6. \A j \in DOMAIN ques : ques[j].in_burst => ques'[j].in_burst BY <2>2, <2>5
  <2>7. WakeOwed => WakeOwed' BY <2>1, <2>2, <2>3, <2>6, WakeKept
  <2>8. ques'[i].in_burst => WakeOwed' BY <2>2 DEF WakeOwed
  <2>9. \A j \in DOMAIN ques' : Owes(ques'[j], flow_on') => (j \in DOMAIN ques /\ Owes(ques[j], flow_on)) \/ WakeOwed'
      BY <2>1, <2>2, <2>5, <2>8
  <2>10. at' = at BY <2>1, <2>2, AtKept
  <2>11. pc = "park" => ques'[at'] = ques[at]
      BY <2>1, <2>2, <2>10, AtFacts DEF QueLocked
  <2>12. pc = "park" /\ Owes(ques'[at'], flow_on') => releasing' BY <2>1, <2>11 DEF WakeInv
  <2> QED BY <2>1, <2>2, <2>7, <2>9, <2>12, WakeFrame
<1>2. CASE wake_chain(p)
  <2>1. /\ UNCHANGED <<flow_on, replies, wakesOwed, releasing>>
        /\ UNCHANGED <<pc, step, reading, notified, parked>>
        /\ bursts' = [bursts EXCEPT ![p] = [phase |-> "waking", chain |-> Tail(@.chain)]]
      BY <1>2 DEF wake_chain, consumerVars, wakeVars
  <2>2. bursts'[p].phase = "waking" BY <2>1 DEF IInv, TypeOK
  <2>3. WakeOwed' BY <2>2 DEF WakeOwed
  <2>4. /\ DOMAIN ques' = DOMAIN ques /\ Len(ques') = Len(ques)
        /\ \A j \in DOMAIN ques :
                /\ ques'[j].used = ques[j].used /\ ques'[j].n_duplicates = ques[j].n_duplicates
                /\ ques'[j].draining = ques[j].draining /\ Ended(ques'[j]) = Ended(ques[j])
      BY <1>2, WakeChainEffect
  <2>5. at' = at /\ at \in DOMAIN ques BY <2>1, <2>4, AtKept, AtFacts
  <2>6. \A j \in DOMAIN ques : Owes(ques'[j], flow_on') => Owes(ques[j], flow_on)
      BY <2>1, <2>4, OwesStill
  <2>7. pc = "park" /\ Owes(ques'[at'], flow_on') => releasing' BY <2>1, <2>5, <2>6 DEF WakeInv
  <2> QED BY <2>1, <2>3, <2>4, <2>7, WakeFrame
<1> QED BY <1>1, <1>2

\* Where the walk is, and where it has been.
LEMMA WalkFacts ==
    ASSUME IInv
    PROVE  /\ \A i \in DOMAIN ques : Offset(i) \in 0 .. (Len(ques) - 1)
           /\ \A i \in DOMAIN ques : Offset(i) = step => i = at
           /\ Offset(at) = step /\ step \in Nat
<1>1. /\ reading \in 1 .. Len(ques) /\ Len(ques) \in Nat /\ DOMAIN ques = 1 .. Len(ques)
      /\ step \in 0 .. (Len(ques) - 1) /\ at \in DOMAIN ques
    BY AtFacts DEF IInv, TypeOK
<1>2. \A i \in DOMAIN ques : Offset(i) \in 0 .. (Len(ques) - 1) BY <1>1 DEF Offset
<1>3. \A i \in DOMAIN ques : Offset(i) = step => i = at BY <1>1 DEF Offset, at
<1>4. Offset(at) = step BY <1>1 DEF Offset, at
<1> QED BY <1>1, <1>2, <1>3, <1>4

\* The wakes themselves: a consumer that is past a queue is parked, so the wake
\* schedules it.
LEMMA WakeGiven ==
    ASSUME IInv, WakeInv, OwedWake \/ FlowReleased \/ \E p \in Producers : BurstWake(p)
    PROVE  WakeInv'
<1>1. /\ UNCHANGED <<ques, flow_on, replies, pc, step, reading>>
      /\ notified' = (notified \/ parked) /\ parked' = FALSE
      /\ releasing' = releasing \/ ~ChainLocked
    BY DEF OwedWake, FlowReleased, BurstWake, wake_readers, consumerVars
<1>2. at' = at BY <1>1, AtKept
<1>3. (pc = "park" /\ Owes(ques[at], flow_on) => releasing)'
    BY <1>1, <1>2 DEF WakeInv, ChainLocked
<1>4. ASSUME ~notified' PROVE ~(pc = "idle" \/ (ChainLocked /\ step > 0))
  <2>1. ~notified /\ ~parked BY <1>1, <1>4
  <2> QED BY <2>1 DEF WakeInv
<1>5. ASSUME ~notified', NEW i \in DOMAIN ques, Passed(i) PROVE FALSE
  <2>1. ChainLocked /\ Offset(i) < step BY <1>4, <1>5 DEF Passed
  <2>2. Offset(i) \in Nat /\ step \in Nat BY WalkFacts
  <2> QED BY <1>4, <1>5, <2>1, <2>2
<1>6. \A i : Passed(i)' => Passed(i) BY <1>1 DEF Passed, ChainLocked, Offset
<1>7. ChainLocked' <=> ChainLocked BY <1>1 DEF ChainLocked
<1> QED BY <1>1, <1>3, <1>4, <1>5, <1>6, <1>7 DEF WakeInv

\* The consumer's own steps.
LEMMA WakePoll ==
    ASSUME IInv, DrainInv, WakeInv,
           Poll \/ Resume \/ ResumeOther \/ close_replies
    PROVE  WakeInv'
<1>1. CASE PollReply \/ PollEvent \/ PollEnded \/ Resume \/ ResumeOther \/ close_replies
  <2>1. pc' \in {"poll", "gone"}
      BY <1>1 DEF PollReply, PollEvent, PollEnded, Resume, ResumeOther, close_replies, consumerVars
  <2> QED BY <2>1 DEF WakeInv, Passed, ChainLocked
<1>2. CASE PollBegin
  <2>1. pc' = "walk" /\ step' = step /\ reading' = reading /\ ques' = ques /\ pc = "poll"
      BY <1>2 DEF PollBegin
  <2>2. step' = 0 BY <2>1 DEF DrainInv
  <2>3. \A i \in DOMAIN ques : Offset(i)' = Offset(i) BY <2>1 DEF Offset
  <2>4. \A i \in DOMAIN ques' : ~Passed(i)'
    <3>1. \A i \in DOMAIN ques : Offset(i) \in Nat BY WalkFacts
    <3> QED BY <2>1, <2>2, <2>3, <3>1 DEF Passed
  <2> QED BY <2>1, <2>2, <2>4 DEF WakeInv
<1>3. CASE DropCancelled
  <2>1. /\ pc \in {"walk", "drain"} /\ pc' = "drain"
        /\ UNCHANGED <<reading, step, flow_on, replies, bursts, wakesOwed, releasing, parked, notified>>
      BY <1>3 DEF DropCancelled, Takes, wakeVars
  <2>2. /\ at \in DOMAIN ques /\ DOMAIN ques' = DOMAIN ques /\ Len(ques') = Len(ques)
        /\ Advances(ques[at], ques'[at])
        /\ \A j \in DOMAIN ques : j # at => ques'[j] = ques[j]
      BY <1>3, TakeEffect
  <2>3. \A j \in DOMAIN ques : ques[j].in_burst => ques'[j].in_burst
      BY <2>2 DEF Advances
  <2>4. WakeOwed => WakeOwed' BY <2>1, <2>2, <2>3, WakeKept
  <2>5. \A i \in DOMAIN ques : Passed(i)' => Passed(i) /\ i # at
    <3> SUFFICES ASSUME NEW i \in DOMAIN ques, Passed(i)' PROVE Passed(i) /\ i # at OBVIOUS
    <3>1. Offset(i)' = Offset(i) BY <2>1, <2>2 DEF Offset
    <3>2. Offset(i) < step BY <2>1, <3>1 DEF Passed
    <3>3. i # at
      <4>1. Offset(at) = step /\ step \in Nat BY WalkFacts
      <4> QED BY <3>2, <4>1
    <3> QED BY <2>1, <3>2, <3>3 DEF Passed, ChainLocked
  <2> QED BY <2>1, <2>2, <2>4, <2>5 DEF WakeInv, ChainLocked
<1>4. CASE PollNothing
  <2>1. /\ pc \in {"walk", "drain"} /\ pc' = "park" /\ ~Takes /\ Ended(ques[at]) = {}
        /\ UNCHANGED <<ques, reading, step, flow_on, replies, bursts, wakesOwed, releasing, parked, notified>>
      BY <1>4 DEF PollNothing, wakeVars
  <2>2. ~Owes(ques[at], flow_on) BY <2>1 DEF Owes, Takes
  <2>3. at' = at BY <2>1, AtKept
  <2>4. \A i \in DOMAIN ques : Passed(i)' => Passed(i) BY <2>1 DEF Passed, ChainLocked, Offset
  <2>5. WakeOwed => WakeOwed' BY <2>1 DEF WakeOwed
  <2> QED BY <2>1, <2>2, <2>3, <2>4, <2>5 DEF WakeInv, ChainLocked
<1>5. ASSUME pc = "park", NEW i \in DOMAIN ques, ~notified, Owes(ques[i], flow_on), Offset(i) <= step
      PROVE  WakeOwed
  <2>1. Offset(i) \in Int /\ step \in Int BY WalkFacts
  <2>2. CASE Offset(i) < step BY <1>5, <2>2 DEF WakeInv, Passed, ChainLocked
  <2>3. CASE Offset(i) = step
    <3>1. i = at BY <2>3, WalkFacts
    <3> QED BY <1>5, <3>1 DEF WakeInv, WakeOwed
  <2> QED BY <1>5, <2>1, <2>2, <2>3
<1>6. CASE ParkNext
  <2>1. /\ pc = "park" /\ pc' = "walk" /\ step' = step + 1 /\ parked'
        /\ UNCHANGED <<ques, reading, flow_on, replies, bursts, wakesOwed, releasing, notified>>
      BY <1>6 DEF ParkNext
  <2>2. \A i \in DOMAIN ques : Passed(i)' => Offset(i) <= step
    <3> SUFFICES ASSUME NEW i \in DOMAIN ques, Passed(i)' PROVE Offset(i) <= step OBVIOUS
    <3>1. Offset(i)' = Offset(i) BY <2>1 DEF Offset
    <3>2. Offset(i) < step + 1 BY <2>1, <3>1 DEF Passed
    <3>3. Offset(i) \in Int /\ step \in Int BY WalkFacts
    <3> QED BY <3>2, <3>3
  <2>3. WakeOwed => WakeOwed' BY <2>1 DEF WakeOwed
  <2> QED BY <1>5, <2>1, <2>2, <2>3 DEF WakeInv
<1>7. CASE ParkLast
  <2>1. /\ pc = "park" /\ parked' /\ step + 1 = Len(ques)
        /\ UNCHANGED <<ques, flow_on, bursts, wakesOwed, releasing, notified>>
        /\ pc' = "poll" \/ (pc' = "idle" /\ replies' = <<>>)
      BY <1>7 DEF ParkLast
  <2>2. CASE pc' = "poll" BY <2>2 DEF WakeInv, Passed, ChainLocked
  <2>3. CASE pc' = "idle" /\ replies' = <<>>
    <3>1. \A i \in DOMAIN ques : Offset(i) <= step
      <4>1. \A i \in DOMAIN ques : Offset(i) \in 0 .. (Len(ques) - 1) BY WalkFacts
      <4>2. step \in Nat BY WalkFacts
      <4> QED BY <2>1, <4>1, <4>2
    <3>2. WakeOwed => WakeOwed' BY <2>1 DEF WakeOwed
    <3> QED BY <1>5, <2>1, <2>3, <3>1, <3>2 DEF WakeInv
  <2> QED BY <2>1, <2>2, <2>3
<1> QED BY <1>1, <1>2, <1>3, <1>4, <1>6, <1>7 DEF Poll

\* Every step keeps what is deliverable owed a wake.
LEMMA WakeNext == ASSUME IInv, DrainInv, WakeInv, [Next]_vars PROVE WakeInv'
<1>1. CASE Dispatch
  <2>1. \/ Attach \/ flow_ctrl_on \/ flow_ctrl_off \/ post_reply
        \/ \E m \in DOMAIN mons : CloseProducer(m) \/ CloseReader(m)
        \/ OwedWake \/ FlowReleased
      BY <1>1 DEF Dispatch
  <2> QED BY <2>1, WakeDispatch, WakeGiven
<1>2. ASSUME NEW p \in Producers, Produce(p) PROVE WakeInv'
  <2>1. BurstWake(p) \/ wake_chain(p) \/ \E m \in DOMAIN mons : Post(p, m)
      BY <1>2 DEF Produce
  <2> QED BY <2>1, WakeGiven, WakeProduce
<1>3. CASE Poll \/ Resume \/ ResumeOther \/ close_replies BY <1>3, WakePoll
<1>4. CASE UNCHANGED vars
  <2>1. UNCHANGED <<ques, flow_on, parked, reading, replies, pc, step, notified, bursts, wakesOwed, releasing>>
      BY <1>4 DEF vars
  <2> QED BY <2>1 DEF WakeInv, WakeOwed, Passed, Offset, ChainLocked, at
<1> QED BY <1>1, <1>2, <1>3, <1>4 DEF Next

\* wake_readers, "SINGLE OWNER of reader wakeup" (event_queue.rs).  For every
\* number of producers, queues and monitors: the consumer never sleeps on
\* something it could deliver, a reply, an entry EVENTS_OFF does not hold or an
\* end, unless a burst, a close, a reply's post or EVENTS_ON still owes its wake
\* and the consumer is parked to receive it.
THEOREM NoWakeLost == Spec => []NoLostWake
<1>1. Init => DrainInv /\ WakeInv
  <2> SUFFICES ASSUME Init PROVE DrainInv /\ WakeInv OBVIOUS
  <2>1. DOMAIN ques = {1} /\ ques[1] = NewQue /\ step = 0 /\ pc = "poll" BY DEF Init
  <2> QED BY <2>1, NewQueFields DEF DrainInv, WakeInv, Passed, ChainLocked
<1>2. IInv /\ DrainInv /\ WakeInv /\ [Next]_vars => DrainInv' /\ WakeInv' BY DrainNext, WakeNext
<1>3. WakeInv => NoLostWake
  <2> SUFFICES ASSUME WakeInv, pc = "idle", ~notified,
                      replies # <<>> \/ \E i \in DOMAIN ques : Deliverable(ques[i])
               PROVE  parked /\ WakeOwed
      BY DEF NoLostWake
  <2>1. parked BY DEF WakeInv
  <2>2. \A i \in DOMAIN ques : Deliverable(ques[i]) => Owes(ques[i], flow_on)
      BY DEF Deliverable, Owes
  <2>3. \A i \in DOMAIN ques : Passed(i) BY DEF Passed
  <2> QED BY <2>1, <2>2, <2>3 DEF WakeInv
<1> QED BY <1>1, <1>2, <1>3, Invariance, PTL DEF Spec

-----------------------------------------------------------------------------
(* What reaches the client: a monitor's values in order and never an old    *)
(* one last, no event class lost, the end of a stream once and after its    *)
(* values, and a reply after the updates posted before it.                  *)
(*                                                                          *)
(* The invariant is stated per monitor and its queue (MonOK), so that each  *)
(* operation of a queue is treated twice: for the monitor it is about, and  *)
(* for the others, whose entries it leaves alone.                           *)

-----------------------------------------------------------------------------
(* One monitor and the queue it is on.                                     *)

\* What the client gets from an entry: a by-reference entry's field is read
\* when the entry is taken.
Reach(mon, log) == IF is_ref(log) THEN mon.posted ELSE log.value

\* Every log of this monitor is by reference, or none is.
RefHeld(q, mon) == mon.data = "Ref" \/ (q.subs[mon.id.slot].kind = "Ref" /\ mon.data = "Val")

\* A live monitor's slot says which of its ends are gone and whether its end
\* was reported; a slot is given back only once the reader is gone.
HandleOK(q, mon) ==
    LET sub == q.subs[mon.id.slot]
    IN  IF Live(q, mon.id)
        THEN /\ mon.reader <=> ~reader_gone(sub)
             /\ mon.sink <=> ~producer_gone(sub)
             /\ mon.ended = IF sub.end_reported THEN 1 ELSE 0
             /\ sub.end_reported => sub.npend = 0
        ELSE ~mon.reader /\ mon.ended \in {0, 1} /\ (mon.ended = 1 => ~mon.sink)

\* The monitor's entries are newer than what it saw, in order, and the newest
\* of them is its newest post.
StreamOK(q, mon) ==
    LET E == EntriesOf(q, mon.id)
        sub == q.subs[mon.id.slot]
    IN  /\ mon.seen <= mon.posted
        /\ \A p \in E : /\ q.ring[p].log.value <= mon.posted
                        /\ is_ref(q.ring[p].log) <=> RefHeld(q, mon)
                        /\ Reach(mon, q.ring[p].log) > mon.seen
        /\ \A p, s \in E : Age(q, p) < Age(q, s) =>
                                Reach(mon, q.ring[p].log) < Reach(mon, q.ring[s].log)
        /\ Live(q, mon.id) =>
                /\ RefHeld(q, mon) => sub.npend <= 1
                /\ sub.npend > 0 => Reach(mon, q.ring[sub.last].log) = mon.posted
                /\ sub.npend = 0 /\ mon.reader => mon.seen = mon.posted

\* The classes owed are those its entries carry.
OwedOK(q, mon) ==
    mon.reader => \A c : c \in mon.owed <=> \E p \in EntriesOf(q, mon.id) : c \in q.ring[p].log.mask

MonOK(q, mon) == HandleOK(q, mon) /\ StreamOK(q, mon) /\ OwedOK(q, mon)

\* A monitor's record, field by field.
LEMMA MonType ==
    ASSUME NEW mon \in Monitor
    PROVE  /\ mon.id \in AttachId /\ mon.id.slot \in Slots /\ mon.data \in LogData
           /\ mon.sink \in BOOLEAN /\ mon.reader \in BOOLEAN
           /\ mon.posted \in Nat /\ mon.seen \in Nat /\ mon.ended \in Nat
           /\ mon.owed \in SUBSET Classes
BY DEF Monitor, AttachId

\* An operation that leaves a monitor's entries, their order and its slot alone.
LEMMA MonFrame ==
    ASSUME NEW q, QueOK(q), NEW r, NEW mon \in Monitor, MonOK(q, mon),
           EntriesOf(r, mon.id) = EntriesOf(q, mon.id),
           \A p \in EntriesOf(q, mon.id) : r.ring[p].log = q.ring[p].log,
           \A p, s \in EntriesOf(q, mon.id) : Age(r, p) < Age(r, s) => Age(q, p) < Age(q, s),
           Live(r, mon.id) <=> Live(q, mon.id),
           Live(q, mon.id) => r.subs[mon.id.slot] = q.subs[mon.id.slot]
    PROVE  MonOK(r, mon)
<1> DEFINE E == EntriesOf(q, mon.id)
<1>1. mon.id \in AttachId BY MonType
<1>2. \A p \in E : Live(q, mon.id) BY EntryFacts
<1>3. Live(q, mon.id) => (RefHeld(r, mon) <=> RefHeld(q, mon)) BY DEF RefHeld
<1>4. Live(q, mon.id) /\ q.subs[mon.id.slot].npend > 0 => q.subs[mon.id.slot].last \in E
    BY <1>1, NpendFacts
<1>5. HandleOK(r, mon) BY DEF MonOK, HandleOK
<1>6. OwedOK(r, mon) BY DEF MonOK, OwedOK
<1>7. StreamOK(r, mon)
  <2>1. \A p \in E : /\ r.ring[p].log.value <= mon.posted
                     /\ is_ref(r.ring[p].log) <=> RefHeld(r, mon)
                     /\ Reach(mon, r.ring[p].log) > mon.seen
      BY <1>2, <1>3 DEF MonOK, StreamOK
  <2>2. \A p, s \in E : Age(r, p) < Age(r, s) =>
                            Reach(mon, r.ring[p].log) < Reach(mon, r.ring[s].log)
      BY DEF MonOK, StreamOK
  <2>3. Live(r, mon.id) =>
            /\ RefHeld(r, mon) => r.subs[mon.id.slot].npend <= 1
            /\ r.subs[mon.id.slot].npend > 0 => Reach(mon, r.ring[r.subs[mon.id.slot].last].log) = mon.posted
            /\ r.subs[mon.id.slot].npend = 0 /\ mon.reader => mon.seen = mon.posted
      BY <1>3, <1>4 DEF MonOK, StreamOK
  <2> QED BY <2>1, <2>2, <2>3 DEF MonOK, StreamOK
<1> QED BY <1>5, <1>6, <1>7 DEF MonOK

-----------------------------------------------------------------------------
(* The monitors an operation is not about.                                 *)

\* Another slot is filled, marked or given back.
LEMMA ReslotOthers ==
    ASSUME NEW q, QueOK(q), NEW r, NEW s \in Slots, NEW sub, Reslots(q, r, s, sub),
           NEW mon \in Monitor, MonOK(q, mon),
           mon.id.slot = s => ~Live(q, mon.id) /\ (sub = NoSub \/ sub.id # mon.id)
    PROVE  MonOK(r, mon)
<1>1. q \in QueInner /\ mon.id.slot \in Slots BY MonType DEF QueOK
<1>2. r.ring = q.ring /\ r.getix = q.getix /\ r.subs = [q.subs EXCEPT ![s] = sub] BY DEF Reslots
<1>3. EntriesOf(r, mon.id) = EntriesOf(q, mon.id) BY <1>2 DEF EntriesOf, Occupied
<1>4. \A p : Age(r, p) = Age(q, p) BY <1>2 DEF Age
<1>5. r.subs[s] = sub /\ (mon.id.slot # s => r.subs[mon.id.slot] = q.subs[mon.id.slot])
    BY <1>1, <1>2 DEF QueInner
<1>6. Live(r, mon.id) <=> Live(q, mon.id) BY <1>5 DEF Live
<1>7. Live(q, mon.id) => r.subs[mon.id.slot] = q.subs[mon.id.slot] BY <1>5
<1> QED BY <1>2, <1>3, <1>4, <1>6, <1>7, MonFrame

\* Another monitor's slot changes, that monitor being live.
LEMMA OtherLive ==
    ASSUME NEW q, NEW id, NEW x, Live(q, id), x # id, x.slot = id.slot
    PROVE  ~Live(q, x)
BY DEF Live

\* A post to another monitor.
LEMMA PostOthers ==
    ASSUME NEW q, QueOK(q), NEW fl \in BOOLEAN, NEW id \in AttachId, NEW log \in PostLog,
           PostOutcome(q, fl, id, log) # "Closed", NEW mon \in Monitor, MonOK(q, mon), mon.id # id
    PROVE  MonOK(post(q, fl, id, log), mon)
<1> DEFINE r == post(q, fl, id, log)
           sub == q.subs[id.slot]
<1>1. q \in QueInner /\ mon.id.slot \in Slots /\ Live(q, id) /\ id.slot \in Slots /\ sub \in SubQ
    BY MonType, OutcomeFacts DEF QueOK, AttachId
<1>2. ForKind(log, sub.kind) \in PostLog BY ForKindType
<1>3. CASE PostOutcome(q, fl, id, log) = "Appended"
  <2>1. Appends(q, r, id, log) BY <1>3, PostFields
  <2> HIDE DEF r
  <2>2. /\ EntriesOf(r, mon.id) = EntriesOf(q, mon.id)
        /\ \A p \in Occupied(q) : r.ring[p] = q.ring[p]
        /\ \A p : Age(r, p) = Age(q, p)
      BY <1>2, <2>1, AppendEntries
  <2>3. r.subs = [q.subs EXCEPT ![id.slot] = [sub EXCEPT !.npend = @ + 1, !.last = TailPlace(q)]]
      BY <2>1 DEF Appends
  <2>4. r.subs[id.slot].id = id /\ r.subs[id.slot] # NoSub
    <3>1. r.subs[id.slot] = [sub EXCEPT !.npend = @ + 1, !.last = TailPlace(q)]
        BY <1>1, <2>3 DEF QueInner
    <3>2. sub.id = id BY <1>1 DEF Live
    <3>3. sub.npend + 1 \in Nat /\ TailPlace(q) \in Places
      <4>1. q.used < size BY DEF QueOK, RingOK, NeverFull
      <4> QED BY <1>1, <4>1, TailFacts DEF SubQ
    <3>4. r.subs[id.slot] \in SubQ BY <1>1, <3>1, <3>3 DEF SubQ
    <3> QED BY <1>1, <3>1, <3>2, <3>4, SentinelAssumption DEF SubQ
  <2>5. mon.id.slot # id.slot => r.subs[mon.id.slot] = q.subs[mon.id.slot]
      BY <1>1, <2>3 DEF QueInner
  <2>6. mon.id.slot = id.slot => ~Live(q, mon.id) /\ ~Live(r, mon.id)
      BY <1>1, <2>4 DEF Live
  <2>7. Live(r, mon.id) <=> Live(q, mon.id) BY <2>5, <2>6 DEF Live
  <2>8. \A p \in EntriesOf(q, mon.id) : r.ring[p].log = q.ring[p].log BY <2>2 DEF EntriesOf
  <2>9. MonOK(r, mon) BY <2>2, <2>5, <2>6, <2>7, <2>8, MonFrame
  <2> QED BY <2>9 DEF r
<1>4. CASE PostOutcome(q, fl, id, log) # "Appended"
  <2>1. Relogs(q, r, sub.last, Joined(q, fl, id, log)) BY <1>4, PostFields
  <2>2. sub.npend > 0 BY <1>4, OutcomeFacts
  <2>3. /\ sub.last \in Occupied(q) /\ q.ring[sub.last].id = id /\ q.ring[sub.last].log \in PostLog
      BY <1>1, <2>2, LastFacts
  <2>4. Joined(q, fl, id, log) \in PostLog BY <1>2, <2>3 DEF Joined, PostLog
  <2> HIDE DEF r
  <2>5. /\ EntriesOf(r, mon.id) = EntriesOf(q, mon.id)
        /\ \A p \in Occupied(q) : p # sub.last => r.ring[p] = q.ring[p]
        /\ \A p : Age(r, p) = Age(q, p)
      BY <2>1, <2>3, <2>4, RelogEntries
  <2>6. r.subs = q.subs BY <2>1 DEF Relogs
  <2>7. Live(r, mon.id) <=> Live(q, mon.id) BY <2>6 DEF Live
  <2>8. \A p \in EntriesOf(q, mon.id) : r.ring[p].log = q.ring[p].log
      BY <2>3, <2>5 DEF EntriesOf
  <2>9. MonOK(r, mon) BY <2>5, <2>6, <2>7, <2>8, MonFrame
  <2> QED BY <2>9 DEF r
<1> QED BY <1>3, <1>4

\* The head of another monitor is taken.
LEMMA AdvanceOthers ==
    ASSUME NEW q, QueOK(q), q.used > 0, NEW r, Advances(q, r), NEW mon \in Monitor, MonOK(q, mon),
           mon.id # HeadEntry(q).id
    PROVE  MonOK(r, mon)
<1> DEFINE id == HeadEntry(q).id
           sub == q.subs[id.slot]
<1>1. /\ q \in QueInner /\ id \in AttachId /\ Live(q, id) /\ q.getix \in EntriesOf(q, id)
      /\ mon.id.slot \in Slots /\ id.slot \in Slots
    BY HeadFacts, MonType DEF AttachId
<1>2. sub \in SubQ /\ sub.id = id BY <1>1, SubFacts DEF Live
<1>3. q.getix \notin EntriesOf(q, mon.id) BY <1>1 DEF EntriesOf
<1>4. /\ EntriesOf(r, mon.id) = EntriesOf(q, mon.id)
      /\ \A p \in EntriesOf(q, mon.id) : /\ r.ring[p] = q.ring[p] /\ Age(r, p) = Age(q, p) - 1
                                         /\ Age(q, p) \in Nat
  <2>1. EntriesOf(r, mon.id) = EntriesOf(q, mon.id) \ {q.getix} BY AdvanceEntries
  <2>2. EntriesOf(q, mon.id) \subseteq Occupied(q) BY DEF EntriesOf
  <2>3. \A p \in Occupied(q) : p # q.getix => /\ r.ring[p] = q.ring[p] /\ Age(r, p) = Age(q, p) - 1
                                             /\ Age(q, p) \in Nat
      BY AdvanceEntries
  <2> QED BY <1>3, <2>1, <2>2, <2>3
<1>5. r.subs = [q.subs EXCEPT ![id.slot] =
                    IF sub.npend - 1 = 0 /\ reader_gone(sub) THEN NoSub
                    ELSE [sub EXCEPT !.npend = sub.npend - 1]]
    BY DEF Advances
<1>6. mon.id.slot # id.slot => r.subs[mon.id.slot] = q.subs[mon.id.slot]
    BY <1>1, <1>5 DEF QueInner
<1>7. r.subs[id.slot] = NoSub \/ r.subs[id.slot].id = id
  <2>1. r.subs[id.slot] = IF sub.npend - 1 = 0 /\ reader_gone(sub) THEN NoSub
                          ELSE [sub EXCEPT !.npend = sub.npend - 1]
      BY <1>1, <1>5 DEF QueInner
  <2>2. [sub EXCEPT !.npend = sub.npend - 1].id = id BY <1>2 DEF SubQ
  <2> QED BY <2>1, <2>2
<1>8. mon.id.slot = id.slot => ~Live(q, mon.id) /\ ~Live(r, mon.id)
    BY <1>1, <1>7 DEF Live
<1>9. Live(r, mon.id) <=> Live(q, mon.id) BY <1>6, <1>8 DEF Live
<1>10. \A p, s \in EntriesOf(q, mon.id) : Age(r, p) < Age(r, s) => Age(q, p) < Age(q, s)
    BY <1>4
<1> HIDE DEF id, sub
<1> QED BY <1>4, <1>6, <1>8, <1>9, <1>10, MonFrame

-----------------------------------------------------------------------------
(* The monitor an operation is about.                                      *)

\* n is the monitor mon after an operation that posts and delivers nothing.
Untouched(mon, n) ==
    /\ n.id = mon.id /\ n.data = mon.data /\ n.posted = mon.posted
    /\ n.seen = mon.seen /\ n.owed = mon.owed

\* A live monitor's slot is marked, its entries are not touched.
LEMMA MarkOwn ==
    ASSUME NEW q, QueOK(q), NEW mon \in Monitor, MonOK(q, mon), Live(q, mon.id),
           NEW r, NEW sub, Reslots(q, r, mon.id.slot, sub), sub # NoSub,
           sub.id = mon.id, sub.kind = q.subs[mon.id.slot].kind,
           sub.npend = q.subs[mon.id.slot].npend, sub.last = q.subs[mon.id.slot].last,
           NEW n, Untouched(mon, n), n.reader => mon.reader
    PROVE  r.subs[mon.id.slot] = sub /\ Live(r, n.id) /\ StreamOK(r, n) /\ OwedOK(r, n)
<1>1. q \in QueInner /\ mon.id.slot \in Slots BY MonType DEF QueOK
<1>2. r.ring = q.ring /\ r.getix = q.getix /\ r.subs = [q.subs EXCEPT ![mon.id.slot] = sub]
    BY DEF Reslots
<1>3. r.subs[mon.id.slot] = sub BY <1>1, <1>2 DEF QueInner
<1>4. n.id = mon.id BY DEF Untouched
<1>5. Live(r, n.id) BY <1>3, <1>4 DEF Live
<1>6. EntriesOf(r, n.id) = EntriesOf(q, mon.id) BY <1>2, <1>4 DEF EntriesOf, Occupied
<1>7. \A p : Age(r, p) = Age(q, p) BY <1>2 DEF Age
<1>8. RefHeld(r, n) <=> RefHeld(q, mon) BY <1>3, <1>4 DEF RefHeld, Untouched
<1>9. \A log : Reach(n, log) = Reach(mon, log) BY DEF Reach, Untouched
<1>10. OwedOK(r, n) BY <1>2, <1>6 DEF MonOK, OwedOK, Untouched
<1>11. StreamOK(r, n)
  <2>1. n.seen <= n.posted BY DEF MonOK, StreamOK, Untouched
  <2>2. \A p \in EntriesOf(r, n.id) : /\ r.ring[p].log.value <= n.posted
                                      /\ is_ref(r.ring[p].log) <=> RefHeld(r, n)
                                      /\ Reach(n, r.ring[p].log) > n.seen
      BY <1>2, <1>6, <1>8, <1>9 DEF MonOK, StreamOK, Untouched
  <2>3. \A p, s \in EntriesOf(r, n.id) : Age(r, p) < Age(r, s) =>
                            Reach(n, r.ring[p].log) < Reach(n, r.ring[s].log)
      BY <1>2, <1>6, <1>7, <1>9 DEF MonOK, StreamOK
  <2>4. /\ RefHeld(r, n) => sub.npend <= 1
        /\ sub.npend > 0 => Reach(n, r.ring[sub.last].log) = n.posted
        /\ sub.npend = 0 /\ n.reader => n.seen = n.posted
      BY <1>2, <1>8, <1>9 DEF MonOK, StreamOK, Untouched
  <2> QED BY <1>3, <1>4, <2>1, <2>2, <2>3, <2>4 DEF StreamOK
<1> QED BY <1>3, <1>5, <1>10, <1>11

\* close_producer of the monitor's own slot.
LEMMA CloseProducerOwn ==
    ASSUME NEW q, QueOK(q), NEW mon \in Monitor, MonOK(q, mon), Live(q, mon.id),
           NEW n, Untouched(mon, n), n.reader = mon.reader, n.ended = mon.ended, n.sink = FALSE
    PROVE  MonOK(close_producer(q, mon.id), n)
<1> DEFINE r == close_producer(q, mon.id)
           sub == q.subs[mon.id.slot]
           new == [sub EXCEPT !.gone = sub.gone \cup {"producer"}]
<1>1. q \in QueInner /\ mon.id \in AttachId /\ sub \in SubQ /\ sub.id = mon.id
    BY MonType, SubFacts DEF QueOK, AttachId, Live
<1>2. Reslots(q, r, mon.id.slot, new) BY <1>1, CloseProducerFields
<1>3. /\ new \in SubQ /\ new.id = sub.id /\ new.kind = sub.kind /\ new.npend = sub.npend
      /\ new.last = sub.last /\ new.end_reported = sub.end_reported
      /\ (reader_gone(new) <=> reader_gone(sub)) /\ producer_gone(new)
    BY <1>1 DEF SubQ, Gone, reader_gone, producer_gone
<1>4. new # NoSub BY <1>3, SentinelAssumption
<1> HIDE DEF r, new
<1>5. r.subs[mon.id.slot] = new /\ Live(r, n.id) /\ StreamOK(r, n) /\ OwedOK(r, n)
    BY <1>1, <1>2, <1>3, <1>4, MarkOwn
<1>6. HandleOK(r, n) BY <1>3, <1>5 DEF MonOK, HandleOK, Untouched
<1> QED BY <1>5, <1>6 DEF MonOK, r

\* close_reader of the monitor's own slot.
LEMMA CloseReaderOwn ==
    ASSUME NEW q, QueOK(q), NEW mon \in Monitor, MonOK(q, mon), Live(q, mon.id),
           NEW n, Untouched(mon, n), n.reader = FALSE, n.ended = mon.ended, n.sink = mon.sink
    PROVE  MonOK(close_reader(q, mon.id), n)
<1> DEFINE r == close_reader(q, mon.id)
           sub == q.subs[mon.id.slot]
           new == [sub EXCEPT !.gone = sub.gone \cup {"reader"}]
<1>1. q \in QueInner /\ mon.id \in AttachId /\ sub \in SubQ /\ sub.id = mon.id /\ n.id = mon.id
    BY MonType, SubFacts DEF QueOK, AttachId, Live, Untouched
<1>2. Reslots(q, r, mon.id.slot, IF sub.npend = 0 THEN NoSub ELSE new) BY <1>1, CloseReaderFields
<1>3. /\ sub.npend = 0 <=> EntriesOf(q, mon.id) = {}
      /\ sub.end_reported => producer_gone(sub)
    BY <1>1, NpendFacts
<1>4. CASE sub.npend = 0
  <2> HIDE DEF r
  <2>1. Reslots(q, r, mon.id.slot, NoSub) BY <1>2, <1>4
  <2>2. r.subs[mon.id.slot] = NoSub /\ r.ring = q.ring
      BY <1>1, <2>1 DEF Reslots, QueInner, AttachId
  <2>3. ~Live(r, n.id) BY <1>1, <2>2 DEF Live
  <2>4. EntriesOf(r, n.id) = {} BY <1>1, <1>3, <1>4, <2>2 DEF EntriesOf, Occupied
  <2>5. HandleOK(r, n) BY <1>1, <1>3, <2>3 DEF MonOK, HandleOK
  <2>6. StreamOK(r, n) BY <2>3, <2>4 DEF MonOK, StreamOK, Untouched
  <2>7. OwedOK(r, n) BY DEF OwedOK
  <2> QED BY <2>5, <2>6, <2>7 DEF MonOK, r
<1>5. CASE sub.npend # 0
  <2>1. Reslots(q, r, mon.id.slot, new) BY <1>2, <1>5
  <2>2. /\ new \in SubQ /\ new.id = sub.id /\ new.kind = sub.kind /\ new.npend = sub.npend
        /\ new.last = sub.last /\ new.end_reported = sub.end_reported
        /\ reader_gone(new) /\ (producer_gone(new) <=> producer_gone(sub))
      BY <1>1 DEF SubQ, Gone, reader_gone, producer_gone
  <2>3. new # NoSub BY <2>2, SentinelAssumption
  <2> HIDE DEF r, new
  <2>4. r.subs[mon.id.slot] = new /\ Live(r, n.id) /\ StreamOK(r, n) /\ OwedOK(r, n)
      BY <1>1, <2>1, <2>2, <2>3, MarkOwn
  <2>5. HandleOK(r, n) BY <1>1, <2>2, <2>4 DEF MonOK, HandleOK
  <2> QED BY <2>4, <2>5 DEF MonOK, r
<1> QED BY <1>4, <1>5

\* take_ended of the monitor's own slot.
LEMMA TakeEndedOwn ==
    ASSUME NEW q, QueOK(q), NEW mon \in Monitor, MonOK(q, mon), Live(q, mon.id), mon.id.slot \in Ended(q),
           NEW n, Untouched(mon, n), n.reader = mon.reader, n.ended = mon.ended + 1, n.sink = mon.sink
    PROVE  MonOK(take_ended(q, mon.id.slot), n)
<1> DEFINE r == take_ended(q, mon.id.slot)
           sub == q.subs[mon.id.slot]
           new == [sub EXCEPT !.end_reported = TRUE]
<1>1. q \in QueInner /\ mon.id \in AttachId /\ sub \in SubQ /\ sub.id = mon.id /\ n.id = mon.id
    BY MonType, SubFacts DEF QueOK, AttachId, Live, Untouched
<1>2. Reslots(q, r, mon.id.slot, new) BY <1>1, TakeEndedFields
<1>3. /\ new \in SubQ /\ new.id = sub.id /\ new.kind = sub.kind /\ new.npend = sub.npend
      /\ new.last = sub.last /\ new.end_reported = TRUE
      /\ (reader_gone(new) <=> reader_gone(sub)) /\ (producer_gone(new) <=> producer_gone(sub))
    BY <1>1 DEF SubQ, Gone, reader_gone, producer_gone
<1>4. new # NoSub BY <1>3, SentinelAssumption
<1>5. ~sub.end_reported /\ sub.npend = 0 BY DEF Ended, Unreported
<1> HIDE DEF r, new
<1>6. r.subs[mon.id.slot] = new /\ Live(r, n.id) /\ StreamOK(r, n) /\ OwedOK(r, n)
    BY <1>1, <1>2, <1>3, <1>4, MarkOwn
<1>7. HandleOK(r, n) BY <1>1, <1>3, <1>5, <1>6 DEF MonOK, HandleOK
<1> QED BY <1>6, <1>7 DEF MonOK, r

\* n is the monitor mon after a post of the classes mask.
Posted(mon, mask, n) ==
    /\ n.id = mon.id /\ n.data = mon.data /\ n.sink = mon.sink /\ n.reader = mon.reader
    /\ n.posted = mon.posted + 1 /\ n.seen = mon.seen /\ n.owed = mon.owed \cup mask
    /\ n.ended = mon.ended

\* What a post leaves is MonOK when the monitor's entries are the old ones, the
\* newest with the newest value, or none by reference and one more.
LEMMA PostOwn ==
    ASSUME NEW q, QueOK(q), NEW mon \in Monitor, MonOK(q, mon), NEW fl \in BOOLEAN,
           NEW mask \in SUBSET Classes, NEW log,
           log = [data |-> mon.data, value |-> mon.posted + 1, mask |-> mask],
           PostOutcome(q, fl, mon.id, log) # "Closed", NEW n, Posted(mon, mask, n)
    PROVE  MonOK(post(q, fl, mon.id, log), n)
<1> DEFINE r == post(q, fl, mon.id, log)
           id == mon.id
           sub == q.subs[id.slot]
           kept == ForKind(log, sub.kind)
           E == EntriesOf(q, id)
<1>1. /\ id \in AttachId /\ mon.posted \in Nat /\ mon.seen \in Nat /\ log \in PostLog
      /\ mon.reader \in BOOLEAN /\ mon.sink \in BOOLEAN
    BY MonType DEF PostLog
<1>2. q \in QueInner /\ Live(q, id) /\ sub.gone = {} /\ sub \in SubQ /\ sub.npend \in Nat
    BY <1>1, OutcomeFacts
<1>3. /\ id.slot \in Slots /\ sub.id = id /\ (sub.npend = 0 <=> E = {})
      /\ sub.npend > 0 => sub.last \in E /\ \A p \in E : Age(q, p) <= Age(q, sub.last)
      /\ sub.npend <= 1 => \A p, s \in E : p = s
      /\ sub.end_reported => producer_gone(sub)
    BY <1>1, <1>2, NpendFacts
<1>4. ~sub.end_reported /\ ~reader_gone(sub) /\ ~producer_gone(sub)
    BY <1>2, <1>3 DEF reader_gone, producer_gone
<1>5. mon.reader /\ mon.sink /\ mon.ended = 0
    BY <1>1, <1>2, <1>4 DEF MonOK, HandleOK
<1>6. kept \in PostLog /\ kept.value = mon.posted + 1 /\ kept.mask = mask /\ (is_ref(kept) <=> RefHeld(q, mon))
  <2>1. kept \in PostLog BY <1>1, ForKindType
  <2>2. log.data = mon.data /\ log.value = mon.posted + 1 /\ log.mask = mask OBVIOUS
  <2>3. CASE sub.kind = "Ref" /\ log.data = "Val"
    <3>1. kept = [log EXCEPT !.data = "Ref"] BY <2>3 DEF ForKind
    <3>2. kept.value = mon.posted + 1 /\ kept.mask = mask /\ kept.data = "Ref" BY <1>1, <2>2, <3>1 DEF PostLog
    <3> QED BY <2>1, <2>2, <2>3, <3>2 DEF is_ref, RefHeld
  <2>4. CASE ~(sub.kind = "Ref" /\ log.data = "Val")
    <3>1. kept = log BY <2>4 DEF ForKind
    <3> QED BY <2>1, <2>2, <2>4, <3>1 DEF is_ref, RefHeld
  <2> QED BY <2>3, <2>4
<1>7. \A p \in E : /\ p \in Occupied(q) /\ q.ring[p].log \in PostLog /\ q.ring[p].log.value \in Nat
                   /\ Age(q, p) \in Nat /\ q.ring[p].log.value <= mon.posted
                   /\ (is_ref(q.ring[p].log) <=> RefHeld(q, mon))
                   /\ Reach(mon, q.ring[p].log) > mon.seen
    BY <1>1, EntryFacts DEF MonOK, StreamOK
<1>8. /\ mon.seen <= mon.posted
      /\ RefHeld(q, mon) => sub.npend <= 1
      /\ \A p, s \in E : Age(q, p) < Age(q, s) =>
                            Reach(mon, q.ring[p].log) < Reach(mon, q.ring[s].log)
    BY <1>2 DEF MonOK, StreamOK
<1>9. \A c : c \in mon.owed <=> \E p \in E : c \in q.ring[p].log.mask
    BY <1>5 DEF MonOK, OwedOK
<1>10. \A x : /\ is_ref(x) => Reach(n, x) = mon.posted + 1
              /\ ~is_ref(x) => Reach(n, x) = x.value /\ Reach(mon, x) = x.value
    BY DEF Reach, Posted
<1>11. CASE PostOutcome(q, fl, id, log) = "Appended"
  <2> DEFINE t == TailPlace(q)
  <2>1. Appends(q, r, id, log) BY <1>1, <1>11, PostFields
  <2>2. \/ sub.npend = 0
        \/ ~(is_ref(kept) /\ is_ref(q.ring[sub.last].log))
      BY <1>1, <1>11, OutcomeFacts
  <2> HIDE DEF r
  <2>3. /\ t \in Places /\ t \notin Occupied(q)
        /\ EntriesOf(r, id) = E \cup {t}
        /\ r.ring[t].log = kept
        /\ \A p \in Occupied(q) : r.ring[p] = q.ring[p] /\ Age(q, p) \in Nat /\ Age(q, p) < Age(q, t)
        /\ \A p : Age(r, p) = Age(q, p)
      BY <1>1, <1>6, <2>1, AppendEntries
  <2>4. r.subs[id.slot] = [sub EXCEPT !.npend = @ + 1, !.last = t]
      BY <1>2, <1>3, <2>1 DEF Appends, QueInner
  <2> DEFINE new == r.subs[id.slot]
  <2>5. /\ new.npend = sub.npend + 1 /\ new.last = t /\ new.id = id /\ new.kind = sub.kind
        /\ new.gone = sub.gone /\ new.end_reported = sub.end_reported
      BY <1>2, <1>3, <2>4 DEF SubQ
  <2>6. new \in SubQ
    <3>1. sub.npend + 1 \in Nat /\ t \in Places BY <1>2, <2>3
    <3> HIDE DEF t
    <3> QED BY <1>2, <2>4, <3>1 DEF SubQ
  <2>7. new # NoSub BY <2>6, SentinelAssumption
  <2> HIDE DEF new
  <2>8. Live(r, id) BY <2>5, <2>7 DEF Live, new
  <2>9. RefHeld(r, n) <=> RefHeld(q, mon) BY <2>5 DEF RefHeld, Posted, new
  <2>10. RefHeld(q, mon) => sub.npend = 0
      BY <1>2, <1>3, <1>6, <1>7, <2>2
  <2>11. HandleOK(r, n)
      BY <1>4, <1>5, <2>5, <2>8 DEF HandleOK, Posted, new, reader_gone, producer_gone
  <2>12. OwedOK(r, n)
    <3>1. \A c : c \in n.owed <=> \E p \in E \cup {t} : c \in r.ring[p].log.mask
        BY <1>6, <1>7, <1>9, <2>3 DEF Posted
    <3> QED BY <2>3, <3>1 DEF OwedOK, Posted
  <2>13. \A p \in E : r.ring[p].log = q.ring[p].log /\ Age(r, p) < Age(r, t) /\ ~RefHeld(q, mon)
      BY <1>3, <1>7, <2>3, <2>10
  <2>14. \A p \in E : Reach(n, r.ring[p].log) = r.ring[p].log.value /\ Reach(mon, q.ring[p].log) = r.ring[p].log.value
      BY <1>7, <1>10, <2>13
  <2>15. Reach(n, r.ring[t].log) = mon.posted + 1 BY <1>6, <1>10, <2>3
  <2>16. \A p \in E \cup {t} : /\ r.ring[p].log.value <= n.posted
                               /\ is_ref(r.ring[p].log) <=> RefHeld(r, n)
                               /\ Reach(n, r.ring[p].log) > n.seen
    <3>1. \A p \in E : /\ r.ring[p].log.value <= n.posted
                       /\ is_ref(r.ring[p].log) <=> RefHeld(r, n)
                       /\ Reach(n, r.ring[p].log) > n.seen
        BY <1>1, <1>7, <2>9, <2>13, <2>14 DEF Posted
    <3>2. /\ r.ring[t].log.value <= n.posted
          /\ is_ref(r.ring[t].log) <=> RefHeld(r, n)
          /\ Reach(n, r.ring[t].log) > n.seen
        BY <1>1, <1>6, <1>8, <2>3, <2>9, <2>15 DEF Posted
    <3> QED BY <3>1, <3>2
  <2>17. ASSUME NEW p \in E \cup {t}, NEW s \in E \cup {t}, Age(r, p) < Age(r, s)
         PROVE  Reach(n, r.ring[p].log) < Reach(n, r.ring[s].log)
    <3>1. CASE p \in E /\ s \in E
      <4>1. Age(q, p) < Age(q, s) BY <2>3, <2>17
      <4>2. Reach(mon, q.ring[p].log) < Reach(mon, q.ring[s].log) BY <1>8, <3>1, <4>1
      <4> QED BY <2>14, <3>1, <4>2
    <3>2. CASE p \in E /\ s = t
      <4>1. q.ring[p].log.value < mon.posted + 1 BY <1>1, <1>7, <3>2
      <4> QED BY <2>13, <2>14, <2>15, <3>2, <4>1
    <3>3. CASE p = t
      <4>1. Age(q, t) = q.used /\ q.used \in Nat BY <1>1, <1>2, <1>6, <2>1, AppendEntries DEF QueInner
      <4>2. ~(Age(r, t) < Age(r, s)) BY <1>7, <2>3, <4>1
      <4> QED BY <2>17, <3>3, <4>2
    <3> QED BY <3>1, <3>2, <3>3
  <2>18. /\ RefHeld(r, n) => new.npend <= 1
         /\ new.npend > 0 => Reach(n, r.ring[new.last].log) = n.posted
         /\ new.npend = 0 /\ n.reader => n.seen = n.posted
      BY <1>2, <2>5, <2>9, <2>10, <2>15 DEF Posted
  <2>19. StreamOK(r, n)
    <3>1. n.seen <= n.posted /\ n.id = id BY <1>1, <1>8 DEF Posted
    <3> QED BY <2>3, <2>16, <2>17, <2>18, <3>1 DEF StreamOK, new
  <2> QED BY <2>11, <2>12, <2>19 DEF MonOK, r
<1>12. CASE PostOutcome(q, fl, id, log) # "Appended"
  <2> DEFINE l == sub.last
             lg == Joined(q, fl, id, log)
  <2>1. Relogs(q, r, l, lg) BY <1>1, <1>12, PostFields
  <2>2. /\ sub.npend > 0
        /\ \/ PostOutcome(q, fl, id, log) = "Replaced" /\ ~(is_ref(kept) /\ is_ref(q.ring[l].log))
           \/ PostOutcome(q, fl, id, log) = "Collapsed" /\ is_ref(kept) /\ is_ref(q.ring[l].log)
      BY <1>1, <1>12, OutcomeFacts
  <2>3. l \in E /\ l \in Occupied(q) /\ q.ring[l].log \in PostLog /\ q.ring[l].log.value <= mon.posted
      BY <1>3, <1>7, <2>2
  <2>4. /\ lg \in PostLog /\ lg.mask = q.ring[l].log.mask \cup mask
        /\ \/ RefHeld(q, mon) /\ is_ref(lg) /\ lg.value = q.ring[l].log.value
           \/ ~RefHeld(q, mon) /\ ~is_ref(lg) /\ lg.value = mon.posted + 1
    <3>1. CASE PostOutcome(q, fl, id, log) = "Replaced" /\ ~(is_ref(kept) /\ is_ref(q.ring[l].log))
      <4>1. lg = [kept EXCEPT !.mask = @ \cup q.ring[l].log.mask] BY <3>1 DEF Joined
      <4>2. /\ lg \in PostLog /\ lg.mask = kept.mask \cup q.ring[l].log.mask
            /\ lg.value = kept.value /\ lg.data = kept.data
          BY <1>6, <2>3, <4>1 DEF PostLog
      <4>3. ~RefHeld(q, mon) BY <1>6, <1>7, <2>3, <3>1
      <4> QED BY <1>6, <4>2, <4>3 DEF is_ref
    <3>2. CASE PostOutcome(q, fl, id, log) = "Collapsed" /\ is_ref(kept) /\ is_ref(q.ring[l].log)
      <4>1. lg = [q.ring[l].log EXCEPT !.mask = @ \cup log.mask] BY <3>2 DEF Joined
      <4>2. /\ lg \in PostLog /\ lg.mask = q.ring[l].log.mask \cup mask
            /\ lg.value = q.ring[l].log.value /\ lg.data = q.ring[l].log.data
          BY <1>1, <2>3, <4>1 DEF PostLog
      <4> QED BY <1>6, <3>2, <4>2 DEF is_ref
    <3> QED BY <2>2, <3>1, <3>2
  <2> HIDE DEF r, lg
  <2>5. /\ EntriesOf(r, id) = E /\ r.ring[l].log = lg
        /\ \A p \in Occupied(q) : p # l => r.ring[p] = q.ring[p]
        /\ \A p : Age(r, p) = Age(q, p)
    <3>1. l \in Occupied(q) /\ lg \in PostLog BY <2>3, <2>4
    <3>2. /\ \A x : EntriesOf(r, x) = EntriesOf(q, x) /\ r.ring[l].log = lg
          /\ \A p \in Occupied(q) : p # l => r.ring[p] = q.ring[p]
          /\ \A p : Age(r, p) = Age(q, p)
        BY <2>1, <3>1, RelogEntries
    <3> QED BY <3>2
  <2>6. r.subs = q.subs BY <2>1 DEF Relogs
  <2>7. Live(r, id) BY <1>2, <2>6 DEF Live
  <2>8. RefHeld(r, n) <=> RefHeld(q, mon) BY <2>6 DEF RefHeld, Posted
  <2>9. HandleOK(r, n) BY <1>4, <1>5, <2>6, <2>7 DEF HandleOK, Posted
  <2>10. OwedOK(r, n)
    <3>1. \A c : c \in n.owed <=> \E p \in E : c \in r.ring[p].log.mask
      <4>1. \A p \in E : p # l => r.ring[p].log = q.ring[p].log BY <1>7, <2>5
      <4>2. \A c : c \in n.owed <=> c \in mask \/ \E p \in E : c \in q.ring[p].log.mask BY <1>9 DEF Posted
      <4>3. \A c : c \in r.ring[l].log.mask <=> c \in q.ring[l].log.mask \/ c \in mask BY <2>4, <2>5
      <4> QED BY <2>3, <4>1, <4>2, <4>3
    <3> QED BY <2>5, <3>1 DEF OwedOK, Posted
  <2>11. Reach(n, r.ring[l].log) = mon.posted + 1 BY <1>10, <2>4, <2>5
  <2>12. \A p \in E : p # l => /\ r.ring[p].log = q.ring[p].log /\ ~RefHeld(q, mon)
                              /\ Reach(n, r.ring[p].log) = q.ring[p].log.value
                              /\ Reach(mon, q.ring[p].log) = q.ring[p].log.value
      BY <1>2, <1>3, <1>7, <1>8, <1>10, <2>3, <2>5
  <2>13. \A p \in E : /\ r.ring[p].log.value <= n.posted
                      /\ is_ref(r.ring[p].log) <=> RefHeld(r, n)
                      /\ Reach(n, r.ring[p].log) > n.seen
    <3>1. /\ r.ring[l].log.value <= n.posted
          /\ is_ref(r.ring[l].log) <=> RefHeld(r, n)
          /\ Reach(n, r.ring[l].log) > n.seen
      <4>1. q.ring[l].log.value \in Nat BY <1>7, <2>3
      <4>2. lg.value = q.ring[l].log.value \/ lg.value = mon.posted + 1 BY <2>4
      <4>3. lg.value <= mon.posted + 1
        <5>1. q.ring[l].log.value <= mon.posted BY <2>3
        <5> HIDE DEF l
        <5> QED BY <1>1, <4>1, <4>2, <5>1
      <4>4. is_ref(lg) <=> RefHeld(r, n) BY <2>4, <2>8
      <4>5. mon.posted + 1 > mon.seen BY <1>1, <1>8
      <4> QED BY <2>5, <2>11, <4>3, <4>4, <4>5 DEF Posted
    <3>2. \A p \in E : p # l => /\ r.ring[p].log.value <= n.posted
                                /\ is_ref(r.ring[p].log) <=> RefHeld(r, n)
                                /\ Reach(n, r.ring[p].log) > n.seen
        BY <1>1, <1>7, <2>8, <2>12 DEF Posted
    <3> QED BY <3>1, <3>2
  <2>14. ASSUME NEW p \in E, NEW s \in E, Age(r, p) < Age(r, s)
         PROVE  Reach(n, r.ring[p].log) < Reach(n, r.ring[s].log)
    <3>1. Age(q, p) < Age(q, s) /\ Age(q, p) \in Nat /\ Age(q, s) \in Nat BY <1>7, <2>5, <2>14
    <3>2. p # l BY <1>3, <2>2, <3>1
    <3>3. CASE s = l
      <4>1. q.ring[p].log.value < mon.posted + 1 BY <1>1, <1>7
      <4> QED BY <2>11, <2>12, <3>2, <3>3, <4>1
    <3>4. CASE s # l
      <4>1. Reach(mon, q.ring[p].log) < Reach(mon, q.ring[s].log) BY <1>8, <3>1
      <4> QED BY <2>12, <3>2, <3>4, <4>1
    <3> QED BY <3>3, <3>4
  <2>15. /\ RefHeld(r, n) => sub.npend <= 1
         /\ sub.npend > 0 => Reach(n, r.ring[sub.last].log) = n.posted
         /\ sub.npend = 0 /\ n.reader => n.seen = n.posted
      BY <1>8, <2>2, <2>8, <2>11 DEF Posted
  <2>16. StreamOK(r, n)
    <3>1. n.seen <= n.posted /\ n.id = id BY <1>1, <1>8 DEF Posted
    <3> QED BY <2>5, <2>6, <2>13, <2>14, <2>15, <3>1 DEF StreamOK
  <2> QED BY <2>9, <2>10, <2>16 DEF MonOK, r
<1> QED BY <1>11, <1>12

\* n is the monitor mon after its entry e is delivered, out of a queue that is r then.
Delivered(mon, e, r, n) ==
    /\ n.id = mon.id /\ n.data = mon.data /\ n.sink = mon.sink /\ n.reader = mon.reader
    /\ n.posted = mon.posted /\ n.seen = Reach(mon, e.log) /\ n.ended = mon.ended
    /\ n.owed = {c \in mon.owed : c \in e.log.mask => Carried(r, e.id, c)}

\* The head of the monitor itself leaves: its entries without it, all later and
\* so newer, and one less of them.
LEMMA HeadGone ==
    ASSUME NEW q, QueOK(q), q.used > 0, NEW r, Advances(q, r),
           NEW mon \in Monitor, MonOK(q, mon), mon.id = HeadEntry(q).id
    PROVE  LET sub == q.subs[mon.id.slot]
               E == EntriesOf(q, mon.id)
           IN  /\ q.getix \in E /\ Live(q, mon.id) /\ sub \in SubQ /\ sub.npend \in Nat /\ sub.npend > 0
               /\ mon.id.slot \in Slots /\ ~sub.end_reported
               /\ EntriesOf(r, mon.id) = E \ {q.getix}
               /\ \A p \in EntriesOf(r, mon.id) : p \in E /\ r.ring[p] = q.ring[p]
               /\ \A p, s \in EntriesOf(r, mon.id) : Age(r, p) < Age(r, s) => Age(q, p) < Age(q, s)
               /\ \A p \in EntriesOf(r, mon.id) :
                    Reach(mon, q.ring[p].log) > Reach(mon, HeadEntry(q).log)
               /\ sub.npend = 1 => Reach(mon, HeadEntry(q).log) = mon.posted
               /\ r.subs[mon.id.slot] = IF sub.npend - 1 = 0 /\ reader_gone(sub) THEN NoSub
                                        ELSE [sub EXCEPT !.npend = sub.npend - 1]
<1> DEFINE id == mon.id
           sub == q.subs[id.slot]
           E == EntriesOf(q, id)
<1>1. q \in QueInner /\ id \in AttachId /\ Live(q, id) /\ q.getix \in E BY HeadFacts
<1>2. /\ id.slot \in Slots /\ sub \in SubQ /\ sub.npend \in Nat /\ (sub.npend = 0 <=> E = {})
      /\ sub.npend > 0 => sub.last \in E
      /\ sub.npend <= 1 => \A p, s \in E : p = s
    BY <1>1, NpendFacts
<1>3. sub.npend > 0 BY <1>1, <1>2
<1>4. ~sub.end_reported BY <1>1, <1>2, <1>3 DEF MonOK, HandleOK
<1>5. EntriesOf(r, id) = E \ {q.getix} BY AdvanceEntries
<1>6. E \subseteq Occupied(q) BY DEF EntriesOf
<1>7. /\ \A p \in Occupied(q) : p # q.getix => r.ring[p] = q.ring[p] /\ Age(r, p) = Age(q, p) - 1
      /\ \A p \in Occupied(q) : Age(q, p) \in Nat /\ (p # q.getix => Age(q, p) > 0)
      /\ Age(q, q.getix) = 0
    BY AdvanceEntries
<1>8. \A p \in EntriesOf(r, id) : p \in E /\ p # q.getix /\ r.ring[p] = q.ring[p]
    BY <1>5, <1>6, <1>7
<1>9. \A p, s \in EntriesOf(r, id) : Age(r, p) < Age(r, s) => Age(q, p) < Age(q, s)
    BY <1>6, <1>7, <1>8
<1>10. \A p \in EntriesOf(r, id) : Reach(mon, q.ring[p].log) > Reach(mon, HeadEntry(q).log)
  <2> SUFFICES ASSUME NEW p \in EntriesOf(r, id)
               PROVE  Reach(mon, q.ring[p].log) > Reach(mon, HeadEntry(q).log)
      OBVIOUS
  <2>1. Age(q, q.getix) < Age(q, p) BY <1>6, <1>7, <1>8
  <2>2. Reach(mon, q.ring[q.getix].log) < Reach(mon, q.ring[p].log)
      BY <1>1, <1>8, <2>1 DEF MonOK, StreamOK
  <2>3. Reach(mon, q.ring[p].log) \in Nat /\ Reach(mon, q.ring[q.getix].log) \in Nat
      BY <1>1, <1>8, EntryFacts, MonType DEF Reach
  <2> QED BY <2>2, <2>3 DEF HeadEntry
<1>11. sub.npend = 1 => Reach(mon, HeadEntry(q).log) = mon.posted
  <2> SUFFICES ASSUME sub.npend = 1 PROVE Reach(mon, HeadEntry(q).log) = mon.posted
      OBVIOUS
  <2>1. sub.last = q.getix BY <1>1, <1>2
  <2> QED BY <1>1, <2>1 DEF MonOK, StreamOK, HeadEntry
<1>12. r.subs[id.slot] = IF sub.npend - 1 = 0 /\ reader_gone(sub) THEN NoSub
                         ELSE [sub EXCEPT !.npend = sub.npend - 1]
    BY <1>1, <1>2 DEF Advances, QueInner
<1> QED BY <1>1, <1>2, <1>3, <1>4, <1>5, <1>8, <1>9, <1>10, <1>11, <1>12

\* advance, by a poll that delivers the entry or drops it with its cancelled
\* monitor: what is left is as StreamOK says, given what the monitor has seen.
LEMMA AdvanceOwn ==
    ASSUME NEW q, QueOK(q), q.used > 0, NEW r, QueOK(r), Advances(q, r),
           NEW mon \in Monitor, MonOK(q, mon), mon.id = HeadEntry(q).id,
           NEW n, \/ HeadLive(q) /\ Delivered(mon, HeadEntry(q), r, n)
                  \/ ~HeadLive(q) /\ n = mon
    PROVE  MonOK(r, n)
<1> DEFINE id == mon.id
           sub == q.subs[id.slot]
           new == r.subs[id.slot]
           E == EntriesOf(q, id)
           F == EntriesOf(r, id)
<1>1. /\ q.getix \in E /\ Live(q, id) /\ sub \in SubQ /\ sub.npend \in Nat /\ sub.npend > 0
      /\ id.slot \in Slots /\ ~sub.end_reported
      /\ F = E \ {q.getix} /\ \A p \in F : p \in E /\ r.ring[p] = q.ring[p]
      /\ \A p, s \in F : Age(r, p) < Age(r, s) => Age(q, p) < Age(q, s)
      /\ \A p \in F : Reach(mon, q.ring[p].log) > Reach(mon, HeadEntry(q).log)
      /\ sub.npend = 1 => Reach(mon, HeadEntry(q).log) = mon.posted
      /\ new = IF sub.npend - 1 = 0 /\ reader_gone(sub) THEN NoSub
               ELSE [sub EXCEPT !.npend = sub.npend - 1]
    BY HeadGone
<1>2. /\ n.id = id /\ n.data = mon.data /\ n.sink = mon.sink /\ n.reader = mon.reader
      /\ n.posted = mon.posted /\ n.ended = mon.ended
    BY DEF Delivered
<1>3. /\ mon.posted \in Nat /\ mon.seen \in Nat /\ mon.seen <= mon.posted /\ mon.id \in AttachId
      /\ mon.reader \in BOOLEAN /\ mon.sink \in BOOLEAN
    BY MonType DEF MonOK, StreamOK
<1>4. HeadLive(q) <=> ~reader_gone(sub) BY DEF HeadLive
<1>5. (mon.reader <=> ~reader_gone(sub)) /\ mon.ended = 0
    BY <1>1 DEF MonOK, HandleOK
<1>6. /\ HeadLive(q) => n.seen = Reach(mon, HeadEntry(q).log)
      /\ ~HeadLive(q) => n.seen = mon.seen
    BY DEF Delivered
<1>7. \A log : Reach(n, log) = Reach(mon, log) BY <1>2 DEF Reach
<1>8. \A p \in E : /\ q.ring[p].log.value <= mon.posted /\ q.ring[p].log.value \in Nat
                   /\ (is_ref(q.ring[p].log) <=> RefHeld(q, mon))
                   /\ Reach(mon, q.ring[p].log) > mon.seen
    BY EntryFacts DEF MonOK, StreamOK
<1>9. \A p \in F : Reach(n, r.ring[p].log) > n.seen
    BY <1>1, <1>6, <1>7, <1>8
<1>10. \A p, s \in F : Age(r, p) < Age(r, s) => Reach(n, r.ring[p].log) < Reach(n, r.ring[s].log)
  <2> SUFFICES ASSUME NEW p \in F, NEW s \in F, Age(r, p) < Age(r, s)
               PROVE  Reach(n, r.ring[p].log) < Reach(n, r.ring[s].log)
      OBVIOUS
  <2>1. Age(q, p) < Age(q, s) /\ p \in E /\ s \in E BY <1>1
  <2>2. Reach(mon, q.ring[p].log) < Reach(mon, q.ring[s].log) BY <2>1 DEF MonOK, StreamOK
  <2> QED BY <1>1, <1>7, <2>2
<1>11. n.seen <= n.posted
  <2>1. HeadEntry(q).log.value <= mon.posted BY <1>1, <1>8 DEF HeadEntry
  <2>2. Reach(mon, HeadEntry(q).log) <= mon.posted BY <1>3, <2>1 DEF Reach
  <2> QED BY <1>2, <1>3, <1>6, <2>2
<1>12. \A p \in F : r.ring[p].log.value <= n.posted BY <1>1, <1>2, <1>8
<1>13. OwedOK(r, n)
  <2>1. CASE ~HeadLive(q) BY <1>2, <1>4, <1>5, <2>1 DEF OwedOK
  <2>2. CASE HeadLive(q)
    <3>1. \A c : c \in mon.owed <=> \E p \in E : c \in q.ring[p].log.mask
        BY <1>4, <1>5, <2>2 DEF MonOK, OwedOK
    <3>2. \A c : c \in n.owed <=>
                    c \in mon.owed /\ (c \in q.ring[q.getix].log.mask => \E p \in F : c \in r.ring[p].log.mask)
        BY <2>2 DEF Delivered, Carried, HeadEntry
    <3>3. \A c : c \in n.owed <=> \E p \in F : c \in r.ring[p].log.mask
      <4>1. ASSUME NEW c \in n.owed PROVE \E p \in F : c \in r.ring[p].log.mask
        <5>1. PICK p \in E : c \in q.ring[p].log.mask BY <3>1, <3>2
        <5>2. CASE p = q.getix BY <3>2, <5>1, <5>2
        <5>3. CASE p # q.getix
          <6>1. p \in F BY <1>1, <5>3
          <6> QED BY <1>1, <5>1, <6>1
        <5> QED BY <5>2, <5>3
      <4>2. ASSUME NEW c, NEW p \in F, c \in r.ring[p].log.mask PROVE c \in n.owed
        <5>1. p \in E /\ c \in q.ring[p].log.mask BY <1>1, <4>2
        <5> QED BY <3>1, <3>2, <4>2, <5>1
      <4> QED BY <4>1, <4>2
    <3> QED BY <1>2, <3>3 DEF OwedOK
  <2> QED BY <2>1, <2>2
<1>14. CASE sub.npend - 1 = 0 /\ reader_gone(sub)
  <2>1. new = NoSub BY <1>1, <1>14
  <2>2. ~Live(r, id) BY <2>1 DEF Live
  <2>3. F = {} BY <2>2, EntryFacts
  <2> HIDE DEF F
  <2>4. HandleOK(r, n) BY <1>2, <1>5, <1>14, <2>2 DEF HandleOK
  <2>5. StreamOK(r, n) BY <1>2, <1>11, <2>2, <2>3 DEF StreamOK, F
  <2> QED BY <1>13, <2>4, <2>5 DEF MonOK
<1>15. CASE ~(sub.npend - 1 = 0 /\ reader_gone(sub))
  <2>1. new = [sub EXCEPT !.npend = sub.npend - 1] BY <1>1, <1>15
  <2>2. /\ new.npend = sub.npend - 1 /\ new.last = sub.last /\ new.id = sub.id /\ new.kind = sub.kind
        /\ new.gone = sub.gone /\ new.end_reported = sub.end_reported
      BY <1>1, <2>1 DEF SubQ
  <2>3. new # NoSub
    <3>1. sub.npend - 1 \in Nat BY <1>1
    <3>2. new \in SubQ BY <1>1, <2>1, <3>1 DEF SubQ
    <3> QED BY <3>2, SentinelAssumption
  <2>4. Live(r, id) BY <1>1, <2>2, <2>3 DEF Live
  <2>5. new.npend > 0 => new.last \in F BY <1>3, <2>4, NpendFacts
  <2> HIDE DEF new
  <2>6. HandleOK(r, n)
      BY <1>1, <1>2, <1>5, <2>2, <2>4 DEF MonOK, HandleOK, new, reader_gone, producer_gone
  <2>7. RefHeld(r, n) <=> RefHeld(q, mon) BY <1>2, <2>2 DEF RefHeld, new
  <2>8. \A p \in F : is_ref(r.ring[p].log) <=> RefHeld(r, n) BY <1>1, <1>8, <2>7
  <2>9. RefHeld(r, n) => new.npend <= 1
    <3>1. RefHeld(q, mon) => sub.npend <= 1 BY <1>1 DEF MonOK, StreamOK
    <3> QED BY <1>1, <2>2, <2>7, <3>1
  <2>10. new.npend > 0 => Reach(n, r.ring[new.last].log) = n.posted
    <3>1. Reach(mon, q.ring[sub.last].log) = mon.posted BY <1>1 DEF MonOK, StreamOK
    <3> QED BY <1>1, <1>2, <1>7, <2>2, <2>5, <3>1
  <2>11. new.npend = 0 /\ n.reader => n.seen = n.posted
    <3>1. sub.npend - 1 = 0 => sub.npend = 1 BY <1>1
    <3> QED BY <1>1, <1>2, <1>4, <1>5, <1>6, <2>2, <3>1
  <2>12. StreamOK(r, n) BY <1>2, <1>9, <1>10, <1>11, <1>12, <2>8, <2>9, <2>10, <2>11 DEF StreamOK, new
  <2> QED BY <1>13, <2>6, <2>12 DEF MonOK
<1> QED BY <1>14, <1>15

\* A monitor just attached.
LEMMA AttachOwn ==
    ASSUME NEW r, QueOK(r), NEW n \in Monitor, Live(r, n.id), n.sink, n.reader, n.posted = 0, n.seen = 0,
           n.owed = {}, n.ended = 0, r.subs[n.id.slot].npend = 0, r.subs[n.id.slot].gone = {},
           ~r.subs[n.id.slot].end_reported
    PROVE  MonOK(r, n)
<1>1. n.id \in AttachId BY MonType
<1>2. EntriesOf(r, n.id) = {} BY <1>1, NpendFacts
<1>3. HandleOK(r, n) BY DEF HandleOK, reader_gone, producer_gone
<1>4. StreamOK(r, n) BY <1>2 DEF StreamOK
<1>5. OwedOK(r, n) BY <1>2 DEF OwedOK
<1> QED BY <1>3, <1>4, <1>5 DEF MonOK

-----------------------------------------------------------------------------
(* What is promised of a monitor: a value at least as new as need, among   *)
(* the entries up to the a-th the queue ever held.                         *)

Kept(q, mon, a, need) ==
    \E p \in EntriesOf(q, mon.id) : q.taken + Age(q, p) < a /\ Reach(mon, q.ring[p].log) >= need

\* An operation keeps every such promise, or delivers what was promised.
Serves(q, mon, r, n) ==
    /\ n.reader => mon.reader
    /\ n.seen >= mon.seen
    /\ \A a, need \in Nat : Kept(q, mon, a, need) => Kept(r, n, a, need) \/ ~n.reader \/ n.seen >= need

\* The monitor's entries, their logs and their turns are the same.
LEMMA ServeFrame ==
    ASSUME NEW q, NEW r, NEW mon \in Monitor, NEW n, Untouched(mon, n), n.reader => mon.reader,
           EntriesOf(r, mon.id) = EntriesOf(q, mon.id),
           \A p \in EntriesOf(q, mon.id) : /\ r.ring[p].log = q.ring[p].log
                                           /\ r.taken + Age(r, p) = q.taken + Age(q, p)
    PROVE  Serves(q, mon, r, n)
<1>1. mon.seen \in Nat /\ n.id = mon.id /\ n.seen = mon.seen BY MonType DEF Untouched
<1>2. \A log : Reach(n, log) = Reach(mon, log) BY DEF Reach, Untouched
<1>3. ASSUME NEW a \in Nat, NEW need \in Nat, Kept(q, mon, a, need) PROVE Kept(r, n, a, need)
  <2>1. PICK p \in EntriesOf(q, mon.id) : q.taken + Age(q, p) < a /\ Reach(mon, q.ring[p].log) >= need
      BY <1>3 DEF Kept
  <2>2. r.taken + Age(r, p) < a /\ Reach(n, r.ring[p].log) >= need BY <1>2, <2>1
  <2> QED BY <1>1, <2>1, <2>2 DEF Kept
<1> QED BY <1>1, <1>3 DEF Serves

\* Slots filled, marked or given back.
LEMMA ReslotServes ==
    ASSUME NEW q, NEW r, NEW s, NEW sub, Reslots(q, r, s, sub),
           NEW mon \in Monitor, NEW n, Untouched(mon, n), n.reader => mon.reader
    PROVE  Serves(q, mon, r, n)
<1>1. r.ring = q.ring /\ r.getix = q.getix /\ r.taken = q.taken BY DEF Reslots
<1>2. EntriesOf(r, mon.id) = EntriesOf(q, mon.id) BY <1>1 DEF EntriesOf, Occupied
<1>3. \A p : Age(r, p) = Age(q, p) BY <1>1 DEF Age
<1> QED BY <1>1, <1>2, <1>3, ServeFrame

\* A post, to this monitor or to another.
LEMMA PostServes ==
    ASSUME NEW q, QueOK(q), NEW fl \in BOOLEAN, NEW id \in AttachId, NEW log \in PostLog,
           PostOutcome(q, fl, id, log) # "Closed", NEW mon \in Monitor, MonOK(q, mon), NEW n,
           \/ mon.id # id /\ n = mon
           \/ mon.id = id /\ log.data = mon.data /\ log.value = mon.posted + 1 /\ Posted(mon, log.mask, n)
    PROVE  Serves(q, mon, post(q, fl, id, log), n)
<1> DEFINE r == post(q, fl, id, log)
           sub == q.subs[id.slot]
           E == EntriesOf(q, mon.id)
<1>1. q \in QueInner /\ Live(q, id) /\ sub \in SubQ /\ sub.npend \in Nat BY OutcomeFacts
<1>2. ForKind(log, sub.kind) \in PostLog BY ForKindType
<1>3. /\ mon.seen \in Nat /\ mon.posted \in Nat /\ n.id = mon.id /\ n.seen = mon.seen /\ n.reader = mon.reader
      /\ n.posted = mon.posted \/ n.posted = mon.posted + 1
    BY MonType DEF Posted
<1>4. \A p \in E : /\ p \in Occupied(q) /\ q.ring[p].log.value \in Nat
                   /\ q.ring[p].log.value <= mon.posted /\ q.ring[p].id = mon.id
    BY EntryFacts DEF MonOK, StreamOK
<1>5. \A p \in E : /\ Reach(mon, q.ring[p].log) \in Nat /\ Reach(mon, q.ring[p].log) <= mon.posted
                   /\ Reach(n, q.ring[p].log) \in Nat /\ Reach(n, q.ring[p].log) >= Reach(mon, q.ring[p].log)
    BY <1>3, <1>4 DEF Reach
<1>6. ASSUME NEW x, r = x, E \subseteq EntriesOf(x, mon.id), x.taken = q.taken,
             \A p : Age(x, p) = Age(q, p),
             \A p \in E : x.ring[p].log = q.ring[p].log \/ Reach(n, x.ring[p].log) = mon.posted + 1
      PROVE  Serves(q, mon, x, n)
  <2>1. ASSUME NEW a \in Nat, NEW need \in Nat, Kept(q, mon, a, need) PROVE Kept(x, n, a, need)
    <3>1. PICK p \in E : q.taken + Age(q, p) < a /\ Reach(mon, q.ring[p].log) >= need
        BY <2>1 DEF Kept
    <3>2. Reach(n, x.ring[p].log) >= need BY <1>3, <1>5, <1>6, <3>1
    <3>3. x.taken + Age(x, p) < a /\ p \in EntriesOf(x, n.id) BY <1>3, <1>6, <3>1
    <3> QED BY <3>2, <3>3 DEF Kept
  <2> QED BY <1>3, <2>1 DEF Serves
<1>7. CASE PostOutcome(q, fl, id, log) = "Appended"
  <2>1. Appends(q, r, id, log) BY <1>7, PostFields
  <2> HIDE DEF r
  <2>2. /\ EntriesOf(r, id) = EntriesOf(q, id) \cup {TailPlace(q)}
        /\ \A x : x # id => EntriesOf(r, x) = EntriesOf(q, x)
        /\ \A p \in Occupied(q) : r.ring[p] = q.ring[p]
        /\ \A p : Age(r, p) = Age(q, p)
      BY <1>2, <2>1, AppendEntries
  <2>3. E \subseteq EntriesOf(r, mon.id) BY <2>2
  <2>4. r.taken = q.taken BY <2>1 DEF Appends
  <2>5. \A p \in E : r.ring[p].log = q.ring[p].log BY <1>4, <2>2
  <2>6. Serves(q, mon, r, n) BY <1>6, <2>2, <2>3, <2>4, <2>5
  <2> QED BY <2>6 DEF r
<1>8. CASE PostOutcome(q, fl, id, log) # "Appended"
  <2> DEFINE l == sub.last
             lg == Joined(q, fl, id, log)
  <2>1. Relogs(q, r, l, lg) BY <1>8, PostFields
  <2>2. sub.npend > 0 BY <1>8, OutcomeFacts
  <2>3. l \in Occupied(q) /\ q.ring[l].id = id /\ q.ring[l].log \in PostLog BY <1>1, <2>2, LastFacts
  <2>4. lg \in PostLog BY <1>2, <2>3 DEF Joined, PostLog
  <2>5. \/ lg = [ForKind(log, sub.kind) EXCEPT !.mask = @ \cup q.ring[l].log.mask]
        \/ /\ lg = [q.ring[l].log EXCEPT !.mask = @ \cup log.mask]
           /\ is_ref(q.ring[l].log)
      BY <1>8, OutcomeFacts DEF Joined
  <2>6. mon.id = id => Reach(n, lg) = mon.posted + 1
    <3> SUFFICES ASSUME mon.id = id PROVE Reach(n, lg) = mon.posted + 1
        OBVIOUS
    <3>1. n.posted = mon.posted + 1 /\ log.value = mon.posted + 1 BY DEF Posted
    <3>2. ForKind(log, sub.kind).value = log.value BY DEF ForKind, PostLog
    <3>3. is_ref(lg) \/ lg.value = log.value
      <4>1. CASE lg = [ForKind(log, sub.kind) EXCEPT !.mask = @ \cup q.ring[l].log.mask]
          BY <1>2, <3>2, <4>1 DEF PostLog
      <4>2. CASE lg = [q.ring[l].log EXCEPT !.mask = @ \cup log.mask] /\ is_ref(q.ring[l].log)
          BY <2>3, <4>2 DEF PostLog, is_ref
      <4> QED BY <2>5, <4>1, <4>2
    <3> QED BY <3>1, <3>3 DEF Reach
  <2> HIDE DEF r, lg
  <2>7. /\ \A x : EntriesOf(r, x) = EntriesOf(q, x) /\ r.ring[l].log = lg
        /\ \A p \in Occupied(q) : p # l => r.ring[p] = q.ring[p]
        /\ \A p : Age(r, p) = Age(q, p)
      BY <2>1, <2>3, <2>4, RelogEntries
  <2>8. r.taken = q.taken BY <2>1 DEF Relogs
  <2>9. \A p \in E : r.ring[p].log = q.ring[p].log \/ Reach(n, r.ring[p].log) = mon.posted + 1
      BY <1>4, <2>3, <2>6, <2>7
  <2>10. Serves(q, mon, r, n) BY <1>6, <2>7, <2>8, <2>9
  <2> QED BY <2>10 DEF r
<1> QED BY <1>7, <1>8

\* A take, of this monitor's entry or of another's: its turn comes one nearer.
LEMMA AdvanceServes ==
    ASSUME NEW q, QueOK(q), q.used > 0, NEW r, Advances(q, r), NEW mon \in Monitor, MonOK(q, mon), NEW n,
           \/ mon.id # HeadEntry(q).id /\ n = mon
           \/ mon.id = HeadEntry(q).id /\ HeadLive(q) /\ Delivered(mon, HeadEntry(q), r, n)
           \/ mon.id = HeadEntry(q).id /\ ~HeadLive(q) /\ n = mon
    PROVE  Serves(q, mon, r, n)
<1> DEFINE E == EntriesOf(q, mon.id)
<1>1. /\ q \in QueInner /\ q.getix \in EntriesOf(q, HeadEntry(q).id) /\ Live(q, HeadEntry(q).id)
      /\ q.taken \in Nat
    BY HeadFacts DEF QueInner
<1>2. /\ mon.seen \in Nat /\ mon.posted \in Nat /\ n.id = mon.id /\ n.reader = mon.reader
      /\ n.posted = mon.posted
    BY MonType DEF Delivered
<1>3. \A log : Reach(n, log) = Reach(mon, log) BY <1>2 DEF Reach
<1>4. EntriesOf(r, mon.id) = E \ {q.getix} BY AdvanceEntries
<1>5. E \subseteq Occupied(q) /\ \A p \in E : q.ring[p].id = mon.id BY DEF EntriesOf
<1>6. \A p \in Occupied(q) : /\ p # q.getix => r.ring[p] = q.ring[p] /\ Age(r, p) = Age(q, p) - 1
                             /\ Age(q, p) \in Nat
    BY AdvanceEntries
<1>7. r.taken = q.taken + 1 BY DEF Advances
<1>8. \A p \in E : /\ Reach(mon, q.ring[p].log) \in Nat /\ Reach(mon, q.ring[p].log) > mon.seen
    BY <1>2, EntryFacts DEF MonOK, StreamOK, Reach
<1>9. mon.id = HeadEntry(q).id => q.getix \in E BY <1>1
<1>10. n.seen >= mon.seen
  <2>1. CASE n = mon BY <1>2, <2>1
  <2>2. CASE mon.id = HeadEntry(q).id /\ Delivered(mon, HeadEntry(q), r, n)
    <3>1. n.seen = Reach(mon, q.ring[q.getix].log) BY <2>2 DEF Delivered, HeadEntry
    <3> QED BY <1>2, <1>8, <1>9, <2>2, <3>1
  <2> QED BY <2>1, <2>2
<1>11. ASSUME NEW a \in Nat, NEW need \in Nat, Kept(q, mon, a, need)
       PROVE  Kept(r, n, a, need) \/ ~n.reader \/ n.seen >= need
  <2>1. PICK p \in E : q.taken + Age(q, p) < a /\ Reach(mon, q.ring[p].log) >= need
      BY <1>11 DEF Kept
  <2>2. CASE p # q.getix
    <3>1. p \in EntriesOf(r, n.id) /\ r.ring[p] = q.ring[p] BY <1>2, <1>4, <1>5, <1>6, <2>2
    <3>2. r.taken + Age(r, p) = q.taken + Age(q, p) BY <1>1, <1>5, <1>6, <1>7, <2>2
    <3> QED BY <1>3, <2>1, <3>1, <3>2 DEF Kept
  <2>3. CASE p = q.getix
    <3>1. mon.id = HeadEntry(q).id BY <1>5, <2>3 DEF HeadEntry
    <3>2. CASE HeadLive(q)
      <4>1. n.seen = Reach(mon, q.ring[p].log) BY <2>3, <3>1, <3>2 DEF Delivered, HeadEntry
      <4> QED BY <2>1, <4>1
    <3>3. CASE ~HeadLive(q)
      <4>1. reader_gone(q.subs[mon.id.slot]) BY <3>1, <3>3 DEF HeadLive
      <4>2. ~mon.reader BY <1>1, <3>1, <4>1 DEF MonOK, HandleOK
      <4> QED BY <1>2, <4>2
    <3> QED BY <3>2, <3>3
  <2> QED BY <2>2, <2>3
<1> QED BY <1>2, <1>10, <1>11 DEF Serves

-----------------------------------------------------------------------------
(* All monitors of the circuit.                                            *)

\* The monitor in a slot of queue i is the one whose handle names the slot.
Named(i, s) ==
    LET id == ques[i].subs[s].id
    IN  id.gen \in DOMAIN mons /\ mons[id.gen].que = i /\ mons[id.gen].id = id

\* Handles are numbered in attach order, slots hold the monitors handed out,
\* and every monitor is as MonOK says.
DeliveryInv ==
    /\ \A m \in DOMAIN mons : mons[m].id.gen = m
    /\ \A i \in DOMAIN ques : \A s \in Attached(ques[i]) : Named(i, s)
    /\ \A m \in DOMAIN mons : MonOK(ques[mons[m].que], mons[m])

\* No slot gets a monitor it did not hold.
SubsKept(q, r) == \A s \in Attached(r) : s \in Attached(q) /\ r.subs[s].id = q.subs[s].id

\* What a step does to a monitor and its queue.
Moves(q, mon, r, n) == MonOK(r, n) /\ Serves(q, mon, r, n)

\* Every monitor attached before the step.
MovesAll ==
    /\ DOMAIN mons \subseteq DOMAIN mons'
    /\ \A m \in DOMAIN mons : /\ mons'[m].que = mons[m].que /\ mons'[m].id = mons[m].id
                              /\ Moves(ques[mons[m].que], mons[m], ques'[mons[m].que], mons'[m])

\* The handles' types.
LEMMA MonsFacts ==
    ASSUME IInv
    PROVE  /\ mons \in Seq(Monitor) /\ Len(mons) \in Nat /\ DOMAIN mons = 1 .. Len(mons)
           /\ \A m \in DOMAIN mons : /\ mons[m] \in Monitor /\ mons[m].que \in DOMAIN ques
                                     /\ mons[m].id \in AttachId /\ QueOK(ques[mons[m].que])
<1>1. mons \in Seq(Monitor) BY DEF IInv, TypeOK
<1>2. Len(mons) \in Nat /\ DOMAIN mons = 1 .. Len(mons) /\ \A m \in DOMAIN mons : mons[m] \in Monitor BY <1>1
<1> QED BY <1>1, <1>2, AtFacts

\* The slots stay named when no monitor is attached.
LEMMA NamesKept ==
    ASSUME IInv, DeliveryInv, MovesAll, DOMAIN mons' = DOMAIN mons, DOMAIN ques' = DOMAIN ques,
           \A i \in DOMAIN ques : SubsKept(ques[i], ques'[i])
    PROVE  DeliveryInv'
<1>1. \A m \in DOMAIN mons' : mons'[m].id.gen = m BY DEF DeliveryInv, MovesAll
<1>2. ASSUME NEW i \in DOMAIN ques', NEW s \in Attached(ques'[i]) PROVE Named(i, s)'
  <2>1. s \in Attached(ques[i]) /\ ques'[i].subs[s].id = ques[i].subs[s].id BY <1>2 DEF SubsKept
  <2>2. Named(i, s) BY <2>1 DEF DeliveryInv
  <2> QED BY <2>1, <2>2 DEF Named, MovesAll
<1>3. \A m \in DOMAIN mons' : MonOK(ques'[mons'[m].que], mons'[m]) BY DEF MovesAll, Moves
<1> QED BY <1>1, <1>2, <1>3 DEF DeliveryInv

\* A step about one monitor m: its record becomes n, its queue r.
LEMMA OneMonitor ==
    ASSUME IInv, DeliveryInv, NEW m \in DOMAIN mons, NEW n, NEW r,
           ques' = [ques EXCEPT ![mons[m].que] = r], mons' = [mons EXCEPT ![m] = n],
           n.que = mons[m].que, n.id = mons[m].id, SubsKept(ques[mons[m].que], r),
           Moves(ques[mons[m].que], mons[m], r, n),
           \A x \in DOMAIN mons : mons[x].id # mons[m].id /\ mons[x].que = mons[m].que =>
                Moves(ques[mons[m].que], mons[x], r, mons[x])
    PROVE  DeliveryInv' /\ MovesAll
<1> DEFINE i == mons[m].que
<1>1. i \in DOMAIN ques /\ mons \in Seq(Monitor) BY MonsFacts
<1>2. /\ DOMAIN ques' = DOMAIN ques /\ ques'[i] = r
      /\ \A j \in DOMAIN ques : j # i => ques'[j] = ques[j]
    BY <1>1, OneQueue
<1>3. DOMAIN mons' = DOMAIN mons /\ mons'[m] = n /\ \A x \in DOMAIN mons : x # m => mons'[x] = mons[x]
    BY <1>1
<1>4. ASSUME NEW x \in DOMAIN mons
      PROVE  /\ mons'[x].que = mons[x].que /\ mons'[x].id = mons[x].id
             /\ Moves(ques[mons[x].que], mons[x], ques'[mons[x].que], mons'[x])
  <2>1. CASE x = m BY <1>2, <1>3, <2>1
  <2>2. CASE x # m
    <3>1. mons[x].id # mons[m].id BY <2>2 DEF DeliveryInv
    <3>2. CASE mons[x].que = i BY <1>2, <1>3, <2>2, <3>1, <3>2
    <3>3. CASE mons[x].que # i
      <4>1. ques'[mons[x].que] = ques[mons[x].que] BY <1>2, <3>3, MonsFacts
      <4>2. MonOK(ques[mons[x].que], mons[x]) /\ mons[x] \in Monitor BY MonsFacts DEF DeliveryInv
      <4>3. Untouched(mons[x], mons[x]) BY DEF Untouched
      <4>4. Serves(ques[mons[x].que], mons[x], ques[mons[x].que], mons[x])
          BY <4>2, <4>3, ServeFrame
      <4> QED BY <1>3, <2>2, <4>1, <4>2, <4>4 DEF Moves
    <3> QED BY <3>2, <3>3
  <2> QED BY <2>1, <2>2
<1>5. MovesAll BY <1>3, <1>4 DEF MovesAll
<1>6. \A j \in DOMAIN ques : SubsKept(ques[j], ques'[j])
  <2>1. \A j \in DOMAIN ques : j # i => SubsKept(ques[j], ques'[j]) BY <1>2 DEF SubsKept
  <2> QED BY <1>2, <2>1
<1>7. DeliveryInv' BY <1>2, <1>3, <1>5, <1>6, NamesKept
<1> QED BY <1>5, <1>7

\* Steps that leave the handles and the rings alone.
LEMMA NoMonitor ==
    ASSUME IInv, DeliveryInv, mons' = mons, DOMAIN ques' = DOMAIN ques,
           \A i \in DOMAIN ques : /\ ques'[i].ring = ques[i].ring /\ ques'[i].getix = ques[i].getix
                                  /\ ques'[i].subs = ques[i].subs /\ ques'[i].taken = ques[i].taken
    PROVE  DeliveryInv' /\ MovesAll
<1>1. ASSUME NEW m \in DOMAIN mons
      PROVE  Moves(ques[mons[m].que], mons[m], ques'[mons[m].que], mons[m])
  <2> DEFINE q == ques[mons[m].que]
             r == ques'[mons[m].que]
  <2>1. mons[m] \in Monitor /\ QueOK(q) /\ mons[m].que \in DOMAIN ques /\ MonOK(q, mons[m])
      BY MonsFacts DEF DeliveryInv
  <2>2. r.ring = q.ring /\ r.getix = q.getix /\ r.subs = q.subs /\ r.taken = q.taken BY <2>1
  <2> HIDE DEF q, r
  <2>3. EntriesOf(r, mons[m].id) = EntriesOf(q, mons[m].id) BY <2>2 DEF EntriesOf, Occupied
  <2>4. \A p : Age(r, p) = Age(q, p) BY <2>2 DEF Age
  <2>5. Live(r, mons[m].id) <=> Live(q, mons[m].id) BY <2>2 DEF Live
  <2>6. MonOK(r, mons[m]) BY <2>1, <2>2, <2>3, <2>4, <2>5, MonFrame
  <2>7. Untouched(mons[m], mons[m]) BY DEF Untouched
  <2>8. Serves(q, mons[m], r, mons[m]) BY <2>1, <2>2, <2>3, <2>4, <2>7, ServeFrame
  <2> QED BY <2>6, <2>8 DEF Moves, q, r
<1>2. MovesAll BY <1>1 DEF MovesAll
<1>3. \A i \in DOMAIN ques : SubsKept(ques[i], ques'[i]) BY DEF SubsKept, Attached
<1> QED BY <1>2, <1>3, NamesKept

\* Marking or giving back a slot names no other monitor.
LEMMA ReslotKeeps ==
    ASSUME NEW q \in QueInner, NEW r, NEW s \in Slots, NEW sub, Reslots(q, r, s, sub), q.subs[s] # NoSub,
           sub = NoSub \/ sub.id = q.subs[s].id
    PROVE  SubsKept(q, r)
<1>1. r.subs = [q.subs EXCEPT ![s] = sub] BY DEF Reslots
<1>2. \A x \in Slots : r.subs[x] = IF x = s THEN sub ELSE q.subs[x] BY <1>1 DEF QueInner
<1> QED BY <1>2 DEF SubsKept, Attached

\* The other monitors, when the slot of the live monitor id is marked or freed.
LEMMA ReslotMoves ==
    ASSUME NEW q, QueOK(q), NEW r, NEW id \in AttachId, Live(q, id), NEW sub, Reslots(q, r, id.slot, sub),
           sub = NoSub \/ sub.id = id, NEW mon \in Monitor, MonOK(q, mon), mon.id # id
    PROVE  Moves(q, mon, r, mon)
<1>1. id.slot \in Slots BY DEF AttachId
<1>2. mon.id.slot = id.slot => ~Live(q, mon.id) BY OtherLive
<1>3. MonOK(r, mon) BY <1>1, <1>2, ReslotOthers
<1>4. Untouched(mon, mon) BY DEF Untouched
<1>5. Serves(q, mon, r, mon) BY <1>4, ReslotServes
<1> QED BY <1>3, <1>5 DEF Moves

\* EventSink::close.
LEMMA CloseProducerMoves ==
    ASSUME IInv, DeliveryInv, NEW m \in DOMAIN mons, CloseProducer(m)
    PROVE  DeliveryInv' /\ MovesAll
<1> DEFINE i == mons[m].que
           q == ques[i]
           id == mons[m].id
           r == close_producer(q, id)
           sub == [q.subs[id.slot] EXCEPT !.gone = q.subs[id.slot].gone \cup {"producer"}]
           n == [mons[m] EXCEPT !.sink = FALSE]
<1>1. /\ mons[m] \in Monitor /\ i \in DOMAIN ques /\ id \in AttachId /\ QueOK(q) /\ q \in QueInner
      /\ MonOK(q, mons[m]) /\ id.slot \in Slots /\ mons \in Seq(Monitor)
    BY MonsFacts DEF DeliveryInv, QueOK, AttachId
<1>2. Live(q, id) /\ ques' = [ques EXCEPT ![i] = r] /\ mons' = [mons EXCEPT ![m] = n]
    BY DEF CloseProducer
<1>3. q.subs[id.slot] \in SubQ /\ q.subs[id.slot] # NoSub /\ q.subs[id.slot].id = id
    BY <1>1, <1>2, SubFacts DEF Live
<1>4. Reslots(q, r, id.slot, sub) /\ sub.id = id BY <1>1, <1>2, <1>3, CloseProducerFields DEF SubQ
<1>5. /\ n.que = i /\ n.id = id /\ Untouched(mons[m], n) /\ n.reader = mons[m].reader
      /\ n.ended = mons[m].ended /\ n.sink = FALSE
    BY <1>1 DEF Monitor, Untouched
<1>6. MonOK(r, n) BY <1>1, <1>2, <1>5, CloseProducerOwn
<1> HIDE DEF r, sub, n, q
<1>7. Serves(q, mons[m], r, n) BY <1>1, <1>4, <1>5, ReslotServes
<1>8. \A x \in DOMAIN mons : mons[x].id # id /\ mons[x].que = i => Moves(q, mons[x], r, mons[x])
    BY <1>1, <1>2, <1>4, ReslotMoves, MonsFacts DEF DeliveryInv, q
<1>9. SubsKept(q, r) BY <1>1, <1>3, <1>4, ReslotKeeps
<1> QED BY <1>2, <1>5, <1>6, <1>7, <1>8, <1>9, OneMonitor DEF Moves, q

\* The reader's drop.
LEMMA CloseReaderMoves ==
    ASSUME IInv, DeliveryInv, NEW m \in DOMAIN mons, CloseReader(m)
    PROVE  DeliveryInv' /\ MovesAll
<1> DEFINE i == mons[m].que
           q == ques[i]
           id == mons[m].id
           r == close_reader(q, id)
           sub == IF q.subs[id.slot].npend = 0 THEN NoSub
                  ELSE [q.subs[id.slot] EXCEPT !.gone = q.subs[id.slot].gone \cup {"reader"}]
           n == [mons[m] EXCEPT !.reader = FALSE]
<1>1. /\ mons[m] \in Monitor /\ i \in DOMAIN ques /\ id \in AttachId /\ QueOK(q) /\ q \in QueInner
      /\ MonOK(q, mons[m]) /\ id.slot \in Slots /\ mons \in Seq(Monitor)
    BY MonsFacts DEF DeliveryInv, QueOK, AttachId
<1>2. Live(q, id) BY <1>1 DEF CloseReader, MonOK, HandleOK
<1>3. ques' = [ques EXCEPT ![i] = r] /\ mons' = [mons EXCEPT ![m] = n]
    BY <1>2 DEF CloseReader
<1>4. q.subs[id.slot] \in SubQ /\ q.subs[id.slot] # NoSub /\ q.subs[id.slot].id = id
    BY <1>1, <1>2, SubFacts DEF Live
<1>5. Reslots(q, r, id.slot, sub) BY <1>1, <1>2, CloseReaderFields
<1>6. sub = NoSub \/ sub.id = id BY <1>4 DEF SubQ
<1>7. /\ n.que = i /\ n.id = id /\ Untouched(mons[m], n) /\ n.reader = FALSE
      /\ n.ended = mons[m].ended /\ n.sink = mons[m].sink
    BY <1>1 DEF Monitor, Untouched
<1>8. MonOK(r, n) BY <1>1, <1>2, <1>7, CloseReaderOwn
<1> HIDE DEF r, sub, n, q
<1>9. Serves(q, mons[m], r, n) BY <1>1, <1>5, <1>7, ReslotServes
<1>10. \A x \in DOMAIN mons : mons[x].id # id /\ mons[x].que = i => Moves(q, mons[x], r, mons[x])
    BY <1>1, <1>2, <1>5, <1>6, ReslotMoves, MonsFacts DEF DeliveryInv, q
<1>11. SubsKept(q, r) BY <1>1, <1>4, <1>5, <1>6, ReslotKeeps
<1> QED BY <1>3, <1>7, <1>8, <1>9, <1>10, <1>11, OneMonitor DEF Moves, q

\* The monitor in an attached slot.
LEMMA SlotMonitor ==
    ASSUME IInv, DeliveryInv, NEW i \in DOMAIN ques, NEW s \in Attached(ques[i])
    PROVE  LET m == ques[i].subs[s].id.gen
           IN  /\ m \in DOMAIN mons /\ mons[m].que = i /\ mons[m].id = ques[i].subs[s].id
               /\ mons[m].id.slot = s /\ s \in Slots /\ Live(ques[i], mons[m].id)
<1> DEFINE m == ques[i].subs[s].id.gen
<1>1. m \in DOMAIN mons /\ mons[m].que = i /\ mons[m].id = ques[i].subs[s].id
    BY DEF DeliveryInv, Named
<1>2. ques[i].subs[s].id.slot = s BY AtFacts DEF QueOK, SlotsOK, SlotsNamed
<1> QED BY <1>1, <1>2 DEF Attached, Live

\* The consumer reports an end.
LEMMA EndedMoves ==
    ASSUME IInv, DeliveryInv, PollEnded
    PROVE  DeliveryInv' /\ MovesAll
<1> DEFINE q == ques[at]
<1>1. PICK s \in Ended(q) :
        /\ ques' = [ques EXCEPT ![at] = take_ended(@, s)]
        /\ mons' = [mons EXCEPT ![q.subs[s].id.gen].ended = @ + 1]
    BY DEF PollEnded
<1> DEFINE m == q.subs[s].id.gen
           id == mons[m].id
           r == take_ended(q, s)
           sub == [q.subs[s] EXCEPT !.end_reported = TRUE]
           n == [mons[m] EXCEPT !.ended = @ + 1]
<1>2. at \in DOMAIN ques /\ s \in Attached(q) BY AtFacts DEF Ended
<1>3. m \in DOMAIN mons /\ mons[m].que = at /\ id = q.subs[s].id /\ id.slot = s /\ s \in Slots /\ Live(q, id)
    BY <1>2, SlotMonitor
<1>4. /\ mons[m] \in Monitor /\ id \in AttachId /\ QueOK(q) /\ q \in QueInner
      /\ MonOK(q, mons[m]) /\ mons \in Seq(Monitor)
    BY <1>2, <1>3, MonsFacts DEF DeliveryInv, QueOK
<1>5. q.subs[s] \in SubQ /\ q.subs[s] # NoSub BY <1>3, <1>4, SubFacts DEF Live
<1>6. Reslots(q, r, s, sub) /\ sub.id = id BY <1>3, <1>4, <1>5, TakeEndedFields DEF SubQ
<1>7. /\ n.que = at /\ n.id = id /\ Untouched(mons[m], n) /\ n.reader = mons[m].reader
      /\ n.ended = mons[m].ended + 1 /\ n.sink = mons[m].sink
    BY <1>3, <1>4 DEF Monitor, Untouched
<1>8. ques' = [ques EXCEPT ![at] = r] /\ mons' = [mons EXCEPT ![m] = n] BY <1>1
<1> HIDE DEF n
<1>9. MonOK(r, n) BY <1>3, <1>4, <1>7, TakeEndedOwn
<1> HIDE DEF r, sub, q, m
<1>10. Serves(q, mons[m], r, n) BY <1>4, <1>6, <1>7, ReslotServes
<1>11. \A x \in DOMAIN mons : mons[x].id # id /\ mons[x].que = at => Moves(q, mons[x], r, mons[x])
    BY <1>3, <1>4, <1>6, ReslotMoves, MonsFacts DEF DeliveryInv, q
<1>12. SubsKept(q, r) BY <1>3, <1>4, <1>5, <1>6, ReslotKeeps
<1> QED BY <1>3, <1>7, <1>8, <1>9, <1>10, <1>11, <1>12, OneMonitor DEF Moves, q

\* Appending or relogging for a live monitor names no other monitor.
LEMMA PostKeeps ==
    ASSUME NEW q, QueOK(q), NEW fl \in BOOLEAN, NEW id \in AttachId, NEW log \in PostLog,
           PostOutcome(q, fl, id, log) # "Closed"
    PROVE  SubsKept(q, post(q, fl, id, log))
<1> DEFINE r == post(q, fl, id, log)
           sub == q.subs[id.slot]
<1>1. q \in QueInner /\ Live(q, id) /\ sub \in SubQ /\ id.slot \in Slots
    BY OutcomeFacts DEF AttachId
<1>2. CASE PostOutcome(q, fl, id, log) = "Appended"
  <2>1. Appends(q, r, id, log) BY <1>2, PostFields
  <2> HIDE DEF r
  <2>2. r.subs = [q.subs EXCEPT ![id.slot] = [sub EXCEPT !.npend = @ + 1, !.last = TailPlace(q)]]
      BY <2>1 DEF Appends
  <2>3. [sub EXCEPT !.npend = @ + 1, !.last = TailPlace(q)].id = sub.id BY <1>1 DEF SubQ
  <2>4. \A x \in Slots : (r.subs[x] # NoSub => q.subs[x] # NoSub) /\ r.subs[x].id = q.subs[x].id
      BY <1>1, <2>2, <2>3 DEF QueInner, Live
  <2> QED BY <2>4 DEF SubsKept, Attached, r
<1>3. CASE PostOutcome(q, fl, id, log) # "Appended"
  <2>1. Relogs(q, r, sub.last, Joined(q, fl, id, log)) BY <1>3, PostFields
  <2> HIDE DEF r
  <2>2. r.subs = q.subs BY <2>1 DEF Relogs
  <2> QED BY <2>2 DEF SubsKept, Attached, r
<1> QED BY <1>2, <1>3

\* A post of a burst.
LEMMA PostMoves ==
    ASSUME IInv, DeliveryInv, NEW p \in Producers, NEW m \in DOMAIN mons, Post(p, m)
    PROVE  DeliveryInv' /\ MovesAll
<1> DEFINE i == mons[m].que
           q == ques[i]
           id == mons[m].id
<1>1. PICK mask \in Masks :
        LET log == [data |-> mons[m].data, value |-> mons[m].posted + 1, mask |-> mask]
        IN  /\ PostOutcome(q, flow_on, id, log) # "Closed"
            /\ ques' = [ques EXCEPT ![i] = post(@, flow_on, id, log)]
            /\ mons' = [mons EXCEPT ![m].posted = @ + 1, ![m].owed = @ \cup mask]
    BY DEF Post
<1> DEFINE log == [data |-> mons[m].data, value |-> mons[m].posted + 1, mask |-> mask]
           r == post(q, flow_on, id, log)
           n == [mons[m] EXCEPT !.posted = @ + 1, !.owed = @ \cup mask]
<1>2. /\ mons[m] \in Monitor /\ i \in DOMAIN ques /\ id \in AttachId /\ QueOK(q)
      /\ MonOK(q, mons[m]) /\ mons \in Seq(Monitor) /\ flow_on \in BOOLEAN
    BY MonsFacts DEF DeliveryInv, IInv, TypeOK
<1>3. mask \in SUBSET Classes BY RunAssumption
<1>4. log \in PostLog BY <1>2, <1>3, MonType DEF PostLog
<1>5. PostOutcome(q, flow_on, id, log) # "Closed" /\ ques' = [ques EXCEPT ![i] = r] BY <1>1
<1>6. mons' = [mons EXCEPT ![m] = n] BY <1>1, <1>2
<1>7. n.que = i /\ n.id = id /\ Posted(mons[m], mask, n) BY <1>2 DEF Monitor, Posted
<1>8. log.data = mons[m].data /\ log.value = mons[m].posted + 1 /\ log.mask = mask OBVIOUS
<1> HIDE DEF n
<1>9. MonOK(r, n) BY <1>2, <1>3, <1>5, <1>7, PostOwn
<1> HIDE DEF log, q
<1>10. Serves(q, mons[m], r, n) BY <1>2, <1>4, <1>5, <1>7, <1>8, PostServes
<1>11. ASSUME NEW x \in DOMAIN mons, mons[x].id # id, mons[x].que = i
       PROVE  Moves(q, mons[x], r, mons[x])
  <2>1. mons[x] \in Monitor /\ MonOK(q, mons[x]) BY <1>11, MonsFacts DEF DeliveryInv, q
  <2>2. MonOK(r, mons[x]) BY <1>2, <1>4, <1>5, <1>11, <2>1, PostOthers
  <2>3. Serves(q, mons[x], r, mons[x]) BY <1>2, <1>4, <1>5, <1>11, <2>1, PostServes
  <2> QED BY <2>2, <2>3 DEF Moves
<1>12. SubsKept(q, r) BY <1>2, <1>4, <1>5, PostKeeps
<1> HIDE DEF r
<1> QED BY <1>5, <1>6, <1>7, <1>9, <1>10, <1>11, <1>12, OneMonitor DEF Moves, q

\* The consumer delivers the head of a queue, or drops it with its monitor.
LEMMA TakeMoves ==
    ASSUME IInv, IInv', DeliveryInv, PollEvent \/ DropCancelled
    PROVE  DeliveryInv' /\ MovesAll
<1> DEFINE q == ques[at]
           e == HeadEntry(q)
           m == e.id.gen
           r == advance(q)
           owed == {c \in mons[m].owed : c \in e.log.mask => Carried(ques'[at], e.id, c)}
           n == IF HeadLive(q) THEN [mons[m] EXCEPT !.seen = Reach(mons[m], e.log), !.owed = owed]
                ELSE mons[m]
<1>1. q.used > 0 /\ at \in DOMAIN ques /\ QueOK(q) /\ mons \in Seq(Monitor)
    BY TakeEffect, AtFacts, MonsFacts
<1>2. /\ q \in QueInner /\ Live(q, e.id) /\ e.id.slot \in Attached(q) /\ q.subs[e.id.slot].id = e.id
      /\ e.id \in AttachId
    BY <1>1, HeadFacts DEF Pending, Live
<1>3. m \in DOMAIN mons /\ mons[m].que = at /\ mons[m].id = e.id BY <1>1, <1>2, SlotMonitor
<1>4. mons[m] \in Monitor /\ MonOK(q, mons[m]) BY <1>3, MonsFacts DEF DeliveryInv
<1>5. ques' = [ques EXCEPT ![at] = r] BY DEF PollEvent, DropCancelled
<1>6. ques'[at] = r /\ Advances(q, r)
  <2>1. ques'[at] = r BY <1>1, <1>5, OneQueue
  <2> QED BY <1>1, <2>1, AdvanceFields
<1>7. QueOK(r)
  <2>1. at \in DOMAIN ques' BY <1>1, <1>5, OneQueue
  <2>2. QueOK(ques'[at]) BY <2>1 DEF IInv, ChainOK
  <2> QED BY <1>6, <2>2
<1> HIDE DEF r
<1>8. mons' = [mons EXCEPT ![m] = n]
  <2>1. CASE PollEvent
    <3>1. mons' = [mons EXCEPT ![m].seen = IF is_ref(e.log) THEN mons[m].posted ELSE e.log.value,
                               ![m].owed = {c \in @ : c \in e.log.mask => Carried(ques'[at], e.id, c)}]
        BY <2>1 DEF PollEvent
    <3>2. HeadLive(q) BY <2>1 DEF PollEvent
    <3>3. Reach(mons[m], e.log) = IF is_ref(e.log) THEN mons[m].posted ELSE e.log.value BY DEF Reach
    <3>4. mons' = [mons EXCEPT ![m] = [mons[m] EXCEPT !.seen = Reach(mons[m], e.log), !.owed = owed]]
        BY <1>1, <3>1, <3>3
    <3> QED BY <3>2, <3>4
  <2>2. CASE DropCancelled
    <3>1. mons' = mons /\ ~HeadLive(q) BY <2>2 DEF DropCancelled
    <3> QED BY <1>1, <3>1
  <2> QED BY <2>1, <2>2
<1>9. /\ n.que = at /\ n.id = e.id
      /\ \/ HeadLive(q) /\ Delivered(mons[m], e, r, n)
         \/ ~HeadLive(q) /\ n = mons[m]
  <2>1. CASE HeadLive(q)
    <3> DEFINE y == [mons[m] EXCEPT !.seen = Reach(mons[m], e.log), !.owed = owed]
    <3>1. /\ y.que = mons[m].que /\ y.id = mons[m].id /\ y.data = mons[m].data /\ y.sink = mons[m].sink
          /\ y.reader = mons[m].reader /\ y.posted = mons[m].posted /\ y.ended = mons[m].ended
          /\ y.seen = Reach(mons[m], e.log) /\ y.owed = owed
      <4> HIDE DEF owed, m, e
      <4> QED BY <1>4 DEF Monitor
    <3>2. n = y BY <2>1
    <3>3. owed = {c \in mons[m].owed : c \in e.log.mask => Carried(r, e.id, c)} BY <1>6
    <3> HIDE DEF y, n, owed, m, e
    <3> QED BY <1>3, <2>1, <3>1, <3>2, <3>3 DEF Delivered
  <2>2. CASE ~HeadLive(q) BY <1>3, <2>2
  <2> QED BY <2>1, <2>2
<1> HIDE DEF n, m, q
<1>10. MonOK(r, n) BY <1>1, <1>3, <1>4, <1>6, <1>7, <1>9, AdvanceOwn
<1>11. Serves(q, mons[m], r, n) BY <1>1, <1>3, <1>4, <1>6, <1>9, AdvanceServes
<1>12. ASSUME NEW x \in DOMAIN mons, mons[x].id # mons[m].id, mons[x].que = at
       PROVE  Moves(q, mons[x], r, mons[x])
  <2>1. mons[x] \in Monitor /\ MonOK(q, mons[x]) BY <1>12, MonsFacts DEF DeliveryInv, q
  <2>2. mons[x].id # e.id BY <1>3, <1>12
  <2>3. MonOK(r, mons[x]) BY <1>1, <1>6, <2>1, <2>2, AdvanceOthers
  <2>4. Serves(q, mons[x], r, mons[x]) BY <1>1, <1>6, <2>1, <2>2, AdvanceServes
  <2> QED BY <2>3, <2>4 DEF Moves
<1>13. SubsKept(q, r)
  <2> DEFINE s0 == e.id.slot
             sub == q.subs[s0]
  <2>1. r.subs = [q.subs EXCEPT ![s0] = IF sub.npend - 1 = 0 /\ reader_gone(sub) THEN NoSub
                                        ELSE [sub EXCEPT !.npend = sub.npend - 1]]
      BY <1>6 DEF Advances
  <2>2. s0 \in Slots /\ sub \in SubQ /\ sub # NoSub BY <1>2, SubFacts DEF Attached
  <2>3. [sub EXCEPT !.npend = sub.npend - 1].id = sub.id BY <2>2 DEF SubQ
  <2> HIDE DEF s0
  <2>4. \A x \in Slots : r.subs[x] # NoSub => q.subs[x] # NoSub /\ r.subs[x].id = q.subs[x].id
      BY <1>2, <2>1, <2>2, <2>3 DEF QueInner
  <2> QED BY <2>4 DEF SubsKept, Attached
<1> QED BY <1>3, <1>5, <1>8, <1>9, <1>10, <1>11, <1>12, <1>13, OneMonitor DEF Moves, q

\* A monitor is attached: the next handle, in a free slot of the first queue
\* with room or of a new one.
LEMMA AttachMoves ==
    ASSUME IInv, IInv', DeliveryInv, Attach
    PROVE  DeliveryInv' /\ MovesAll
<1>1. PICK i \in 1 .. (Len(ques) + 1), slot \in Slots, form \in Forms : attach_que(i, slot, form)
    BY DEF Attach
<1> DEFINE chain == IF i > Len(ques) THEN Append(ques, NewQue) ELSE ques
           gen == Len(mons) + 1
           q == chain[i]
           id == [gen |-> gen, slot |-> slot]
           sub == [id |-> id, kind |-> form.kind, npend |-> 0, last |-> 0, gone |-> {}, end_reported |-> FALSE]
           r == try_attach(q, gen, slot, form.kind)
           n == [que |-> i, id |-> id, data |-> form.data, sink |-> TRUE, reader |-> TRUE,
                 posted |-> 0, seen |-> 0, owed |-> {}, ended |-> 0]
<1>2. ques' = [chain EXCEPT ![i] = r] /\ mons' = Append(mons, n) /\ slot \in q.free
    BY <1>1 DEF attach_que
<1>3. Len(ques) \in Nat /\ DOMAIN ques = 1 .. Len(ques) /\ ques \in Seq(QueInner) BY AtFacts DEF IInv, TypeOK
<1>4. /\ chain \in Seq(QueInner) /\ i \in DOMAIN chain /\ DOMAIN ques \subseteq DOMAIN chain
      /\ \A j \in DOMAIN ques : chain[j] = ques[j]
      /\ \A j \in DOMAIN chain \ DOMAIN ques : chain[j] = NewQue
  <2>1. NewQue \in QueInner BY NewQueOK DEF QueOK
  <2>2. CASE i > Len(ques) BY <1>1, <1>3, <2>1, <2>2
  <2>3. CASE ~(i > Len(ques)) BY <1>1, <1>3, <2>3
  <2> QED BY <2>2, <2>3
<1>5. q \in QueInner /\ QueOK(q)
  <2>1. CASE i \in DOMAIN ques BY <1>4, <2>1, AtFacts
  <2>2. CASE i \notin DOMAIN ques BY <1>4, <2>2, NewQueOK DEF QueOK
  <2> QED BY <2>1, <2>2
<1>6. q.subs[slot] = NoSub BY <1>2, <1>5 DEF QueOK, SlotsOK, QuotaCounts, Attached
<1>7. Reslots(q, r, slot, sub) BY <1>5, AttachFields
<1>8. /\ sub.id = id /\ sub.npend = 0 /\ sub.gone = {} /\ sub.end_reported = FALSE
      /\ id.gen = gen /\ id.slot = slot
    OBVIOUS
<1> HIDE DEF chain
<1>9. DOMAIN ques' = DOMAIN chain /\ ques'[i] = r /\ \A j \in DOMAIN chain : j # i => ques'[j] = chain[j]
    BY <1>2, <1>4
<1>10. mons \in Seq(Monitor) /\ Len(mons) \in Nat /\ DOMAIN mons = 1 .. Len(mons) BY MonsFacts
<1>11. /\ DOMAIN mons' = 1 .. gen /\ mons'[gen] = n /\ \A x \in DOMAIN mons : mons'[x] = mons[x]
    BY <1>2, <1>10
<1>12. n.id = id /\ n.que = i OBVIOUS
<1>13. r.subs[slot] = sub /\ \A s \in Slots : s # slot => r.subs[s] = q.subs[s]
    BY <1>5, <1>7 DEF Reslots, QueInner
<1>14. sub # NoSub
  <2>1. QueOK(r) BY <1>9, <1>4 DEF IInv, ChainOK
  <2>2. r.quota = q.quota + EVENT_ENTRIES /\ r.free = q.free \ {slot} BY <1>5 DEF try_attach, QueInner
  <2> HIDE DEF r, sub
  <2>3. slot \in Attached(r) BY <2>1, <2>2 DEF QueOK, SlotsOK, QuotaCounts
  <2> QED BY <1>13, <2>3 DEF Attached
<1>15. MonOK(r, n)
  <2>1. QueOK(r) BY <1>9, <1>4 DEF IInv, ChainOK
  <2>2. n \in Monitor
    <3>1. mons' \in Seq(Monitor) BY DEF IInv, TypeOK
    <3>2. gen \in DOMAIN mons' BY <1>10, <1>11
    <3> HIDE DEF n
    <3> QED BY <1>11, <3>1, <3>2
  <2>3. Live(r, n.id) BY <1>8, <1>12, <1>13, <1>14 DEF Live
  <2>4. n.sink /\ n.reader /\ n.posted = 0 /\ n.seen = 0 /\ n.owed = {} /\ n.ended = 0 OBVIOUS
  <2> HIDE DEF n, r, sub, id
  <2> QED BY <1>8, <1>12, <1>13, <2>1, <2>2, <2>3, <2>4, AttachOwn
<1> HIDE DEF r, n, sub, id, q
<1>16. ASSUME NEW x \in DOMAIN mons
       PROVE  /\ mons'[x].que = mons[x].que /\ mons'[x].id = mons[x].id
              /\ Moves(ques[mons[x].que], mons[x], ques'[mons[x].que], mons'[x])
  <2> DEFINE j == mons[x].que
  <2>1. mons[x] \in Monitor /\ j \in DOMAIN ques /\ MonOK(ques[j], mons[x]) /\ mons'[x] = mons[x]
      BY <1>11, MonsFacts DEF DeliveryInv
  <2>2. Untouched(mons[x], mons[x]) BY DEF Untouched
  <2>3. CASE j = i
    <3>1. ques[j] = q /\ ques'[j] = r BY <1>4, <1>9, <2>1, <2>3 DEF q
    <3>2. mons[x].id # id BY <1>8, <1>10 DEF DeliveryInv
    <3>3. mons[x].id.slot = slot => ~Live(q, mons[x].id) BY <1>6 DEF Live
    <3>4. MonOK(r, mons[x]) BY <1>5, <1>7, <1>8, <2>1, <3>1, <3>2, <3>3, ReslotOthers
    <3>5. Serves(q, mons[x], r, mons[x]) BY <1>7, <2>1, <2>2, ReslotServes
    <3> QED BY <2>1, <3>1, <3>4, <3>5 DEF Moves
  <2>4. CASE j # i
    <3>1. ques'[j] = ques[j] BY <1>4, <1>9, <2>1, <2>4
    <3>2. Serves(ques[j], mons[x], ques[j], mons[x]) BY <2>1, <2>2, ServeFrame
    <3> QED BY <2>1, <3>1, <3>2 DEF Moves
  <2> QED BY <2>3, <2>4
<1>17. MovesAll BY <1>10, <1>11, <1>16 DEF MovesAll
<1>18. ASSUME NEW x \in DOMAIN mons', x \notin DOMAIN mons PROVE x = gen
    BY <1>10, <1>11, <1>18
<1>19. \A x \in DOMAIN mons' : mons'[x].id.gen = x /\ MonOK(ques'[mons'[x].que], mons'[x])
  <2>1. \A x \in DOMAIN mons : mons'[x].id.gen = x /\ MonOK(ques'[mons'[x].que], mons'[x])
      BY <1>16 DEF DeliveryInv, Moves
  <2>2. mons'[gen].id.gen = gen /\ MonOK(ques'[mons'[gen].que], mons'[gen])
      BY <1>8, <1>9, <1>11, <1>12, <1>15
  <2> QED BY <1>18, <2>1, <2>2
<1>20. ASSUME NEW j \in DOMAIN ques', NEW s \in Attached(ques'[j]) PROVE Named(j, s)'
  <2>1. s \in Slots /\ ques'[j].subs[s] # NoSub BY <1>20 DEF Attached
  <2>2. CASE j = i /\ s = slot
    <3>1. ques'[j].subs[s].id = id BY <1>8, <1>9, <1>13, <2>2
    <3>2. gen \in DOMAIN mons' BY <1>10, <1>11
    <3> QED BY <1>8, <1>11, <1>12, <2>2, <3>1, <3>2 DEF Named
  <2>3. CASE ~(j = i /\ s = slot)
    <3>1. chain[j].subs[s] = ques'[j].subs[s] /\ j \in DOMAIN chain BY <1>9, <1>13, <2>1, <2>3 DEF q
    <3>2. j \in DOMAIN ques BY <1>4, <2>1, <3>1, NewQueFields
    <3>3. s \in Attached(ques[j]) /\ ques[j].subs[s] = ques'[j].subs[s] BY <1>4, <2>1, <3>1, <3>2 DEF Attached
    <3>4. Named(j, s) BY <3>2, <3>3 DEF DeliveryInv
    <3> QED BY <1>10, <1>11, <1>16, <3>3, <3>4 DEF Named
  <2> QED BY <2>2, <2>3
<1> QED BY <1>17, <1>19, <1>20 DEF DeliveryInv

\* Every step keeps the monitors' streams, and serves what was promised.
LEMMA DeliveryNext ==
    ASSUME IInv, DeliveryInv, [Next]_vars PROVE DeliveryInv' /\ MovesAll
<1>1. IInv' BY NextInv
<1>2. CASE Attach BY <1>1, <1>2, AttachMoves
<1>3. ASSUME NEW m \in DOMAIN mons, CloseProducer(m) \/ CloseReader(m) PROVE DeliveryInv' /\ MovesAll
    BY <1>3, CloseProducerMoves, CloseReaderMoves
<1>4. ASSUME NEW p \in Producers, NEW m \in DOMAIN mons, Post(p, m) PROVE DeliveryInv' /\ MovesAll
    BY <1>4, PostMoves
<1>5. CASE PollEvent \/ DropCancelled BY <1>1, <1>5, TakeMoves
<1>6. CASE PollEnded BY <1>6, EndedMoves
<1>7. ASSUME NEW p \in Producers, wake_chain(p) PROVE DeliveryInv' /\ MovesAll
  <2> DEFINE i == Head(bursts[p].chain)
  <2>1. /\ i \in DOMAIN ques /\ DOMAIN ques' = DOMAIN ques
        /\ ques'[i] = [ques[i] EXCEPT !.in_burst = FALSE]
        /\ \A j \in DOMAIN ques : j # i => ques'[j] = ques[j]
      BY <1>7, WakeChainEffect
  <2>2. ques[i] \in QueInner BY <2>1, AtFacts
  <2> HIDE DEF i
  <2>3. /\ ques'[i].ring = ques[i].ring /\ ques'[i].getix = ques[i].getix
        /\ ques'[i].subs = ques[i].subs /\ ques'[i].taken = ques[i].taken
      BY <2>1, <2>2 DEF QueInner
  <2>4. mons' = mons BY <1>7 DEF wake_chain
  <2> QED BY <2>1, <2>3, <2>4, NoMonitor
<1>8. CASE ques' = ques /\ mons' = mons BY <1>8, NoMonitor
<1>9. \/ ques' = ques /\ mons' = mons
      \/ Attach \/ PollEvent \/ DropCancelled \/ PollEnded
      \/ \E m \in DOMAIN mons : CloseProducer(m) \/ CloseReader(m)
      \/ \E p \in Producers : wake_chain(p) \/ \E m \in DOMAIN mons : Post(p, m)
    BY DEF Next, Dispatch, Produce, Poll, vars, OwedWake, flow_ctrl_on, flow_ctrl_off,
           FlowReleased, post_reply, BurstWake, Resume, ResumeOther, PollReply, PollBegin,
           PollNothing, ParkNext, ParkLast, close_replies
<1> QED BY <1>2, <1>3, <1>4, <1>5, <1>6, <1>7, <1>8, <1>9

\* The monitors' streams are in order in every reachable state.
THEOREM Deliveries == Spec => []DeliveryInv
<1>1. Init => DeliveryInv
  <2> SUFFICES ASSUME Init PROVE DeliveryInv OBVIOUS
  <2>1. mons = <<>> /\ ques = <<NewQue>> BY DEF Init
  <2>2. Attached(NewQue) = {} BY NewQueFields DEF Attached
  <2>3. \A i \in DOMAIN ques : Attached(ques[i]) = {} BY <2>1, <2>2
  <2>4. DOMAIN mons = {} BY <2>1
  <2> QED BY <2>3, <2>4 DEF DeliveryInv
<1>2. IInv /\ DeliveryInv /\ [Next]_vars => DeliveryInv' BY DeliveryNext
<1> QED BY <1>1, <1>2, Invariance, PTL DEF Spec

\* event_read and C's replace and early drop (event_queue.rs): however posts,
\* replacements, cancels, EVENTS_OFF and polls interleave, a monitor's entries
\* come in the order of their values, all newer than what it saw, and its newest
\* value was delivered or is queued.
THEOREM ValuesInOrder == Spec => []MonitorInOrder
<1>1. IInv /\ DeliveryInv => MonitorInOrder
  <2> SUFFICES ASSUME IInv, DeliveryInv, NEW m \in DOMAIN mons
               PROVE  LET q == ques[mons[m].que]
                      IN  /\ \A p \in Queued(m) : Reaches(m, p) > mons[m].seen
                          /\ \A p, r \in Queued(m) :
                                Age(q, p) < Age(q, r) => Reaches(m, p) < Reaches(m, r)
                          /\ mons[m].reader /\ mons[m].posted > mons[m].seen =>
                                \E p \in Queued(m) : Reaches(m, p) = mons[m].posted
      BY DEF MonitorInOrder
  <2> DEFINE q == ques[mons[m].que]
             mon == mons[m]
             sub == q.subs[mon.id.slot]
  <2>1. /\ MonOK(q, mon) /\ mon \in Monitor /\ QueOK(q) /\ mon.id \in AttachId
        /\ mon.posted \in Nat /\ mon.seen \in Nat
      BY MonsFacts, MonType DEF DeliveryInv
  <2>2. Queued(m) = EntriesOf(q, mon.id) /\ \A p : Reaches(m, p) = Reach(mon, q.ring[p].log)
      BY DEF Queued, Reaches, LogAt, Reach
  <2> HIDE DEF q, mon
  <2>3. \A p \in Queued(m) : Reaches(m, p) > mon.seen BY <2>1, <2>2 DEF MonOK, StreamOK
  <2>4. \A p, r \in Queued(m) : Age(q, p) < Age(q, r) => Reaches(m, p) < Reaches(m, r)
      BY <2>1, <2>2 DEF MonOK, StreamOK
  <2>5. ASSUME mon.reader, mon.posted > mon.seen PROVE \E p \in Queued(m) : Reaches(m, p) = mon.posted
    <3>1. Live(q, mon.id) BY <2>1, <2>5 DEF MonOK, HandleOK
    <3>2. sub.npend \in Nat /\ (sub.npend > 0 => sub.last \in EntriesOf(q, mon.id))
        BY <2>1, <3>1, NpendFacts
    <3>3. sub.npend # 0 BY <2>1, <2>5, <3>1 DEF MonOK, StreamOK
    <3>4. Reach(mon, q.ring[sub.last].log) = mon.posted BY <2>1, <3>1, <3>2, <3>3 DEF MonOK, StreamOK
    <3> QED BY <2>2, <3>2, <3>3, <3>4
  <2> QED BY <2>3, <2>4, <2>5 DEF q, mon
<1> QED BY <1>1, Invariance, Deliveries, PTL

\* set_mask_or and into_log_or (event_queue.rs): no class posted to a monitor
\* is lost with the value it came with, whatever replaced or collapsed it.
THEOREM NoClassLost == Spec => []ClassesNotLost
<1>1. DeliveryInv => ClassesNotLost
  <2> SUFFICES ASSUME DeliveryInv, NEW m \in DOMAIN mons, mons[m].reader
               PROVE  mons[m].owed = UNION {LogAt(m, p).mask : p \in Queued(m)}
      BY DEF ClassesNotLost
  <2>1. \A c : c \in mons[m].owed <=> \E p \in Queued(m) : c \in LogAt(m, p).mask
      BY DEF DeliveryInv, MonOK, OwedOK, Queued, LogAt
  <2> QED BY <2>1
<1> QED BY <1>1, Deliveries, PTL

\* take_ended (event_queue.rs): the end of a stream is reported at most once,
\* with the producer gone, nothing queued and the newest value delivered.
THEOREM EndOnceAndLast == Spec => []EndAfterLast
<1>1. IInv /\ DeliveryInv => EndAfterLast
  <2> SUFFICES ASSUME IInv, DeliveryInv, NEW m \in DOMAIN mons
               PROVE  /\ mons[m].ended <= 1
                      /\ mons[m].ended = 1 => /\ ~mons[m].sink /\ Queued(m) = {}
                                              /\ mons[m].reader => mons[m].seen = mons[m].posted
      BY DEF EndAfterLast
  <2> DEFINE q == ques[mons[m].que]
             mon == mons[m]
             sub == q.subs[mon.id.slot]
  <2>1. MonOK(q, mon) /\ mon \in Monitor /\ QueOK(q) /\ mon.id \in AttachId
      BY MonsFacts DEF DeliveryInv
  <2>2. Queued(m) = EntriesOf(q, mon.id) BY DEF Queued
  <2> HIDE DEF q, mon
  <2>3. CASE Live(q, mon.id)
    <3>1. /\ mon.ended = IF sub.end_reported THEN 1 ELSE 0
          /\ sub.end_reported => sub.npend = 0
          /\ mon.sink <=> ~producer_gone(sub)
        BY <2>1, <2>3 DEF MonOK, HandleOK
    <3>2. (sub.npend = 0 <=> EntriesOf(q, mon.id) = {}) /\ (sub.end_reported => producer_gone(sub))
        BY <2>1, <2>3, NpendFacts
    <3>3. sub.npend = 0 /\ mon.reader => mon.seen = mon.posted BY <2>1, <2>3 DEF MonOK, StreamOK
    <3> QED BY <2>2, <3>1, <3>2, <3>3 DEF q, mon
  <2>4. CASE ~Live(q, mon.id)
    <3>1. ~mon.reader /\ mon.ended \in {0, 1} /\ (mon.ended = 1 => ~mon.sink)
        BY <2>1, <2>4 DEF MonOK, HandleOK
    <3>2. EntriesOf(q, mon.id) = {} BY <2>1, <2>4, EntryFacts
    <3> QED BY <2>2, <3>1, <3>2 DEF q, mon
  <2> QED BY <2>3, <2>4
<1> QED BY <1>1, Invariance, Deliveries, PTL

-----------------------------------------------------------------------------
(* Replies and the updates posted before them.                             *)

\* A reply waits for entries its queues have held, for none of a queue the
\* poll has passed with EVENTS_ON, and for an entry that serves every monitor
\* with a value posted before the reply and not delivered.
ReplyOK(rep, c, ms, past) ==
    /\ \A i \in DOMAIN rep.ahead : /\ rep.ahead[i] <= c[i].taken + c[i].used
                                   /\ i \in past => c[i].taken >= rep.ahead[i]
    /\ \A m \in DOMAIN rep.needs :
        /\ m \in DOMAIN ms
        /\ ms[m].reader /\ ms[m].seen < rep.needs[m] =>
                /\ ms[m].que \in DOMAIN rep.ahead
                /\ Kept(c[ms[m].que], ms[m], rep.ahead[ms[m].que], rep.needs[m])

\* The queues this poll found empty, or is parking on.
Past == {i \in DOMAIN ques : /\ ChainLocked /\ i \notin withheld
                             /\ Offset(i) < step \/ (pc = "park" /\ i = at)}

ReplyInv == \A n \in DOMAIN replies : ReplyOK(replies[n], ques, mons, Past)

\* A reply's fields.
LEMMA ReplyType ==
    ASSUME NEW D, NEW rep \in OwedReply(D)
    PROVE  /\ DOMAIN rep.ahead \subseteq D /\ \A i \in DOMAIN rep.ahead : rep.ahead[i] \in Nat
           /\ \A m \in DOMAIN rep.needs : rep.needs[m] \in Nat
<1>1. rep.ahead \in UNION {[S -> Nat] : S \in SUBSET D} /\ rep.needs \in Seq(Nat) BY DEF OwedReply
<1>2. PICK S \in SUBSET D : rep.ahead \in [S -> Nat] BY <1>1
<1> QED BY <1>1, <1>2

\* A queue of the chain only takes and gains entries.
LEMMA CountsGrow ==
    ASSUME IInv, [Next]_vars
    PROVE  \A i \in DOMAIN ques :
             /\ ques[i].taken \in Nat /\ ques[i].used \in Nat /\ ques'[i].taken \in Nat /\ ques'[i].used \in Nat
             /\ ques'[i].taken >= ques[i].taken
             /\ ques'[i].taken + ques'[i].used >= ques[i].taken + ques[i].used
<1>1. \A i \in DOMAIN ques : ques[i].taken \in Nat /\ ques[i].used \in Nat BY AtFacts DEF QueInner
<1>2. CASE PollEvent \/ DropCancelled
  <2>1. /\ ques[at].used > 0 /\ at \in DOMAIN ques /\ Advances(ques[at], ques'[at])
        /\ \A j \in DOMAIN ques : j # at => ques'[j] = ques[j]
      BY <1>2, TakeEffect
  <2>2. ques'[at].taken = ques[at].taken + 1 /\ ques'[at].used = ques[at].used - 1 BY <2>1 DEF Advances
  <2> QED BY <1>1, <2>1, <2>2
<1>3. CASE ~PollEvent /\ ~DropCancelled BY <1>1, <1>3, PassKept
<1> QED BY <1>2, <1>3

\* A queue is passed as empty, unless EVENTS_OFF withholds it.
LEMMA PastNext ==
    ASSUME IInv, DrainInv, [Next]_vars
    PROVE  \A i \in Past' : i \in DOMAIN ques /\ (i \in Past \/ ques[i].used = 0)
<1> SUFFICES ASSUME NEW i \in Past' PROVE i \in DOMAIN ques /\ (i \in Past \/ ques[i].used = 0)
    OBVIOUS
<1>1. /\ i \in DOMAIN ques' /\ ChainLocked' /\ i \notin withheld'
      /\ Offset(i)' < step' \/ (pc' = "park" /\ i = at')
    BY DEF Past
<1>2. CASE UNCHANGED <<pc, step, reading, withheld>> /\ Len(ques') = Len(ques) /\ DOMAIN ques' = DOMAIN ques
  <2>1. at' = at /\ Offset(i)' = Offset(i) BY <1>2 DEF at, Offset
  <2> QED BY <1>1, <1>2, <2>1 DEF Past, ChainLocked
<1>3. CASE PollBegin
  <2>1. step' = 0 /\ pc' = "walk" /\ ques' = ques /\ reading' = reading BY <1>3 DEF PollBegin, DrainInv
  <2>2. Offset(i)' = Offset(i) BY <2>1 DEF Offset
  <2>3. Offset(i) \in 0 .. (Len(ques) - 1) BY <1>1, <2>1, WalkFacts
  <2> QED BY <1>1, <2>1, <2>2, <2>3
<1>4. CASE PollNothing
  <2>1. /\ ques' = ques /\ step' = step /\ reading' = reading /\ pc \in {"walk", "drain"} /\ ~Takes
        /\ withheld' = IF flow_on THEN withheld \cup {at} ELSE withheld
      BY <1>4 DEF PollNothing
  <2>2. at' = at /\ Offset(i)' = Offset(i) BY <2>1 DEF at, Offset
  <2>3. CASE Offset(i) < step BY <1>1, <2>1, <2>3 DEF Past, ChainLocked
  <2>4. CASE i = at
    <3>1. ~flow_on BY <1>1, <2>1, <2>4
    <3>2. ~(ques[at].used > 0) BY <2>1, <3>1 DEF Takes, may_drain
    <3>3. ques[at].used \in Nat BY AtFacts DEF QueInner
    <3> QED BY <1>1, <2>1, <2>4, <3>2, <3>3
  <2> QED BY <1>1, <2>1, <2>2, <2>3, <2>4
<1>5. CASE ParkNext
  <2>1. /\ ques' = ques /\ step' = step + 1 /\ reading' = reading /\ pc = "park" /\ withheld' = withheld
        /\ pc' = "walk"
      BY <1>5 DEF ParkNext
  <2>2. Offset(i)' = Offset(i) BY <2>1 DEF Offset
  <2>3. Offset(i) \in 0 .. (Len(ques) - 1) /\ step \in Nat /\ (Offset(i) = step => i = at)
      BY <1>1, <2>1, WalkFacts
  <2>4. Offset(i) < step \/ i = at BY <1>1, <2>1, <2>2, <2>3
  <2> QED BY <1>1, <2>1, <2>4 DEF Past, ChainLocked
<1>6. CASE DropCancelled
  <2>1. /\ step' = step /\ reading' = reading /\ pc \in {"walk", "drain"} /\ pc' = "drain"
        /\ withheld' = withheld
      BY <1>6 DEF DropCancelled, Takes
  <2>2. DOMAIN ques' = DOMAIN ques /\ Len(ques') = Len(ques) BY <1>6, TakeEffect
  <2>3. Offset(i)' = Offset(i) BY <2>1, <2>2 DEF Offset
  <2> QED BY <1>1, <2>1, <2>2, <2>3 DEF Past, ChainLocked
<1>7. pc' \in {"walk", "drain", "park"} BY <1>1 DEF ChainLocked
<1>8. CASE Attach BY <1>1, <1>8 DEF Attach, consumerVars, ChainLocked
<1>9. ASSUME NEW m \in DOMAIN mons, CloseProducer(m) \/ CloseReader(m)
      PROVE  UNCHANGED <<pc, step, reading, withheld>> /\ Len(ques') = Len(ques) /\ DOMAIN ques' = DOMAIN ques
    BY <1>9, CloseProducerEffect, CloseReaderEffect DEF CloseProducer, CloseReader, consumerVars
<1>10. ASSUME NEW p \in Producers, wake_chain(p) \/ \E m \in DOMAIN mons : Post(p, m)
       PROVE  UNCHANGED <<pc, step, reading, withheld>> /\ Len(ques') = Len(ques) /\ DOMAIN ques' = DOMAIN ques
    BY <1>10, WakeChainEffect, PostEffect DEF wake_chain, Post, consumerVars
<1>11. \/ UNCHANGED <<pc, step, reading, withheld, ques>>
       \/ Attach \/ PollBegin \/ PollNothing \/ ParkNext \/ DropCancelled
       \/ \E m \in DOMAIN mons : CloseProducer(m) \/ CloseReader(m)
       \/ \E p \in Producers : wake_chain(p) \/ \E m \in DOMAIN mons : Post(p, m)
    BY <1>7 DEF Next, Dispatch, Produce, Poll, vars, OwedWake, flow_ctrl_on, flow_ctrl_off,
           FlowReleased, post_reply, BurstWake, Resume, ResumeOther, PollReply, PollEvent, PollEnded,
           ParkLast, close_replies, consumerVars
<1> QED BY <1>2, <1>3, <1>4, <1>5, <1>6, <1>8, <1>9, <1>10, <1>11

\* A reply already owed.
LEMMA ReplyKept ==
    ASSUME IInv, DrainInv, DeliveryInv, [Next]_vars, NEW n \in DOMAIN replies,
           ReplyOK(replies[n], ques, mons, Past)
    PROVE  ReplyOK(replies[n], ques', mons', Past')
<1> DEFINE rep == replies[n]
<1>1. rep \in OwedReply(DOMAIN ques) BY DEF IInv, TypeOK
<1>2. /\ DOMAIN rep.ahead \subseteq DOMAIN ques /\ \A i \in DOMAIN rep.ahead : rep.ahead[i] \in Nat
      /\ \A m \in DOMAIN rep.needs : rep.needs[m] \in Nat
    BY <1>1, ReplyType
<1>3. MovesAll BY DeliveryNext
<1> HIDE DEF rep
<1>4. ASSUME NEW i \in DOMAIN rep.ahead
      PROVE  rep.ahead[i] <= ques'[i].taken + ques'[i].used /\ (i \in Past' => ques'[i].taken >= rep.ahead[i])
  <2>1. /\ ques[i].taken \in Nat /\ ques[i].used \in Nat /\ ques'[i].taken \in Nat /\ ques'[i].used \in Nat
        /\ ques'[i].taken >= ques[i].taken
        /\ ques'[i].taken + ques'[i].used >= ques[i].taken + ques[i].used
      BY <1>2, CountsGrow
  <2>2. rep.ahead[i] \in Nat /\ rep.ahead[i] <= ques[i].taken + ques[i].used BY <1>2 DEF ReplyOK, rep
  <2>3. i \in Past => ques[i].taken >= rep.ahead[i] BY DEF ReplyOK, rep
  <2>4. i \in Past' => i \in Past \/ ques[i].used = 0 BY PastNext
  <2> QED BY <2>1, <2>2, <2>3, <2>4
<1>5. ASSUME NEW m \in DOMAIN rep.needs
      PROVE  /\ m \in DOMAIN mons'
             /\ mons'[m].reader /\ mons'[m].seen < rep.needs[m] =>
                    /\ mons'[m].que \in DOMAIN rep.ahead
                    /\ Kept(ques'[mons'[m].que], mons'[m], rep.ahead[mons'[m].que], rep.needs[m])
  <2>1. m \in DOMAIN mons BY DEF ReplyOK, rep
  <2> DEFINE i == mons[m].que
  <2>2. /\ m \in DOMAIN mons' /\ mons'[m].que = i
        /\ Serves(ques[i], mons[m], ques'[i], mons'[m])
      BY <1>3, <2>1 DEF MovesAll, Moves
  <2>3. mons[m].seen \in Nat /\ mons'[m].seen \in Nat
    <3>1. mons[m] \in Monitor BY <2>1, MonsFacts
    <3>2. mons' \in Seq(Monitor) BY NextInv DEF IInv, TypeOK
    <3>3. mons'[m] \in Monitor BY <2>2, <3>2
    <3> QED BY <3>1, <3>3, MonType
  <2>4. ASSUME mons'[m].reader, mons'[m].seen < rep.needs[m]
        PROVE  i \in DOMAIN rep.ahead /\ Kept(ques'[i], mons'[m], rep.ahead[i], rep.needs[m])
    <3>1. mons[m].reader /\ mons'[m].seen >= mons[m].seen BY <2>2, <2>4 DEF Serves
    <3>2. rep.needs[m] \in Nat /\ mons[m].seen < rep.needs[m] BY <1>2, <2>3, <2>4, <3>1
    <3>3. i \in DOMAIN rep.ahead /\ Kept(ques[i], mons[m], rep.ahead[i], rep.needs[m])
        BY <3>1, <3>2 DEF ReplyOK, rep
    <3>4. rep.ahead[i] \in Nat BY <1>2, <3>3
    <3>5. ~(mons'[m].seen >= rep.needs[m]) BY <2>3, <2>4, <3>2
    <3> QED BY <2>2, <2>4, <3>2, <3>3, <3>4, <3>5 DEF Serves
  <2> QED BY <2>2, <2>4
<1> QED BY <1>4, <1>5 DEF ReplyOK, rep

\* A reply just posted.
LEMMA ReplyPosted ==
    ASSUME IInv, DeliveryInv, NEW rep, ~ChainLocked,
           rep = [ahead |-> [i \in {j \in DOMAIN ques : ques[j].used > 0} |-> ques[i].taken + ques[i].used],
                  needs |-> [m \in DOMAIN mons |-> mons[m].posted]]
    PROVE  ReplyOK(rep, ques, mons, {})
<1>1. /\ DOMAIN rep.ahead = {j \in DOMAIN ques : ques[j].used > 0} /\ DOMAIN rep.needs = DOMAIN mons
      /\ \A i \in DOMAIN rep.ahead : rep.ahead[i] = ques[i].taken + ques[i].used
      /\ \A m \in DOMAIN mons : rep.needs[m] = mons[m].posted
    OBVIOUS
<1>2. \A i \in DOMAIN ques : ques[i].taken \in Nat /\ ques[i].used \in Nat BY AtFacts DEF QueInner
<1>3. \A i \in DOMAIN rep.ahead : rep.ahead[i] <= ques[i].taken + ques[i].used BY <1>1, <1>2
<1>4. ASSUME NEW m \in DOMAIN mons, mons[m].reader, mons[m].seen < mons[m].posted
      PROVE  /\ mons[m].que \in DOMAIN rep.ahead
             /\ Kept(ques[mons[m].que], mons[m], rep.ahead[mons[m].que], mons[m].posted)
  <2> DEFINE q == ques[mons[m].que]
             mon == mons[m]
             sub == q.subs[mon.id.slot]
  <2>1. /\ MonOK(q, mon) /\ mon \in Monitor /\ QueOK(q) /\ mon.id \in AttachId /\ mon.que \in DOMAIN ques
        /\ mon.posted \in Nat /\ mon.seen \in Nat
      BY MonsFacts, MonType DEF DeliveryInv
  <2>2. q.taken \in Nat /\ q.used \in Nat BY <1>2, <2>1
  <2> HIDE DEF q, mon
  <2>3. Live(q, mon.id) BY <1>4, <2>1 DEF MonOK, HandleOK, mon
  <2>4. sub.npend \in Nat /\ (sub.npend > 0 => sub.last \in EntriesOf(q, mon.id))
      BY <2>1, <2>3, NpendFacts
  <2>5. sub.npend # 0 BY <1>4, <2>1, <2>3 DEF MonOK, StreamOK, mon
  <2>6. Reach(mon, q.ring[sub.last].log) = mon.posted BY <2>1, <2>3, <2>4, <2>5 DEF MonOK, StreamOK
  <2>7. sub.last \in EntriesOf(q, mon.id) BY <2>4, <2>5
  <2>8. Age(q, sub.last) \in Nat /\ sub.last \in Occupied(q) /\ sub.last \in Places BY <2>1, <2>7, EntryFacts
  <2>9. Age(q, sub.last) < q.used BY <2>1, <2>8 DEF QueOK, RingOK, Contiguous, Occupied
  <2>10. mon.que \in DOMAIN rep.ahead /\ rep.ahead[mon.que] = q.taken + q.used
    <3>1. q.used > 0 BY <2>2, <2>8, <2>9
    <3> QED BY <1>1, <2>1, <3>1 DEF q, mon
  <2>11. q.taken + Age(q, sub.last) < rep.ahead[mon.que] BY <2>2, <2>8, <2>9, <2>10
  <2>12. Kept(q, mon, rep.ahead[mon.que], mon.posted) BY <2>1, <2>6, <2>7, <2>11 DEF Kept
  <2> QED BY <2>10, <2>12 DEF q, mon
<1> QED BY <1>1, <1>3, <1>4 DEF ReplyOK

\* Every step keeps what the owed replies wait for.
LEMMA ReplyNext == ASSUME IInv, DrainInv, DeliveryInv, ReplyInv, [Next]_vars PROVE ReplyInv'
<1>1. replies \in Seq(OwedReply(DOMAIN ques)) BY DEF IInv, TypeOK
<1>2. \A n \in DOMAIN replies : ReplyOK(replies[n], ques', mons', Past') BY ReplyKept DEF ReplyInv
<1>3. CASE post_reply
  <2> DEFINE rep == [ahead |-> [i \in {j \in DOMAIN ques : ques[j].used > 0} |-> ques[i].taken + ques[i].used],
                     needs |-> [m \in DOMAIN mons |-> mons[m].posted]]
  <2>1. ~ChainLocked /\ replies' = Append(replies, rep) /\ ques' = ques /\ mons' = mons /\ pc' = pc
      BY <1>3 DEF post_reply, consumerVars
  <2>2. ReplyOK(rep, ques, mons, {}) BY <2>1, ReplyPosted
  <2> HIDE DEF rep
  <2>3. Past' = {} BY <2>1 DEF Past, ChainLocked
  <2>4. \A n \in DOMAIN replies' : (n \in DOMAIN replies /\ replies'[n] = replies[n]) \/ replies'[n] = rep
      BY <1>1, <2>1
  <2>5. \A n \in DOMAIN replies' : ReplyOK(replies'[n], ques', mons', Past')
      BY <1>2, <2>1, <2>2, <2>3, <2>4
  <2> QED BY <2>5 DEF ReplyInv
<1>4. CASE replies' = Tail(replies) /\ replies # <<>>
  <2>1. \A n \in DOMAIN replies' : n + 1 \in DOMAIN replies /\ replies'[n] = replies[n + 1]
      BY <1>1, <1>4
  <2> QED BY <1>2, <2>1 DEF ReplyInv
<1>5. CASE replies' = <<>> BY <1>5 DEF ReplyInv
<1>6. CASE replies' = replies BY <1>2, <1>6 DEF ReplyInv
<1>7. \/ post_reply
      \/ replies' = Tail(replies) /\ replies # <<>>
      \/ replies' = <<>>
      \/ replies' = replies
    BY DEF Next, Dispatch, Produce, Poll, vars, Attach, CloseProducer, CloseReader,
           OwedWake, flow_ctrl_on, flow_ctrl_off, FlowReleased, Post, wake_chain, BurstWake,
           Resume, ResumeOther, PollReply, reply_due, PollBegin, PollEvent, DropCancelled,
           PollEnded, PollNothing, ParkNext, ParkLast, close_replies
<1> QED BY <1>3, <1>4, <1>5, <1>6, <1>7

\* post_reply and reply_due (event_queue.rs): for every interleaving of posts,
\* replacements, takes and replies over every chain of queues, a reply leaves
\* only after a value at least as new as each one posted before it was delivered
\* to every monitor still read, unless EVENTS_OFF withheld that monitor's queue
\* in the very poll that delivers the reply.
THEOREM RepliesFollowPosts == Spec => ReplyAfterPosts
<1>1. Init => ReplyInv /\ DrainInv
  <2> SUFFICES ASSUME Init PROVE ReplyInv /\ DrainInv OBVIOUS
  <2>1. DOMAIN ques = {1} /\ ques[1] = NewQue /\ step = 0 /\ pc = "poll" /\ replies = <<>> BY DEF Init
  <2> QED BY <2>1, NewQueFields DEF DrainInv, ReplyInv
<1>2. IInv /\ DrainInv /\ DeliveryInv /\ ReplyInv /\ [Next]_vars => DrainInv' /\ ReplyInv'
    BY DrainNext, ReplyNext
<1>3. IInv /\ ReplyInv /\ [Next]_vars =>
        [Len(replies') < Len(replies) /\ ~closed' =>
            \A m \in DOMAIN Head(replies).needs :
                \/ ~mons[m].reader
                \/ mons[m].seen >= Head(replies).needs[m]
                \/ pc = "park" /\ mons[m].que \in withheld]_vars
  <2> SUFFICES ASSUME IInv, ReplyInv, [Next]_vars, Len(replies') < Len(replies), ~closed',
                      NEW m \in DOMAIN Head(replies).needs,
                      mons[m].reader, ~(mons[m].seen >= Head(replies).needs[m])
               PROVE  pc = "park" /\ mons[m].que \in withheld
      OBVIOUS
  <2>1. replies \in Seq(OwedReply(DOMAIN ques)) BY DEF IInv, TypeOK
  <2> DEFINE rep == Head(replies)
             i == mons[m].que
             q == ques[i]
  <2>2. replies # <<>> BY <2>1
  <2>3. 1 \in DOMAIN replies /\ rep = replies[1] /\ rep \in OwedReply(DOMAIN ques) BY <2>1, <2>2
  <2>4. ReplyOK(rep, ques, mons, Past) BY <2>3 DEF ReplyInv
  <2>5. /\ \A j \in DOMAIN rep.ahead : rep.ahead[j] \in Nat
        /\ \A x \in DOMAIN rep.needs : rep.needs[x] \in Nat
      BY <2>3, ReplyType
  <2> HIDE DEF rep
  <2>6. m \in DOMAIN mons /\ m \in DOMAIN rep.needs BY <2>4 DEF ReplyOK, rep
  <2>7. mons[m] \in Monitor /\ i \in DOMAIN ques /\ mons[m].seen \in Nat /\ QueOK(q) /\ q.taken \in Nat
      BY <2>6, MonsFacts, MonType DEF QueOK, QueInner
  <2>8. mons[m].seen < rep.needs[m] BY <2>5, <2>6, <2>7 DEF rep
  <2>9. i \in DOMAIN rep.ahead /\ Kept(q, mons[m], rep.ahead[i], rep.needs[m])
      BY <2>4, <2>6, <2>8 DEF ReplyOK
  <2>10. q.taken < rep.ahead[i]
    <3>1. PICK p \in EntriesOf(q, mons[m].id) : q.taken + Age(q, p) < rep.ahead[i] BY <2>9 DEF Kept
    <3>2. Age(q, p) \in Nat BY <2>7, EntryFacts
    <3> QED BY <2>5, <2>7, <2>9, <3>1, <3>2
  <2>11. ~reply_due BY <2>5, <2>7, <2>9, <2>10 DEF reply_due, rep
  <2>12. ParkLast
    <3>1. PollReply \/ ParkLast \/ close_replies \/ post_reply \/ replies' = replies
        BY DEF Next, Dispatch, Produce, Poll, vars, Attach, CloseProducer, CloseReader,
               OwedWake, flow_ctrl_on, flow_ctrl_off, FlowReleased, Post, wake_chain, BurstWake,
               Resume, ResumeOther, PollBegin, PollEvent, DropCancelled, PollEnded, PollNothing, ParkNext
    <3>2. ~PollReply BY <2>11 DEF PollReply
    <3>3. ~close_replies BY DEF close_replies
    <3>4. ~post_reply
      <4>1. Len(replies) \in Nat BY <2>1
      <4>2. ASSUME NEW x PROVE ~(Len(Append(replies, x)) < Len(replies)) BY <2>1, <4>1
      <4> QED BY <4>2 DEF post_reply
    <3>5. replies' # replies BY <2>1
    <3> QED BY <3>1, <3>2, <3>3, <3>4, <3>5
  <2>13. pc = "park" /\ step + 1 = Len(ques) BY <2>12 DEF ParkLast
  <2>14. Offset(i) < step \/ i = at
    <3>1. Offset(i) \in 0 .. (Len(ques) - 1) /\ step \in Nat /\ (Offset(i) = step => i = at)
        BY <2>7, WalkFacts
    <3>2. Len(ques) \in Nat BY AtFacts
    <3> QED BY <2>13, <3>1, <3>2
  <2>15. i \notin withheld => i \in Past BY <2>7, <2>13, <2>14 DEF Past, ChainLocked
  <2>16. i \notin Past BY <2>4, <2>5, <2>7, <2>9, <2>10 DEF ReplyOK
  <2> QED BY <2>13, <2>15, <2>16
<1> QED BY <1>1, <1>2, <1>3, Invariance, Deliveries, PTL DEF Spec, ReplyAfterPosts
=============================================================================
