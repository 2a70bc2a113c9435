------------------------- MODULE ServerOutputProofs -------------------------
(***************************************************************************)
(* The outbox of a CA circuit for any number of subscriptions and credits: *)
(* no path loses or mints a credit, no more updates wait than there is     *)
(* credit, and no value follows the confirmation of its cancel.  And the   *)
(* PVA server's monitor gate for any number of producers, any capacity and *)
(* watermark, and either consumer: the count is added and subtracted apart *)
(* from the channel, yet never falls short of what waits in it.            *)
(***************************************************************************)
EXTENDS Outbox, MonitorControl, FiniteSetTheorems, FunctionTheorems, TLAPS

Kinds == {"update", "status", "reply", "confirm"}
Frames == [kind : Kinds, sub : Subs \cup {NoSub}, credit : BOOLEAN]

One(b) == IF b THEN 1 ELSE 0

\* The frames u not yet written, the open gates l and the confirmed
\* subscriptions c: an update holds a credit, a confirmation's gate is closed,
\* and no update comes behind its confirmation.
FramesOK(u, l, c) ==
    /\ \A i \in DOMAIN u : /\ u[i].kind = "update" => u[i].credit
                           /\ u[i].kind = "confirm" => u[i].sub \notin l
    /\ c \cap l = {}
    /\ \A i \in DOMAIN u : u[i].kind = "update" =>
            /\ u[i].sub \notin c
            /\ \A j \in 1 .. i - 1 : ~(u[j].kind = "confirm" /\ u[j].sub = u[i].sub)

Types ==
    /\ due \subseteq Subs /\ denied \subseteq Subs /\ attached \subseteq Subs /\ live \subseteq Subs
    /\ credit \in Nat /\ permit \in BOOLEAN
    /\ epc \in {"next", "denied", "read", "reserve", "deliver", "gone"} /\ cur \in Subs \cup {NoSub}
    /\ cpc \in {"idle", "confirm", "detach", "drain", "closed"} /\ target \in Subs \cup {NoSub}
    /\ queue \in Seq(Frames) /\ inflight \in Frames \cup {NoFrame}

\* The event task holds a permit between its reserve and its delivery; the
\* gate of the subscription being cancelled is closed.
Holding ==
    /\ epc = "deliver" => permit
    /\ epc \in {"next", "denied", "reserve", "gone"} => ~permit
    /\ epc = "read" => (permit <=> cur \notin Records)
    /\ epc \notin {"next", "gone"} => cur \in Subs
    /\ cpc \in {"confirm", "detach"} => target \notin live

Conserved == credit + One(permit) + Cardinality(OnCredit(Unwritten)) = Credits

OutboxInv == Types /\ Holding /\ Conserved /\ FramesOK(Unwritten, live, confirmed)

-----------------------------------------------------------------------------
(* Sequences of frames.                                                    *)

\* The frames on credit are finitely many.
LEMMA OnCreditFinite ==
    ASSUME NEW u \in Seq(Frames)
    PROVE  /\ IsFiniteSet(DOMAIN u) /\ IsFiniteSet(OnCredit(u)) /\ Cardinality(OnCredit(u)) \in Nat
           /\ OnCredit(u) \subseteq 1 .. Len(u)
<1>1. DOMAIN u = 1 .. Len(u) /\ Len(u) \in Nat OBVIOUS
<1>2. IsFiniteSet(DOMAIN u) BY <1>1, FS_Interval
<1>3. OnCredit(u) \subseteq DOMAIN u BY DEF OnCredit
<1> QED BY <1>1, <1>2, <1>3, FS_Subset, FS_CardinalityType

\* A frame joins the queue with its credit.
LEMMA OnCreditAppend ==
    ASSUME NEW u \in Seq(Frames), NEW f \in Frames
    PROVE  Cardinality(OnCredit(Append(u, f))) = Cardinality(OnCredit(u)) + One(f.credit)
<1> DEFINE v == Append(u, f)
<1>1. /\ Len(u) \in Nat /\ DOMAIN u = 1 .. Len(u) /\ DOMAIN v = 1 .. Len(u) + 1
      /\ v[Len(u) + 1] = f /\ \A i \in 1 .. Len(u) : v[i] = u[i]
  OBVIOUS
<1> HIDE DEF v
<1>2. Len(u) + 1 \notin OnCredit(u) BY <1>1, OnCreditFinite
<1>3. CASE f.credit
  <2>1. OnCredit(v) = OnCredit(u) \cup {Len(u) + 1} BY <1>1, <1>3 DEF OnCredit
  <2>2. Cardinality(OnCredit(v)) = Cardinality(OnCredit(u)) + 1 BY <2>1, <1>2, OnCreditFinite, FS_AddElement
  <2> QED BY <2>2, <1>3 DEF One, v
<1>4. CASE ~f.credit
  <2>1. OnCredit(v) = OnCredit(u) BY <1>1, <1>4 DEF OnCredit
  <2>2. Cardinality(OnCredit(u)) \in Nat BY OnCreditFinite
  <2> QED BY <2>1, <2>2, <1>4 DEF One, v
<1> QED BY <1>3, <1>4

\* The frame in the writer goes first, with its credit.
LEMMA OnCreditFirst ==
    ASSUME NEW u \in Seq(Frames), NEW f \in Frames
    PROVE  Cardinality(OnCredit(<<f>> \o u)) = Cardinality(OnCredit(u)) + One(f.credit)
<1> DEFINE v == <<f>> \o u
           S == OnCredit(u)
           T == {i + 1 : i \in S}
           g == [i \in S |-> i + 1]
<1>1. /\ Len(u) \in Nat /\ DOMAIN u = 1 .. Len(u) /\ DOMAIN v = 1 .. Len(u) + 1
      /\ v[1] = f /\ \A i \in 1 .. Len(u) : v[i + 1] = u[i]
  OBVIOUS
<1> HIDE DEF v
<1>2. S \subseteq 1 .. Len(u) /\ IsFiniteSet(S) /\ Cardinality(S) \in Nat BY OnCreditFinite
<1>3. IsFiniteSet(T) /\ Cardinality(T) = Cardinality(S) /\ 1 \notin T
  <2>1. \A i \in S : i \in Nat /\ i >= 1 BY <1>1, <1>2
  <2> HIDE DEF S
  <2>2. g \in Bijection(S, T)
    <3>1. g \in [S -> T] OBVIOUS
    <3>2. \A i, j \in S : g[i] = g[j] => i = j BY <2>1
    <3>3. \A t \in T : \E i \in S : g[i] = t OBVIOUS
    <3> QED BY <3>1, <3>2, <3>3, Fun_IsBij
  <2>3. ExistsBijection(S, T) BY <2>2 DEF ExistsBijection
  <2>4. 1 \notin T BY <2>1
  <2> QED BY <2>3, <2>4, <1>2, FS_Bijection
<1>4. CASE f.credit
  <2>1. OnCredit(v) = T \cup {1}
    <3>1. ASSUME NEW i \in OnCredit(v) PROVE i \in T \cup {1}
      <4>1. i \in 1 .. Len(u) + 1 /\ v[i].credit BY <3>1, <1>1 DEF OnCredit
      <4>2. CASE i # 1
        <5>1. i - 1 \in 1 .. Len(u) /\ i = (i - 1) + 1 BY <4>1, <4>2, <1>1
        <5>2. v[i] = u[i - 1] BY <5>1, <1>1
        <5>3. i - 1 \in S BY <5>1, <5>2, <4>1, <1>1 DEF OnCredit
        <5> QED BY <5>1, <5>3
      <4> QED BY <4>2
    <3>2. \A i \in T \cup {1} : i \in OnCredit(v)
      <4>1. 1 \in OnCredit(v) BY <1>1, <1>4 DEF OnCredit
      <4>2. \A i \in S : i + 1 \in OnCredit(v) BY <1>1, <1>2 DEF OnCredit
      <4> QED BY <4>1, <4>2
    <3> QED BY <3>1, <3>2
  <2>2. Cardinality(OnCredit(v)) = Cardinality(S) + 1 BY <2>1, <1>3, FS_AddElement
  <2> QED BY <2>2, <1>4 DEF One, v
<1>5. CASE ~f.credit
  <2>1. OnCredit(v) = T
    <3>1. ASSUME NEW i \in OnCredit(v) PROVE i \in T
      <4>1. i \in 1 .. Len(u) + 1 /\ v[i].credit BY <3>1, <1>1 DEF OnCredit
      <4>2. i # 1 BY <4>1, <1>1, <1>5
      <4>3. i - 1 \in 1 .. Len(u) /\ i = (i - 1) + 1 BY <4>1, <4>2, <1>1
      <4>4. v[i] = u[i - 1] BY <4>3, <1>1
      <4>5. i - 1 \in S BY <4>1, <4>3, <4>4, <1>1 DEF OnCredit
      <4> QED BY <4>3, <4>5
    <3>2. \A i \in S : i + 1 \in OnCredit(v) BY <1>1, <1>2 DEF OnCredit
    <3> QED BY <3>1, <3>2
  <2>2. Cardinality(OnCredit(v)) = Cardinality(S) BY <2>1, <1>3
  <2> HIDE DEF S
  <2>3. Cardinality(OnCredit(v)) = Cardinality(S) + One(f.credit) BY <2>2, <1>2, <1>5 DEF One
  <2> QED BY <2>3 DEF S, v
<1> QED BY <1>4, <1>5

\* Nothing is on credit in nothing.
LEMMA OnCreditNone == Cardinality(OnCredit(<<>>)) = 0
<1>1. OnCredit(<<>>) = {} BY DEF OnCredit
<1> QED BY <1>1, FS_EmptySet

\* Frames stay in order when gates close.
LEMMA FramesKept ==
    ASSUME NEW u, NEW l, NEW c, FramesOK(u, l, c), NEW m, m \subseteq l
    PROVE  FramesOK(u, m, c)
BY DEF FramesOK

\* A frame may join at the end: an update of an open gate, on credit; a
\* confirmation of a closed one; anything else.
LEMMA FramesAppend ==
    ASSUME NEW u \in Seq(Frames), NEW l, NEW c, FramesOK(u, l, c), NEW f \in Frames,
           f.kind = "update" => f.credit /\ f.sub \in l,
           f.kind = "confirm" => f.sub \notin l
    PROVE  FramesOK(Append(u, f), l, c)
<1> DEFINE v == Append(u, f)
<1>1. /\ Len(u) \in Nat /\ DOMAIN u = 1 .. Len(u) /\ DOMAIN v = 1 .. Len(u) + 1
      /\ v[Len(u) + 1] = f /\ \A i \in 1 .. Len(u) : v[i] = u[i]
  OBVIOUS
<1> HIDE DEF v
<1>2. \A i \in DOMAIN v : i \in DOMAIN u \/ i = Len(u) + 1 BY <1>1
<1>3. \A i \in DOMAIN v : /\ v[i].kind = "update" => v[i].credit
                          /\ v[i].kind = "confirm" => v[i].sub \notin l
  BY <1>1, <1>2 DEF FramesOK
<1>4. ASSUME NEW i \in DOMAIN v, v[i].kind = "update"
      PROVE  /\ v[i].sub \notin c
             /\ \A j \in 1 .. i - 1 : ~(v[j].kind = "confirm" /\ v[j].sub = v[i].sub)
  <2>1. CASE i \in DOMAIN u
    <3>1. \A j \in 1 .. i - 1 : j \in 1 .. Len(u) BY <2>1, <1>1
    <3> QED BY <2>1, <3>1, <1>1, <1>4 DEF FramesOK
  <2>2. CASE i = Len(u) + 1
    <3>1. v[i] = f /\ f.sub \in l BY <2>2, <1>1, <1>4
    <3>2. \A j \in 1 .. i - 1 : j \in DOMAIN u /\ v[j] = u[j] BY <2>2, <1>1
    <3> QED BY <3>1, <3>2 DEF FramesOK
  <2> QED BY <2>1, <2>2, <1>2
<1>5. FramesOK(v, l, c) BY <1>3, <1>4 DEF FramesOK
<1> QED BY <1>5 DEF v

\* The first frame is written: a confirmation is then on the wire, with no
\* update of its subscription behind it.
LEMMA FramesWritten ==
    ASSUME NEW u \in Seq(Frames), NEW l, NEW c, NEW f \in Frames, FramesOK(<<f>> \o u, l, c)
    PROVE  FramesOK(u, l, IF f.kind = "confirm" THEN c \cup {f.sub} ELSE c)
<1> DEFINE v == <<f>> \o u
           d == IF f.kind = "confirm" THEN c \cup {f.sub} ELSE c
<1>1. /\ Len(u) \in Nat /\ DOMAIN u = 1 .. Len(u) /\ DOMAIN v = 1 .. Len(u) + 1
      /\ v[1] = f /\ \A i \in 1 .. Len(u) : v[i + 1] = u[i]
  OBVIOUS
<1>2. FramesOK(v, l, c) OBVIOUS
<1> HIDE DEF v
<1>3. \A i \in DOMAIN u : i + 1 \in DOMAIN v /\ v[i + 1] = u[i] BY <1>1
<1>4. \A i \in DOMAIN u : /\ u[i].kind = "update" => u[i].credit
                          /\ u[i].kind = "confirm" => u[i].sub \notin l
  BY <1>2, <1>3 DEF FramesOK
<1>5. d \cap l = {}
  <2>1. 1 \in DOMAIN v /\ v[1] = f BY <1>1
  <2> QED BY <2>1, <1>2 DEF FramesOK
<1>6. ASSUME NEW i \in DOMAIN u, u[i].kind = "update"
      PROVE  /\ u[i].sub \notin d
             /\ \A j \in 1 .. i - 1 : ~(u[j].kind = "confirm" /\ u[j].sub = u[i].sub)
  <2>1. i + 1 \in DOMAIN v /\ v[i + 1] = u[i] BY <1>3
  <2>2. /\ u[i].sub \notin c
        /\ \A j \in 1 .. (i + 1) - 1 : ~(v[j].kind = "confirm" /\ v[j].sub = u[i].sub)
    BY <2>1, <1>2, <1>6 DEF FramesOK
  <2>3. 1 \in 1 .. (i + 1) - 1 BY <1>1
  <2>4. \A j \in 1 .. i - 1 : j + 1 \in 1 .. (i + 1) - 1 /\ v[j + 1] = u[j] BY <1>1
  <2>5. ~(f.kind = "confirm" /\ f.sub = u[i].sub) BY <2>2, <2>3, <1>1
  <2> QED BY <2>2, <2>4, <2>5
<1> HIDE DEF d
<1>7. FramesOK(u, l, d) BY <1>4, <1>5, <1>6 DEF FramesOK
<1> QED BY <1>7 DEF d

-----------------------------------------------------------------------------
(* What a step does to the frames not yet written.                         *)

\* No frame is the absent one.
LEMMA FramePresent == \A f \in Frames : f # NoFrame
BY DEF Frames, Kinds, NoFrame

\* The frames not yet written are frames.
LEMMA UnwrittenFacts ==
    ASSUME Types
    PROVE  /\ Unwritten \in Seq(Frames)
           /\ inflight # NoFrame => inflight \in Frames /\ Unwritten = <<inflight>> \o queue
           /\ inflight = NoFrame => Unwritten = queue
<1>1. CASE inflight = NoFrame BY <1>1 DEF Types, Unwritten
<1>2. CASE inflight # NoFrame
  <2>1. inflight \in Frames /\ queue \in Seq(Frames) BY <1>2 DEF Types
  <2>2. <<inflight>> \in Seq(Frames) BY <2>1
  <2>3. <<inflight>> \o queue \in Seq(Frames) BY <2>1, <2>2
  <2> QED BY <1>2, <2>1, <2>3 DEF Unwritten
<1> QED BY <1>1, <1>2

\* A frame that joins the queue with its credit, or whose credit goes back.
LEMMA Pushes ==
    ASSUME OutboxInv, NEW f \in Frames,
           f.kind = "update" => f.credit /\ f.sub \in live,
           f.kind = "confirm" => f.sub \notin live,
           queue' = Append(queue, f), inflight' = inflight, live' = live, confirmed' = confirmed,
           credit' \in Nat, permit' \in BOOLEAN,
           credit' + One(permit') + One(f.credit) = credit + One(permit)
    PROVE  /\ queue' \in Seq(Frames) /\ inflight' \in Frames \cup {NoFrame}
           /\ Conserved' /\ FramesOK(Unwritten, live, confirmed)'
<1>1. Types /\ Conserved /\ FramesOK(Unwritten, live, confirmed) BY DEF OutboxInv
<1>2. queue \in Seq(Frames) /\ credit \in Nat /\ inflight \in Frames \cup {NoFrame} BY <1>1 DEF Types
<1>3. Unwritten \in Seq(Frames) BY <1>1, UnwrittenFacts
<1>4. Unwritten' = Append(Unwritten, f)
  <2>1. CASE inflight = NoFrame BY <2>1 DEF Unwritten
  <2>2. CASE inflight # NoFrame
    <3>1. inflight \in Frames BY <2>2, <1>2
    <3>2. <<inflight>> \o Append(queue, f) = Append(<<inflight>> \o queue, f) BY <3>1, <1>2
    <3> QED BY <2>2, <3>2 DEF Unwritten
  <2> QED BY <2>1, <2>2
<1>5. FramesOK(Append(Unwritten, f), live, confirmed) BY <1>1, <1>3, FramesAppend
<1>6. Conserved'
  <2>1. Cardinality(OnCredit(Unwritten')) = Cardinality(OnCredit(Unwritten)) + One(f.credit)
    BY <1>3, <1>4, OnCreditAppend
  <2>2. Cardinality(OnCredit(Unwritten)) \in Nat BY <1>3, OnCreditFinite
  <2>3. One(permit) \in Nat /\ One(permit') \in Nat /\ One(f.credit) \in Nat BY DEF One
  <2>4. credit' + One(permit') + Cardinality(OnCredit(Unwritten')) = Credits
    BY <2>1, <2>2, <2>3, <1>1, <1>2 DEF Conserved
  <2> QED BY <2>4 DEF Conserved
<1> QED BY <1>2, <1>4, <1>5, <1>6

\* A step that leaves the frames alone and gives back what it spends.
LEMMA Leaves ==
    ASSUME OutboxInv, queue' = queue, inflight' = inflight, live' \subseteq live, confirmed' = confirmed,
           credit' \in Nat, permit' \in BOOLEAN,
           credit' + One(permit') = credit + One(permit)
    PROVE  /\ queue' \in Seq(Frames) /\ inflight' \in Frames \cup {NoFrame}
           /\ Conserved' /\ FramesOK(Unwritten, live, confirmed)'
<1>1. Types /\ Conserved /\ FramesOK(Unwritten, live, confirmed) BY DEF OutboxInv
<1>2. queue \in Seq(Frames) /\ credit \in Nat /\ inflight \in Frames \cup {NoFrame} BY <1>1 DEF Types
<1>3. Unwritten' = Unwritten BY DEF Unwritten
<1>4. FramesOK(Unwritten, live', confirmed) BY <1>1, FramesKept
<1>5. Cardinality(OnCredit(Unwritten)) \in Nat BY <1>1, UnwrittenFacts, OnCreditFinite
<1>6. One(permit) \in Nat /\ One(permit') \in Nat BY DEF One
<1>7. credit' + One(permit') + Cardinality(OnCredit(Unwritten')) = Credits
  BY <1>1, <1>2, <1>3, <1>5, <1>6 DEF Conserved
<1> QED BY <1>2, <1>3, <1>4, <1>7 DEF Conserved

\* `deliver` under the gate: the frame is queued with the credit it holds, or
\* is discarded and the credit goes back.
LEMMA GateDelivers ==
    ASSUME OutboxInv, NEW f \in Frames, gate_deliver(cur, f), f.sub = cur,
           f.kind \in {"update", "status"}, f.kind = "update" => f.credit, f.credit <=> permit,
           permit' = FALSE, inflight' = inflight, live' = live, confirmed' = confirmed
    PROVE  /\ queue' \in Seq(Frames) /\ inflight' \in Frames \cup {NoFrame} /\ credit' \in Nat
           /\ Conserved' /\ FramesOK(Unwritten, live, confirmed)'
<1>1. credit \in Nat /\ permit \in BOOLEAN BY DEF OutboxInv, Types
<1>2. One(permit') = 0 /\ One(f.credit) = One(permit) /\ One(permit) \in Nat BY DEF One
<1>3. CASE cur \in live /\ Open
  <2>1. queue' = Append(queue, f) /\ credit' = credit BY <1>3 DEF gate_deliver, push_with
  <2>2. credit' + One(permit') + One(f.credit) = credit + One(permit) BY <2>1, <1>1, <1>2
  <2>3. f.kind # "confirm" OBVIOUS
  <2>4. permit' \in BOOLEAN OBVIOUS
  <2> QED BY <2>1, <2>2, <2>3, <2>4, <1>1, <1>3, Pushes
<1>4. CASE ~(cur \in live /\ Open)
  <2>1. queue' = queue /\ credit' = (IF f.credit THEN credit + 1 ELSE credit)
    BY <1>4 DEF gate_deliver, push_with
  <2>2. credit' \in Nat /\ credit' + One(permit') = credit + One(permit) BY <2>1, <1>1, <1>2 DEF One
  <2>3. permit' \in BOOLEAN OBVIOUS
  <2> QED BY <2>1, <2>2, <2>3, Leaves
<1> QED BY <1>3, <1>4

-----------------------------------------------------------------------------
(* One lemma per action.                                                   *)

\* A frame the code builds is a frame.
LEMMA FrameFacts ==
    ASSUME NEW k \in Kinds, NEW s \in Subs \cup {NoSub}, NEW c \in BOOLEAN
    PROVE  /\ Frame(k, s, c) \in Frames
           /\ Frame(k, s, c).kind = k /\ Frame(k, s, c).sub = s /\ Frame(k, s, c).credit = c
BY DEF Frame, Frames

\* A post or a denial touches the ring only.
LEMMA PostKeeps ==
    ASSUME OutboxInv, NEW s \in Subs, Post(s) \/ Deny(s) \/ Regain(s)
    PROVE  OutboxInv'
<1>1. /\ due' = due \cup {s} /\ denied' \subseteq denied \cup {s} /\ attached' = attached /\ live' = live
      /\ queue' = queue /\ credit' = credit /\ epc' = epc /\ cur' = cur /\ permit' = permit
      /\ cpc' = cpc /\ target' = target /\ inflight' = inflight /\ confirmed' = confirmed
  BY DEF Post, Deny, Regain, eventVars, loopVars, counts
<1>2. credit' \in Nat /\ permit' \in BOOLEAN BY <1>1 DEF OutboxInv, Types
<1>3. /\ queue' \in Seq(Frames) /\ inflight' \in Frames \cup {NoFrame}
      /\ Conserved' /\ FramesOK(Unwritten, live, confirmed)'
  BY <1>1, <1>2, Leaves DEF One
<1>4. Types' BY <1>1, <1>2, <1>3 DEF OutboxInv, Types
<1>5. Holding' BY <1>1 DEF OutboxInv, Holding
<1> QED BY <1>3, <1>4, <1>5 DEF OutboxInv

\* poll_next.
LEMMA TakeKeeps ==
    ASSUME OutboxInv, NEW s \in Subs, Take(s)
    PROVE  OutboxInv'
<1>1. /\ epc = "next" /\ due' = due \ {s} /\ cur' = s
      /\ epc' = (IF s \in denied THEN "denied" ELSE IF s \in Records THEN "read" ELSE "reserve")
      /\ denied' = denied /\ attached' = attached /\ live' = live
      /\ queue' = queue /\ credit' = credit /\ permit' = permit
      /\ cpc' = cpc /\ target' = target /\ inflight' = inflight /\ confirmed' = confirmed
  BY DEF Take, loopVars
<1>2. credit' \in Nat /\ permit' \in BOOLEAN BY <1>1 DEF OutboxInv, Types
<1>3. /\ queue' \in Seq(Frames) /\ inflight' \in Frames \cup {NoFrame}
      /\ Conserved' /\ FramesOK(Unwritten, live, confirmed)'
  BY <1>1, <1>2, Leaves
<1>4. Types' BY <1>1, <1>2, <1>3 DEF OutboxInv, Types
<1>5. ~permit BY <1>1 DEF OutboxInv, Holding
<1>6. Holding' BY <1>1, <1>5 DEF OutboxInv, Holding
<1> QED BY <1>3, <1>4, <1>6 DEF OutboxInv

\* A put-notify reply.
LEMMA PassReplyKeeps ==
    ASSUME OutboxInv, PassReply
    PROVE  OutboxInv'
<1> DEFINE f == Frame("reply", NoSub, FALSE)
<1>1. /\ due' = due /\ denied' = denied /\ attached' = attached /\ live' = live
      /\ epc' = epc /\ cur' = cur /\ permit' = permit
      /\ cpc' = cpc /\ target' = target /\ inflight' = inflight /\ confirmed' = confirmed
  BY DEF PassReply, ringVars, eventVars, loopVars
<1>2. push_with(f) BY DEF PassReply
<1>3. "reply" \in Kinds /\ NoSub \in Subs \cup {NoSub} /\ FALSE \in BOOLEAN BY DEF Kinds
<1>4. f \in Frames /\ f.kind = "reply" /\ f.credit = FALSE BY <1>3, FrameFacts
<1> HIDE DEF f
<1>5. credit' = credit /\ (queue' = queue \/ queue' = Append(queue, f))
  BY <1>2, <1>4 DEF push_with
<1>6. credit' \in Nat /\ permit' \in BOOLEAN BY <1>1, <1>5 DEF OutboxInv, Types
<1>7. /\ queue' \in Seq(Frames) /\ inflight' \in Frames \cup {NoFrame}
      /\ Conserved' /\ FramesOK(Unwritten, live, confirmed)'
  <2>1. CASE queue' = queue BY <2>1, <1>1, <1>5, <1>6, Leaves
  <2>2. CASE queue' = Append(queue, f)
    <3>1. One(f.credit) = 0 /\ One(permit) \in Nat /\ One(permit') = One(permit) BY <1>1, <1>4 DEF One
    <3>2. credit' + One(permit') + One(f.credit) = credit + One(permit) BY <3>1, <1>5, <1>6
    <3> QED BY <2>2, <3>2, <1>1, <1>4, <1>6, Pushes
  <2> QED BY <2>1, <2>2, <1>5
<1>8. Types' BY <1>1, <1>6, <1>7 DEF OutboxInv, Types
<1>9. Holding' BY <1>1 DEF OutboxInv, Holding
<1> QED BY <1>7, <1>8, <1>9 DEF OutboxInv

\* The event task goes back to its ring with nothing in hand.
LEMMA DoneKeeps ==
    ASSUME OutboxInv, Done, due' = due, denied' = denied, attached' = attached, live' = live,
           cpc' = cpc, target' = target, credit' \in Nat,
           queue' \in Seq(Frames), inflight' \in Frames \cup {NoFrame},
           Conserved', FramesOK(Unwritten, live, confirmed)'
    PROVE  OutboxInv'
<1>1. epc' = "next" /\ cur' = NoSub /\ permit' = FALSE BY DEF Done
<1>2. Types' BY <1>1 DEF OutboxInv, Types
<1>3. Holding' BY <1>1 DEF OutboxInv, Holding
<1> QED BY <1>2, <1>3 DEF OutboxInv

\* send_denied_event and the delivery of an update, under the gate.
LEMMA DeliverKeeps ==
    ASSUME OutboxInv, send_denied_event \/ Deliver
    PROVE  OutboxInv'
<1> DEFINE f == IF epc = "denied" THEN Frame("status", cur, FALSE) ELSE Frame("update", cur, permit)
<1>1. /\ epc \in {"denied", "deliver"} /\ Done
      /\ due' = due /\ denied' = denied /\ attached' = attached /\ live' = live
      /\ cpc' = cpc /\ target' = target /\ inflight' = inflight /\ confirmed' = confirmed
  BY DEF send_denied_event, Deliver, ringVars, loopVars
<1>2. gate_deliver(cur, f) BY DEF send_denied_event, Deliver
<1>3. (epc = "deliver" => permit) /\ (epc = "denied" => ~permit) /\ cur \in Subs \cup {NoSub}
      /\ permit \in BOOLEAN
  BY DEF OutboxInv, Holding, Types
<1>4. /\ f \in Frames /\ f.sub = cur /\ f.kind \in {"update", "status"}
      /\ f.kind = "update" => f.credit
      /\ f.credit <=> permit
  <2>1. "status" \in Kinds /\ "update" \in Kinds /\ FALSE \in BOOLEAN BY DEF Kinds
  <2>2. CASE epc = "denied" BY <2>1, <2>2, <1>3, FrameFacts
  <2>3. CASE epc = "deliver" BY <2>1, <2>3, <1>3, FrameFacts
  <2> QED BY <2>2, <2>3, <1>1
<1> HIDE DEF f
<1>5. permit' = FALSE BY <1>1 DEF Done
<1>6. /\ queue' \in Seq(Frames) /\ inflight' \in Frames \cup {NoFrame} /\ credit' \in Nat
      /\ Conserved' /\ FramesOK(Unwritten, live, confirmed)'
  BY <1>1, <1>2, <1>4, <1>5, GateDelivers
<1> QED BY <1>1, <1>6, DoneKeeps

\* A status frame without credit, or nothing; the permit held, if any, goes back.
LEMMA UnsentKeeps ==
    ASSUME OutboxInv, Done, cur \in Subs,
           queue' = queue \/ queue' = Append(queue, Frame("status", cur, FALSE)),
           credit' = credit + One(permit),
           due' = due, denied' = denied, attached' = attached, live' = live,
           cpc' = cpc, target' = target, inflight' = inflight, confirmed' = confirmed
    PROVE  OutboxInv'
<1> DEFINE f == Frame("status", cur, FALSE)
<1>1. "status" \in Kinds /\ FALSE \in BOOLEAN BY DEF Kinds
<1>2. f \in Frames /\ f.kind = "status" /\ f.credit = FALSE BY <1>1, FrameFacts
<1>3. permit' = FALSE BY DEF Done
<1> HIDE DEF f
<1>4. One(permit') = 0 /\ One(f.credit) = 0 /\ One(permit) \in Nat BY <1>2, <1>3 DEF One
<1>5. credit \in Nat BY DEF OutboxInv, Types
<1>6. credit' \in Nat /\ permit' \in BOOLEAN
  <2>1. credit' \in Nat BY <1>4, <1>5
  <2>2. permit' \in BOOLEAN BY <1>3
  <2> QED BY <2>1, <2>2
<1>7. /\ queue' \in Seq(Frames) /\ inflight' \in Frames \cup {NoFrame}
      /\ Conserved' /\ FramesOK(Unwritten, live, confirmed)'
  <2>1. CASE queue' = queue
    <3>1. credit' + One(permit') = credit + One(permit) BY <1>4, <1>5
    <3> QED BY <2>1, <3>1, <1>6, Leaves
  <2>2. CASE queue' = Append(queue, f)
    <3>1. credit' + One(permit') + One(f.credit) = credit + One(permit) BY <1>4, <1>5
    <3> QED BY <2>2, <3>1, <1>2, <1>6, Pushes
  <2> QED BY <2>1, <2>2 DEF f
<1> QED BY <1>6, <1>7, DoneKeeps

\* A read or an encoding that fails.
LEMMA ReadFailsKeeps ==
    ASSUME OutboxInv, ReadFails \/ DeliverUnsent
    PROVE  OutboxInv'
<1>1. /\ epc \in {"read", "deliver"} /\ Done
      /\ due' = due /\ denied' = denied /\ attached' = attached /\ live' = live
      /\ cpc' = cpc /\ target' = target /\ inflight' = inflight /\ confirmed' = confirmed
      /\ queue' = queue \/ queue' = Append(queue, Frame("status", cur, FALSE))
  BY DEF ReadFails, DeliverUnsent, ringVars, loopVars
<1>2. cur \in Subs BY <1>1 DEF OutboxInv, Holding
<1>3. credit' = credit + One(permit)
  <2>1. CASE ReadFails BY <2>1 DEF ReadFails, One
  <2>2. CASE DeliverUnsent
    <3>1. permit BY <2>2 DEF OutboxInv, Holding, DeliverUnsent
    <3> QED BY <2>2, <3>1 DEF DeliverUnsent, One
  <2> QED BY <2>1, <2>2
<1> QED BY <1>1, <1>2, <1>3, UnsentKeeps

\* reserve takes a credit into the task's hand.
LEMMA ReserveKeeps ==
    ASSUME OutboxInv, reserve
    PROVE  OutboxInv'
<1>1. /\ epc = "reserve" /\ credit > 0 /\ credit' = credit - 1 /\ permit' = TRUE
      /\ epc' = (IF cur \in Records THEN "deliver" ELSE "read")
      /\ due' = due /\ denied' = denied /\ attached' = attached /\ live' = live
      /\ queue' = queue /\ cur' = cur
      /\ cpc' = cpc /\ target' = target /\ inflight' = inflight /\ confirmed' = confirmed
  BY DEF reserve, ringVars, loopVars
<1>2. ~permit /\ credit \in Nat BY <1>1 DEF OutboxInv, Holding, Types
<1>3. One(permit') = 1 /\ One(permit) = 0 BY <1>1, <1>2 DEF One
<1>4. credit' \in Nat /\ permit' \in BOOLEAN BY <1>1, <1>2
<1>5. credit' + One(permit') = credit + One(permit) BY <1>1, <1>2, <1>3
<1>6. /\ queue' \in Seq(Frames) /\ inflight' \in Frames \cup {NoFrame}
      /\ Conserved' /\ FramesOK(Unwritten, live, confirmed)'
  BY <1>1, <1>4, <1>5, Leaves
<1>7. Types' BY <1>1, <1>4, <1>6 DEF OutboxInv, Types
<1>8. Holding' BY <1>1 DEF OutboxInv, Holding
<1> QED BY <1>6, <1>7, <1>8 DEF OutboxInv

\* A read that succeeds, or the task aborted where it waits.
LEMMA ReadOkKeeps ==
    ASSUME OutboxInv, ReadOk \/ Abort
    PROVE  OutboxInv'
<1>1. /\ due' = due /\ denied' = denied /\ attached' = attached /\ live' = live
      /\ queue' = queue /\ credit' = credit /\ permit' = permit
      /\ cpc' = cpc /\ target' = target /\ inflight' = inflight /\ confirmed' = confirmed
  BY DEF ReadOk, Abort, ringVars, loopVars
<1>2. credit' \in Nat /\ permit' \in BOOLEAN BY <1>1 DEF OutboxInv, Types
<1>3. /\ queue' \in Seq(Frames) /\ inflight' \in Frames \cup {NoFrame}
      /\ Conserved' /\ FramesOK(Unwritten, live, confirmed)'
  BY <1>1, <1>2, Leaves
<1>4. CASE ReadOk
  <2>1. /\ epc = "read" /\ cur' = cur /\ epc' = (IF cur \in Records THEN "reserve" ELSE "deliver")
    BY <1>4 DEF ReadOk
  <2>2. permit <=> cur \notin Records BY <2>1 DEF OutboxInv, Holding
  <2>3. cur \in Subs BY <2>1 DEF OutboxInv, Holding
  <2>4. Types' BY <2>1, <1>1, <1>2, <1>3 DEF OutboxInv, Types
  <2>5. Holding' BY <2>1, <2>2, <2>3, <1>1 DEF OutboxInv, Holding
  <2> QED BY <2>4, <2>5, <1>3 DEF OutboxInv
<1>5. CASE Abort
  <2>1. epc \in {"next", "reserve"} /\ epc' = "gone" /\ cur' = NoSub BY <1>5 DEF Abort
  <2>2. ~permit BY <2>1 DEF OutboxInv, Holding
  <2>3. Types' BY <2>1, <1>1, <1>2, <1>3 DEF OutboxInv, Types
  <2>4. Holding' BY <2>1, <2>2, <1>1 DEF OutboxInv, Holding
  <2> QED BY <2>3, <2>4, <1>3 DEF OutboxInv
<1> QED BY <1>4, <1>5

\* A cancel closes the gate.
LEMMA RevokeKeeps ==
    ASSUME OutboxInv, NEW s \in Subs, revoke(s)
    PROVE  OutboxInv'
<1>1. /\ denied' = denied /\ due' = due /\ attached' = attached /\ live' = live \ {s}
      /\ queue' = queue /\ credit' = credit /\ epc' = epc /\ cur' = cur /\ permit' = permit
      /\ inflight' = inflight /\ confirmed' = confirmed
      /\ cpc' = "confirm" /\ target' = s
  BY DEF revoke, ringVars, eventVars
<1>2. credit' \in Nat /\ permit' \in BOOLEAN BY <1>1 DEF OutboxInv, Types
<1>3. live' \subseteq live BY <1>1
<1>4. /\ queue' \in Seq(Frames) /\ inflight' \in Frames \cup {NoFrame}
      /\ Conserved' /\ FramesOK(Unwritten, live, confirmed)'
  BY <1>1, <1>2, <1>3, Leaves
<1>5. Types' BY <1>1, <1>2, <1>4 DEF OutboxInv, Types
<1>6. Holding' BY <1>1 DEF OutboxInv, Holding
<1> QED BY <1>4, <1>5, <1>6 DEF OutboxInv

\* The cancelled subscriber leaves the ring.
LEMMA DetachKeeps ==
    ASSUME OutboxInv, Detach
    PROVE  OutboxInv'
<1>1. /\ denied' = denied /\ due' = due \ {target} /\ attached' = attached \ {target} /\ live' = live
      /\ queue' = queue /\ credit' = credit /\ epc' = epc /\ cur' = cur /\ permit' = permit
      /\ inflight' = inflight /\ confirmed' = confirmed
      /\ cpc' = "drain" /\ target' = NoSub
  BY DEF Detach, eventVars
<1>2. credit' \in Nat /\ permit' \in BOOLEAN BY <1>1 DEF OutboxInv, Types
<1>3. /\ queue' \in Seq(Frames) /\ inflight' \in Frames \cup {NoFrame}
      /\ Conserved' /\ FramesOK(Unwritten, live, confirmed)'
  BY <1>1, <1>2, Leaves
<1>4. Types' BY <1>1, <1>2, <1>3 DEF OutboxInv, Types
<1>5. Holding' BY <1>1 DEF OutboxInv, Holding
<1> QED BY <1>3, <1>4, <1>5 DEF OutboxInv

\* The confirmation is queued behind a gate already closed.
LEMMA ConfirmKeeps ==
    ASSUME OutboxInv, Confirm
    PROVE  OutboxInv'
<1> DEFINE f == Frame("confirm", target, FALSE)
<1>1. /\ cpc = "confirm" /\ queue' = Append(queue, f) /\ cpc' = "detach"
      /\ due' = due /\ denied' = denied /\ attached' = attached /\ live' = live /\ credit' = credit
      /\ epc' = epc /\ cur' = cur /\ permit' = permit
      /\ target' = target /\ inflight' = inflight /\ confirmed' = confirmed
  BY DEF Confirm, ringVars, eventVars
<1>2. target \notin live /\ target \in Subs \cup {NoSub} BY <1>1 DEF OutboxInv, Holding, Types
<1>3. "confirm" \in Kinds /\ FALSE \in BOOLEAN BY DEF Kinds
<1>4. f \in Frames /\ f.kind = "confirm" /\ f.sub = target /\ f.credit = FALSE BY <1>2, <1>3, FrameFacts
<1> HIDE DEF f
<1>5. credit' \in Nat /\ permit' \in BOOLEAN BY <1>1 DEF OutboxInv, Types
<1>6. One(f.credit) = 0 /\ One(permit) \in Nat /\ One(permit') = One(permit) BY <1>1, <1>4 DEF One
<1>7. credit' + One(permit') + One(f.credit) = credit + One(permit) BY <1>1, <1>5, <1>6
<1>8. /\ queue' \in Seq(Frames) /\ inflight' \in Frames \cup {NoFrame}
      /\ Conserved' /\ FramesOK(Unwritten, live, confirmed)'
  BY <1>1, <1>2, <1>4, <1>5, <1>7, Pushes
<1>9. Types' BY <1>1, <1>5, <1>8 DEF OutboxInv, Types
<1>10. Holding' BY <1>1, <1>2 DEF OutboxInv, Holding
<1> QED BY <1>8, <1>9, <1>10 DEF OutboxInv

\* The next frame goes from the queue to the writer.
LEMMA TryNextKeeps ==
    ASSUME OutboxInv, TryNext
    PROVE  OutboxInv'
<1>1. /\ inflight = NoFrame /\ cpc' \in {"idle", "drain"}
      /\ due' = due /\ denied' = denied /\ attached' = attached /\ live' = live /\ credit' = credit
      /\ epc' = epc /\ cur' = cur /\ permit' = permit /\ target' = target /\ confirmed' = confirmed
      /\ \/ queue # <<>> /\ inflight' = Head(queue) /\ queue' = Tail(queue)
         \/ inflight' = inflight /\ queue' = queue
  BY DEF TryNext, ringVars, eventVars
<1>2. queue \in Seq(Frames) BY DEF OutboxInv, Types
<1>3. queue' \in Seq(Frames) /\ inflight' \in Frames \cup {NoFrame} /\ Unwritten' = Unwritten
  <2>1. CASE queue # <<>> /\ inflight' = Head(queue) /\ queue' = Tail(queue)
    <3>1. Head(queue) \in Frames /\ Tail(queue) \in Seq(Frames) /\ <<Head(queue)>> \o Tail(queue) = queue
      BY <2>1, <1>2
    <3>2. inflight' # NoFrame BY <3>1, <2>1, FramePresent
    <3> QED BY <3>1, <3>2, <2>1, <1>1 DEF Unwritten
  <2>2. CASE inflight' = inflight /\ queue' = queue BY <2>2, <1>1, <1>2 DEF Unwritten
  <2> QED BY <2>1, <2>2, <1>1
<1>4. Types' BY <1>1, <1>3 DEF OutboxInv, Types
<1>5. Holding' BY <1>1 DEF OutboxInv, Holding
<1>6. Conserved' BY <1>1, <1>3 DEF OutboxInv, Conserved
<1>7. FramesOK(Unwritten, live, confirmed)' BY <1>1, <1>3 DEF OutboxInv
<1> QED BY <1>4, <1>5, <1>6, <1>7 DEF OutboxInv

\* A frame written gives its credit back.
LEMMA WriteKeeps ==
    ASSUME OutboxInv, Write
    PROVE  OutboxInv'
<1>1. /\ inflight # NoFrame /\ inflight' = NoFrame
      /\ credit' = (IF inflight.credit THEN credit + 1 ELSE credit)
      /\ confirmed' = (IF inflight.kind = "confirm" THEN confirmed \cup {inflight.sub} ELSE confirmed)
      /\ due' = due /\ denied' = denied /\ attached' = attached /\ live' = live /\ queue' = queue
      /\ epc' = epc /\ cur' = cur /\ permit' = permit /\ target' = target /\ cpc' = cpc
  BY DEF Write, ringVars, eventVars
<1>2. Types BY DEF OutboxInv
<1>3. queue \in Seq(Frames) /\ credit \in Nat /\ permit \in BOOLEAN BY <1>2 DEF Types
<1>4. inflight \in Frames /\ Unwritten = <<inflight>> \o queue BY <1>1, <1>2, UnwrittenFacts
<1>5. Unwritten' = queue BY <1>1 DEF Unwritten
<1>6. credit' = credit + One(inflight.credit) BY <1>1, <1>3 DEF One
<1>7. One(inflight.credit) \in Nat /\ One(permit) \in Nat /\ One(permit') = One(permit) BY <1>1 DEF One
<1>8. Types' BY <1>1, <1>2, <1>6, <1>7 DEF Types
<1>9. Holding' BY <1>1 DEF OutboxInv, Holding
<1>10. Conserved'
  <2>1. Cardinality(OnCredit(Unwritten)) = Cardinality(OnCredit(queue)) + One(inflight.credit)
    BY <1>3, <1>4, OnCreditFirst
  <2>2. Cardinality(OnCredit(queue)) \in Nat BY <1>3, OnCreditFinite
  <2>3. credit' + One(permit') + Cardinality(OnCredit(Unwritten')) = Credits
    BY <2>1, <2>2, <1>3, <1>5, <1>6, <1>7 DEF OutboxInv, Conserved
  <2> QED BY <2>3 DEF Conserved
<1>11. FramesOK(queue, live, confirmed')
  <2>1. FramesOK(<<inflight>> \o queue, live, confirmed) BY <1>4 DEF OutboxInv
  <2> QED BY <2>1, <1>1, <1>3, <1>4, FramesWritten
<1> QED BY <1>1, <1>5, <1>8, <1>9, <1>10, <1>11 DEF OutboxInv

\* The end of the circuit gives back every credit queued or in the writer.
LEMMA DisconnectKeeps ==
    ASSUME OutboxInv, Disconnect
    PROVE  OutboxInv'
<1>1. /\ live' = {} /\ attached' = {} /\ due' = {} /\ denied' = denied
      /\ credit' = credit + Cardinality(OnCredit(queue)) + One(inflight.credit)
      /\ queue' = <<>> /\ inflight' = NoFrame /\ cpc' = "closed"
      /\ epc' = epc /\ cur' = cur /\ permit' = permit /\ target' = target /\ confirmed' = confirmed
  BY DEF Disconnect, eventVars, One
<1>2. Types BY DEF OutboxInv
<1>3. queue \in Seq(Frames) /\ credit \in Nat /\ permit \in BOOLEAN BY <1>2 DEF Types
<1>4. Cardinality(OnCredit(queue)) \in Nat BY <1>3, OnCreditFinite
<1>5. One(inflight.credit) \in Nat /\ One(permit) \in Nat /\ One(permit') = One(permit) BY <1>1 DEF One
<1>6. Cardinality(OnCredit(Unwritten)) = Cardinality(OnCredit(queue)) + One(inflight.credit)
  <2>1. CASE inflight = NoFrame
    <3>1. One(inflight.credit) = 0 BY <2>1 DEF NoFrame, One
    <3> QED BY <2>1, <3>1, <1>4 DEF Unwritten
  <2>2. CASE inflight # NoFrame BY <2>2, <1>2, <1>3, UnwrittenFacts, OnCreditFirst
  <2> QED BY <2>1, <2>2
<1>7. Unwritten' = <<>> BY <1>1 DEF Unwritten
<1>8. Types'
  <2>1. credit' \in Nat BY <1>1, <1>3, <1>4, <1>5
  <2>2. queue' \in Seq(Frames) BY <1>1
  <2> QED BY <2>1, <2>2, <1>1, <1>2 DEF Types
<1>9. Holding' BY <1>1 DEF OutboxInv, Holding
<1>10. Conserved'
  <2>1. credit' + One(permit') + Cardinality(OnCredit(Unwritten')) = Credits
    BY <1>1, <1>3, <1>4, <1>5, <1>6, <1>7, OnCreditNone DEF OutboxInv, Conserved
  <2> QED BY <2>1 DEF Conserved
<1>11. FramesOK(<<>>, {}, confirmed) BY DEF FramesOK
<1> QED BY <1>1, <1>7, <1>8, <1>9, <1>10, <1>11 DEF OutboxInv

-----------------------------------------------------------------------------
\* OutboxInv is inductive.
THEOREM OutboxInvariant == Spec => []OutboxInv
<1>1. Init => OutboxInv
  <2> SUFFICES ASSUME Init PROVE OutboxInv OBVIOUS
  <2>1. Unwritten = <<>> BY DEF Init, Unwritten
  <2>2. Types
    <3>1. <<>> \in Seq(Frames) OBVIOUS
    <3>2. permit \in BOOLEAN BY DEF Init
    <3> QED BY <3>1, <3>2, BoundsAssumption DEF Init, Types
  <2>3. Holding BY DEF Init, Holding
  <2>4. Conserved BY <2>1, OnCreditNone, BoundsAssumption DEF Init, Conserved, One
  <2>5. FramesOK(Unwritten, live, confirmed) BY <2>1 DEF Init, FramesOK
  <2> QED BY <2>2, <2>3, <2>4, <2>5 DEF OutboxInv
<1>2. OutboxInv /\ [Next]_vars => OutboxInv'
  <2> SUFFICES ASSUME OutboxInv, [Next]_vars PROVE OutboxInv' OBVIOUS
  <2>1. CASE \E s \in Subs : Post(s) \/ Deny(s) \/ Regain(s) BY <2>1, PostKeeps
  <2>2. CASE \E s \in Subs : revoke(s) BY <2>2, RevokeKeeps
  <2>3. CASE \E s \in Subs : Take(s) BY <2>3, TakeKeeps
  <2>4. CASE PassReply BY <2>4, PassReplyKeeps
  <2>5. CASE send_denied_event \/ Deliver BY <2>5, DeliverKeeps
  <2>6. CASE ReadFails \/ DeliverUnsent BY <2>6, ReadFailsKeeps
  <2>7. CASE reserve BY <2>7, ReserveKeeps
  <2>8. CASE ReadOk \/ Abort BY <2>8, ReadOkKeeps
  <2>9. CASE Confirm BY <2>9, ConfirmKeeps
  <2>10. CASE Detach BY <2>10, DetachKeeps
  <2>11. CASE TryNext BY <2>11, TryNextKeeps
  <2>12. CASE Write BY <2>12, WriteKeeps
  <2>13. CASE Disconnect BY <2>13, DisconnectKeeps
  <2>14. CASE UNCHANGED vars
    <3>1. /\ due' = due /\ denied' = denied /\ attached' = attached /\ live' = live
          /\ queue' = queue /\ credit' = credit /\ epc' = epc /\ cur' = cur /\ permit' = permit
          /\ cpc' = cpc /\ target' = target /\ inflight' = inflight /\ confirmed' = confirmed
      BY <2>14 DEF vars, ringVars, eventVars, loopVars
    <3>2. Unwritten' = Unwritten BY <3>1 DEF Unwritten
    <3> QED BY <3>1, <3>2 DEF OutboxInv, Types, Holding, Conserved
  <2> QED BY <2>1, <2>2, <2>3, <2>4, <2>5, <2>6, <2>7, <2>8, <2>9, <2>10, <2>11, <2>12, <2>13, <2>14
          DEF Next, EventStep, LoopStep
<1> QED BY <1>1, <1>2, PTL DEF Spec

\* No path loses or mints a credit, no more updates wait than there is credit
\* (`reserve`, `OutboxFrame`), and no value follows the confirmation of its
\* cancel (`revoke`, `deliver`).
THEOREM OutboxKept == Spec => []OutboxSound
<1>1. OutboxInv => OutboxSound
  <2> SUFFICES ASSUME OutboxInv PROVE OutboxSound OBVIOUS
  <2>1. Types /\ Conserved /\ FramesOK(Unwritten, live, confirmed) BY DEF OutboxInv
  <2>2. Unwritten \in Seq(Frames) BY <2>1, UnwrittenFacts
  <2>3. Cardinality(OnCredit(Unwritten)) \in Nat /\ IsFiniteSet(OnCredit(Unwritten))
    BY <2>2, OnCreditFinite
  <2>4. One(permit) \in Nat /\ credit \in Nat /\ Credits \in Nat BY <2>1, BoundsAssumption DEF One, Types
  <2>5. credit <= Credits /\ Cardinality(OnCredit(Unwritten)) <= Credits
    BY <2>1, <2>3, <2>4 DEF Conserved
  <2>6. TypeOK BY <2>1, <2>4, <2>5 DEF Types, TypeOK
  <2>7. CreditsConserved BY <2>1 DEF Conserved, CreditsConserved, One
  <2>8. UpdatesBounded
    <3> DEFINE U == {i \in DOMAIN Unwritten : Unwritten[i].kind = "update"}
    <3>1. U \subseteq OnCredit(Unwritten) BY <2>1 DEF FramesOK, OnCredit
    <3>2. Cardinality(U) <= Cardinality(OnCredit(Unwritten)) /\ IsFiniteSet(U)
      BY <3>1, <2>3, FS_Subset
    <3>3. Cardinality(U) \in Nat BY <3>2, FS_CardinalityType
    <3> HIDE DEF U
    <3>4. Cardinality(U) <= Credits BY <3>2, <3>3, <2>3, <2>4, <2>5
    <3> QED BY <3>4 DEF U, UpdatesBounded
  <2>9. NoValueAfterConfirm BY <2>1 DEF FramesOK, NoValueAfterConfirm, Ahead
  <2> QED BY <2>6, <2>7, <2>8, <2>9 DEF OutboxSound
<1> QED BY <1>1, OutboxInvariant, PTL
-----------------------------------------------------------------------------
(* The monitor gate of the PVA server.                                     *)

\* The producers between their send and their add.
Adding == {p \in Producers : ppc[p] = "add"}

\* What was counted and what is about to be covers what waits and what the
\* consumer has taken and is yet to note.
Covered == ~gone => pending + Cardinality(Adding) >= channel + taken

GateInv == GateTypeOK /\ NeverOverfull /\ Covered

-----------------------------------------------------------------------------
\* The producers adding are finitely many.
LEMMA AddingFinite == IsFiniteSet(Adding) /\ Cardinality(Adding) \in Nat
BY FS_Subset, FS_CardinalityType, GateBounds DEF Adding

\* A producer's step moves it in or out of the producers adding.
LEMMA AddingMoves ==
    ASSUME GateTypeOK, NEW p \in Producers, NEW to \in {"idle", "send", "add"},
           ppc' = [ppc EXCEPT ![p] = to]
    PROVE  /\ (to = "add" /\ ppc[p] # "add") => Cardinality(Adding') = Cardinality(Adding) + 1
           /\ (to # "add" /\ ppc[p] = "add") => Cardinality(Adding') = Cardinality(Adding) - 1
           /\ (to # "add" /\ ppc[p] # "add") => Adding' = Adding
<1>1. \A q \in Producers : ppc'[q] = IF q = p THEN to ELSE ppc[q] BY DEF GateTypeOK
<1>2. ASSUME to = "add", ppc[p] # "add" PROVE Cardinality(Adding') = Cardinality(Adding) + 1
  <2>1. Adding' = Adding \cup {p} /\ p \notin Adding BY <1>1, <1>2 DEF Adding
  <2> QED BY <2>1, AddingFinite, FS_AddElement
<1>3. ASSUME to # "add", ppc[p] = "add" PROVE Cardinality(Adding') = Cardinality(Adding) - 1
  <2>1. Adding' = Adding \ {p} /\ p \in Adding BY <1>1, <1>3 DEF Adding
  <2> QED BY <2>1, AddingFinite, FS_RemoveElement
<1>4. ASSUME to # "add", ppc[p] # "add" PROVE Adding' = Adding BY <1>1, <1>4 DEF Adding
<1> QED BY <1>2, <1>3, <1>4

\* A post that passes or is refused counts nothing yet.
LEMMA GatePostKeeps ==
    ASSUME GateInv, NEW p \in Producers, try_post(p) \/ force_post(p)
    PROVE  GateInv'
<1>1. /\ ppc[p] = "idle" /\ left[p] > 0 /\ left' = [left EXCEPT ![p] = @ - 1]
      /\ ppc' = ppc \/ ppc' = [ppc EXCEPT ![p] = "send"]
      /\ owned' = owned /\ channel' = channel /\ pending' = pending /\ consumer' = consumer /\ taken' = taken /\ gone' = gone
  BY DEF try_post, force_post
<1>2. GateTypeOK /\ NeverOverfull /\ Covered BY DEF GateInv
<1>3. left' \in [Producers -> 0 .. MaxPosts]
  <2>1. left \in [Producers -> 0 .. MaxPosts] BY <1>2 DEF GateTypeOK
  <2>2. left[p] - 1 \in 0 .. MaxPosts BY <2>1, <1>1, GateBounds
  <2> QED BY <2>1, <2>2, <1>1
<1>4. GateTypeOK' BY <1>1, <1>2, <1>3 DEF GateTypeOK
<1>5. Adding' = Adding
  <2>1. CASE ppc' = ppc BY <2>1 DEF Adding
  <2>2. CASE ppc' = [ppc EXCEPT ![p] = "send"] BY <2>2, <1>1, <1>2, AddingMoves
  <2> QED BY <2>1, <2>2, <1>1
<1> QED BY <1>1, <1>2, <1>4, <1>5 DEF GateInv, NeverOverfull, Covered

\* try_send: the value waits, and its producer is about to count it.
LEMMA TrySendKeeps ==
    ASSUME GateInv, NEW p \in Producers, TrySend(p)
    PROVE  GateInv'
<1>1. /\ ppc[p] = "send" /\ pending' = pending /\ left' = left /\ consumer' = consumer
      /\ taken' = taken /\ gone' = gone
  BY DEF TrySend
<1>2. GateTypeOK /\ NeverOverfull /\ Covered BY DEF GateInv
<1>3. CASE gone \/ channel >= Capacity
  <2>1. ppc' = [ppc EXCEPT ![p] = "idle"] /\ owned' = owned /\ channel' = channel BY <1>3 DEF TrySend
  <2>2. Adding' = Adding
    <3>1. "idle" # "add" /\ ppc[p] # "add" BY <1>1
    <3> QED BY <3>1, <2>1, <1>2, AddingMoves
  <2>3. GateTypeOK' BY <2>1, <1>1, <1>2 DEF GateTypeOK
  <2> QED BY <2>1, <2>2, <2>3, <1>1, <1>2 DEF GateInv, NeverOverfull, Covered
<1>4. CASE ~(gone \/ channel >= Capacity)
  <2>1. ppc' = [ppc EXCEPT ![p] = "add"] /\ owned' = owned /\ channel' = channel + 1 BY <1>4 DEF TrySend
  <2>2. Cardinality(Adding') = Cardinality(Adding) + 1 BY <2>1, <1>1, <1>2, AddingMoves
  <2>3. GateTypeOK' BY <2>1, <1>1, <1>2 DEF GateTypeOK
  <2>4. NeverOverfull' BY <2>1, <1>2, <1>4, GateBounds DEF GateTypeOK, NeverOverfull
  <2>5. Covered' BY <2>1, <2>2, <1>1, <1>2, AddingFinite DEF GateTypeOK, Covered
  <2> QED BY <2>3, <2>4, <2>5 DEF GateInv
<1> QED BY <1>3, <1>4

\* The producer's count follows its send.
LEMMA AddKeeps ==
    ASSUME GateInv, NEW p \in Producers, Add(p)
    PROVE  GateInv'
<1>1. /\ ppc[p] = "add" /\ ppc' = [ppc EXCEPT ![p] = "idle"] /\ pending' = pending + 1
      /\ owned' = owned /\ channel' = channel /\ left' = left /\ consumer' = consumer /\ taken' = taken /\ gone' = gone
  BY DEF Add
<1>2. GateTypeOK /\ NeverOverfull /\ Covered BY DEF GateInv
<1>3. Cardinality(Adding') = Cardinality(Adding) - 1
  <2>1. "idle" # "add" OBVIOUS
  <2> QED BY <2>1, <1>1, <1>2, AddingMoves
<1>4. GateTypeOK' BY <1>1, <1>2 DEF GateTypeOK
<1>5. Covered' BY <1>1, <1>2, <1>3, AddingFinite DEF GateTypeOK, Covered
<1> QED BY <1>1, <1>2, <1>4, <1>5 DEF GateInv, NeverOverfull

\* The consumer takes, and subtracts what it took or down to zero: the count
\* may have been behind the value, and its producer's add is then still due.
LEMMA ConsumerKeeps ==
    ASSUME GateInv, Receive \/ NoteBatch \/ note_consumed \/ DropReceiver
    PROVE  GateInv'
<1>1. GateTypeOK /\ NeverOverfull /\ Covered BY DEF GateInv
<1>2. ppc' = ppc /\ left' = left /\ Adding' = Adding
  BY DEF Receive, NoteBatch, note_consumed, DropReceiver, Adding
<1>3. Cardinality(Adding) \in Nat BY AddingFinite
<1>4. CASE Receive
  <2>1. /\ channel > 0 /\ owned' = owned /\ channel' = channel - 1 /\ taken' = taken + 1 /\ consumer' \in {"idle", "note"}
        /\ pending' = pending /\ gone' = gone BY <1>4 DEF Receive
  <2>2. GateTypeOK' BY <2>1, <1>1, <1>2 DEF GateTypeOK
  <2> QED BY <2>1, <2>2, <1>1, <1>2, <1>3, GateBounds DEF GateInv, GateTypeOK, NeverOverfull, Covered
<1>5. CASE NoteBatch
  <2>1. GateTypeOK' BY <1>5, <1>1, <1>2 DEF GateTypeOK, NoteBatch
  <2> QED BY <2>1, <1>1, <1>2, <1>5 DEF GateInv, NeverOverfull, Covered, NoteBatch
<1>6. CASE note_consumed
  <2>1. /\ pending' = IF pending > taken THEN pending - taken ELSE 0
        /\ taken' = 0 /\ consumer' = "idle" /\ owned' = owned /\ channel' = channel /\ gone' = gone
    BY <1>6 DEF note_consumed
  <2>2. GateTypeOK' BY <2>1, <1>1, <1>2 DEF GateTypeOK
  <2>3. Covered' BY <2>1, <1>1, <1>2, <1>3 DEF GateTypeOK, Covered
  <2> QED BY <2>1, <2>2, <2>3, <1>1 DEF GateInv, NeverOverfull
<1>7. CASE DropReceiver
  <2>1. /\ owned' = owned /\ gone' = TRUE /\ channel' = 0 /\ pending' = pending
        /\ consumer' = consumer /\ taken' = taken
    BY <1>7 DEF DropReceiver
  <2>2. GateTypeOK' BY <2>1, <1>1, <1>2 DEF GateTypeOK
  <2>3. NeverOverfull' BY <2>1, GateBounds DEF NeverOverfull
  <2> QED BY <2>1, <2>2, <2>3 DEF GateInv, Covered
<1> QED BY <1>4, <1>5, <1>6, <1>7

-----------------------------------------------------------------------------
\* Producers that pass the gate together never overfill the channel, and with
\* nobody between a send and its add the count never misses a waiting value.
THEOREM GateKept == GateSpec => []GateSound
<1>1. GateInit => GateInv
  <2> SUFFICES ASSUME GateInit PROVE GateInv OBVIOUS
  <2>1. Adding = {} BY DEF GateInit, Adding
  <2>2. GateTypeOK
    <3>1. MaxPosts \in 0 .. MaxPosts BY GateBounds
    <3>2. ppc \in [Producers -> {"idle", "send", "add"}] /\ left \in [Producers -> 0 .. MaxPosts]
      BY <3>1 DEF GateInit
    <3>3. gone \in BOOLEAN BY DEF GateInit
    <3> QED BY <3>2, <3>3 DEF GateInit, GateTypeOK
  <2> QED BY <2>1, <2>2, FS_EmptySet, GateBounds DEF GateInit, GateInv, NeverOverfull, Covered
<1>2. GateInv /\ [GateNext]_gateVars => GateInv'
  <2> SUFFICES ASSUME GateInv, [GateNext]_gateVars PROVE GateInv' OBVIOUS
  <2>1. CASE \E p \in Producers : try_post(p) \/ force_post(p) \/ TrySend(p) \/ Add(p)
    BY <2>1, GatePostKeeps, TrySendKeeps, AddKeeps
  <2>2. CASE Receive \/ NoteBatch \/ note_consumed \/ DropReceiver BY <2>2, ConsumerKeeps
  <2>3. CASE UNCHANGED gateVars
    BY <2>3 DEF gateVars, GateInv, GateTypeOK, NeverOverfull, Covered, Adding
  <2> QED BY <2>1, <2>2, <2>3 DEF GateNext
<1>3. GateInv => GateSound
  <2> SUFFICES ASSUME GateInv PROVE GateSound OBVIOUS
  <2>1. ASSUME ~gone, \A p \in Producers : ppc[p] # "add" PROVE pending >= channel
    <3>1. Cardinality(Adding) = 0 BY <2>1, FS_EmptySet DEF Adding
    <3> QED BY <3>1, <2>1 DEF GateInv, GateTypeOK, Covered
  <2> QED BY <2>1 DEF GateInv, GateSound, CountsWaiting
<1> QED BY <1>1, <1>2, <1>3, PTL DEF GateSpec
=============================================================================
