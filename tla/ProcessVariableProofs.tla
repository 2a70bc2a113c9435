----------------------- MODULE ProcessVariableProofs -----------------------
(***************************************************************************)
(* A PV for any number of setters, monitors, reads and writes: the writes  *)
(* held while it is pending are sent first, in their order and within the  *)
(* bound, nobody waits for nothing, a monitor gets its first event once    *)
(* and is sent what the PV holds in the end.                               *)
(*                                                                         *)
(* The held-writes lock carries the argument for the writes: whoever is    *)
(* past a look at the PV's state still has it.  The value's read lock      *)
(* carries the one for the monitors: StoreReady finds none between its     *)
(* attach and its first event.  Whoever stores a value posts it, or is yet *)
(* to, to every monitor that may be read and has not got it.               *)
(***************************************************************************)
EXTENDS ProcessVariable, FiniteSetTheorems, SequenceTheorems, TLAPS

\* Who is past a look under the held-writes lock has it, and knows the state.
LockKept ==
    /\ \A s \in Setters : spc[s] = "drain" => heldBy = s /\ pending
    /\ \A s \in Setters : spc[s] = "first" => heldBy = s /\ ~pending
    /\ \A w \in Writes : wst[w] \in {"full", "again", "room"} => heldBy = w

\* The put callbacks counted.
Flying == {w \in Writes : notify[w] /\ wst[w] \in {"sending", "flight"}}

\* A pending PV has sent nothing but what its drain did, and its held writes
\* leave room for the callbacks their sending starts.
FlightInv ==
    /\ in_flight = Cardinality(Flying)
    /\ in_flight <= MAX_SIMUL_WRITE_IO + 1
    /\ pending => in_flight + Len(held) <= MAX_SIMUL_WRITE_IO + 1
    /\ pending /\ heldBy = Nobody => in_flight = 0
    /\ \A w \in Writes : wst[w] = "room" => in_flight < MAX_SIMUL_WRITE_IO

\* A ready PV's writes are sent by their own threads, a pending one's by the
\* drain alone; only put callbacks stay in flight.
SentInv ==
    /\ \A w \in Writes : wst[w] \in {"full", "again", "room", "sending"} => ~pending
    /\ \A w \in Writes : wst[w] = "flight" => notify[w]
    /\ pending => \A i \in DOMAIN sent : sent[i].held
    /\ HeldWritesFirst

\* Nothing is held on a PV that is ready, or whose destroy has taken it.
HeldInv ==
    /\ HeldOnce
    /\ ~pending => held = <<>>
    /\ dpc \in {"cancel", "done"} => held = <<>>
    /\ destroyed = (dpc # "idle")

\* A write that is to be posted has an end that is not gone.
EndInv ==
    /\ \A w \in Writes :
           \/ wst[w] \in {"held", "cancel"}
           \/ notify[w] /\ wst[w] \in {"sending", "flight", "post"}
           => end[w] \in {"live", "closed"}
    /\ \A w \in Writes : seen[w] <= epoch
    /\ PostponedHasSignal

WriteInv == LockKept /\ FlightInv /\ SentInv /\ HeldInv /\ EndInv

\* A read past its look has a wake coming from what changed since.
ReadInv ==
    /\ \A g \in Getters : gpc[g] \in {"gone?", "parked"} /\ g \notin notified /\ ~pending =>
           \E s \in Setters : spc[s] \in {"first", "wake"}
    /\ \A g \in Getters : gpc[g] = "parked" /\ g \notin notified /\ destroyed =>
           dpc \in {"take", "cancel"}

\* The read lock's holders, and the list.
ListInv ==
    /\ \A m \in Monitors : (m \in readers) = (mpc[m] \in {"attach", "first", "cut"})
    /\ \A s \in Setters : (s \in readers) = (spc[s] = "first")
    /\ IsInjective(listed)
    /\ \A m \in Monitors : (m \in Range(listed)) = (mpc[m] \in {"first", "on"})
    /\ destroyed => listed = <<>>

\* A monitor's first event is past, or still to come from the one call that
\* can send it.
FirstInv ==
    /\ \A m \in Monitors : firsts[m] <= 1
    /\ \A m \in Monitors : pending \/ mpc[m] \in {"new", "attach", "first"} => firsts[m] = 0
    /\ \A s \in Setters : spc[s] = "first" =>
           /\ IsInjective(todo[s])
           /\ \A m \in Range(todo[s]) : firsts[m] = 0 /\ mpc[m] \in {"on", "gone"}
    /\ \A m \in Monitors : mpc[m] = "on" /\ ~pending =>
           \/ firsts[m] = 1
           \/ \E s \in Setters : spc[s] = "first" /\ m \in Range(todo[s])

PVInv == TypeOK /\ WriteInv /\ ReadInv /\ ListInv /\ FirstInv

\* While the PV is pending and its held writes are not taken, what was held is
\* what was sent and then what is still held, in that order.
OrderInv ==
    /\ HeldInOrder
    /\ pending /\ dpc \notin {"cancel", "done"} =>
           /\ Len(arrived) = Len(sent) + Len(held)
           /\ \A j \in DOMAIN held : arrived[Len(sent) + j] = held[j]

\* The monitor is yet to be posted the value the PV holds.
Coming(m) ==
    \E s \in Setters : /\ cur[s] = value
                       /\ \/ spc[s] \in {"meta", "deliver"}
                          \/ spc[s] \in {"post", "first"} /\ m \in Range(todo[s])

\* The monitors the value is for.
Reads(m) == mpc[m] = "on" /\ rights[m] \in {"read", "lost"} /\ ~pending

\* Each has been sent it or is yet to be; and while the store of it met no
\* other post, nobody is on the way with an older one.
ServedInv ==
    /\ \A m \in Monitors : most[m] <= value
    /\ \A m \in Monitors : Reads(m) => most[m] = value \/ Coming(m)
    /\ ~crossed =>
           /\ \A s \in Setters : Posting(s) => cur[s] = value
           /\ \A m \in Monitors : Reads(m) => last[m] = value \/ Coming(m)
           /\ posted_meta = value \/ \E s \in Setters : spc[s] = "meta"

-----------------------------------------------------------------------------
(* Lists without repetition.                                               *)

\* Taking the head off.
LEMMA TailOnce ==
    ASSUME NEW S, NEW q \in Seq(S), q # <<>>
    PROVE  /\ Head(q) \in S /\ Head(q) \in Range(q)
           /\ Tail(q) \in Seq(S) /\ Len(Tail(q)) = Len(q) - 1 /\ Len(q) > 0
           /\ Range(q) = Range(Tail(q)) \cup {Head(q)}
           /\ IsInjective(q) => IsInjective(Tail(q)) /\ Head(q) \notin Range(Tail(q))
<1>1. Len(q) \in Nat /\ Len(q) > 0 /\ Head(q) = q[1] /\ 1 \in DOMAIN q /\ DOMAIN q = 1 .. Len(q) OBVIOUS
<1>2. /\ Tail(q) \in Seq(S) /\ Len(Tail(q)) = Len(q) - 1 /\ DOMAIN Tail(q) = 1 .. Len(q) - 1
      /\ \A i \in 1 .. Len(q) - 1 : Tail(q)[i] = q[i + 1]
  OBVIOUS
<1>3. Head(q) \in S /\ Head(q) \in Range(q) BY <1>1 DEF Range
<1>4. Range(q) = Range(Tail(q)) \cup {Head(q)}
  <2>1. ASSUME NEW x \in Range(q) PROVE x \in Range(Tail(q)) \cup {Head(q)}
    <3>1. PICK i \in 1 .. Len(q) : q[i] = x BY <1>1 DEF Range
    <3>2. CASE i = 1 BY <3>1, <3>2, <1>1
    <3>3. CASE i # 1
      <4>1. i - 1 \in 1 .. Len(q) - 1 BY <1>1, <3>3
      <4>2. Tail(q)[i - 1] = x BY <4>1, <1>2, <3>1, <1>1
      <4> QED BY <4>1, <4>2, <1>2 DEF Range
    <3> QED BY <3>2, <3>3
  <2>2. ASSUME NEW x \in Range(Tail(q)) PROVE x \in Range(q)
    <3>1. PICK i \in 1 .. Len(q) - 1 : Tail(q)[i] = x BY <1>2 DEF Range
    <3>2. i + 1 \in DOMAIN q /\ q[i + 1] = x BY <3>1, <1>1, <1>2
    <3> QED BY <3>2 DEF Range
  <2> QED BY <2>1, <2>2, <1>3
<1>5. ASSUME IsInjective(q) PROVE IsInjective(Tail(q)) /\ Head(q) \notin Range(Tail(q))
  <2>1. \A i, j \in 1 .. Len(q) : q[i] = q[j] => i = j BY <1>5, <1>1 DEF IsInjective
  <2>2. ASSUME NEW i \in 1 .. Len(q) - 1, NEW j \in 1 .. Len(q) - 1, Tail(q)[i] = Tail(q)[j]
        PROVE  i = j
    <3>1. i + 1 \in 1 .. Len(q) /\ j + 1 \in 1 .. Len(q) /\ q[i + 1] = q[j + 1] BY <1>1, <1>2, <2>2
    <3>2. i + 1 = j + 1 BY <3>1, <2>1
    <3> QED BY <3>2
  <2>3. ASSUME NEW i \in 1 .. Len(q) - 1, Tail(q)[i] = Head(q) PROVE FALSE
    <3>1. i + 1 \in 1 .. Len(q) /\ q[i + 1] = q[1] /\ 1 \in 1 .. Len(q) BY <1>1, <1>2, <2>3
    <3>2. i + 1 = 1 BY <3>1, <2>1
    <3> QED BY <3>2
  <2> QED BY <2>2, <2>3, <1>2 DEF IsInjective, Range
<1> QED BY <1>1, <1>2, <1>3, <1>4, <1>5

\* Adding one that is not there.
LEMMA AppendOnce ==
    ASSUME NEW S, NEW q \in Seq(S), NEW x \in S
    PROVE  /\ Append(q, x) \in Seq(S) /\ Len(Append(q, x)) = Len(q) + 1
           /\ Range(Append(q, x)) = Range(q) \cup {x}
           /\ IsInjective(q) /\ x \notin Range(q) => IsInjective(Append(q, x))
<1> DEFINE a == Append(q, x)
<1>1. /\ Len(q) \in Nat /\ DOMAIN q = 1 .. Len(q) /\ a \in Seq(S) /\ Len(a) = Len(q) + 1
      /\ DOMAIN a = 1 .. Len(q) + 1 /\ a[Len(q) + 1] = x
  OBVIOUS
<1>2. \A i \in 1 .. Len(q) : a[i] = q[i] /\ i \in DOMAIN a OBVIOUS
<1>a. \A i \in DOMAIN a : i \in DOMAIN q \/ i = Len(q) + 1 BY <1>1
<1>b. Len(q) + 1 \in DOMAIN a BY <1>1
<1> HIDE DEF a
<1>3. Range(a) = Range(q) \cup {x}
  <2>1. ASSUME NEW y \in Range(a) PROVE y \in Range(q) \cup {x}
    <3>1. PICK i \in DOMAIN a : a[i] = y BY DEF Range
    <3> QED BY <3>1, <1>a, <1>1, <1>2 DEF Range
  <2>2. ASSUME NEW y \in Range(q) PROVE y \in Range(a)
    <3>1. PICK i \in DOMAIN q : q[i] = y BY DEF Range
    <3> QED BY <3>1, <1>1, <1>2 DEF Range
  <2>3. x \in Range(a) BY <1>1, <1>b DEF Range
  <2> QED BY <2>1, <2>2, <2>3
<1>4. ASSUME IsInjective(q), x \notin Range(q) PROVE IsInjective(a)
  <2>1. \A i \in DOMAIN q : q[i] # x BY <1>4 DEF Range
  <2>2. \A i, j \in DOMAIN q : q[i] = q[j] => i = j BY <1>4 DEF IsInjective
  <2>3. ASSUME NEW i \in DOMAIN a, NEW j \in DOMAIN a, a[i] = a[j] PROVE i = j
    BY <2>1, <2>2, <2>3, <1>1, <1>2, <1>a
  <2> QED BY <2>3 DEF IsInjective
<1> QED BY <1>1, <1>3, <1>4 DEF a

\* Taking one out.
LEMMA RemoveOnce ==
    ASSUME NEW S, NEW q \in Seq(S), NEW i \in DOMAIN q
    PROVE  /\ RemoveAt(q, i) \in Seq(S)
           /\ IsInjective(q) => /\ IsInjective(RemoveAt(q, i))
                               /\ Range(RemoveAt(q, i)) = Range(q) \ {q[i]}
<1> DEFINE r == RemoveAt(q, i)
<1>0. Len(q) \in Nat /\ DOMAIN q = 1 .. Len(q) /\ i \in 1 .. Len(q) OBVIOUS
<1>1. /\ SubSeq(q, 1, i - 1) \in Seq(S) /\ SubSeq(q, i + 1, Len(q)) \in Seq(S)
      /\ Len(SubSeq(q, 1, i - 1)) = i - 1 /\ Len(SubSeq(q, i + 1, Len(q))) = Len(q) - i
  BY <1>0
<1>2. r \in Seq(S) /\ Len(r) = Len(q) - 1 /\ DOMAIN r = 1 .. Len(q) - 1 BY <1>0, <1>1 DEF RemoveAt
<1>3. \A k \in 1 .. i - 1 : r[k] = q[k] BY <1>0, <1>1 DEF RemoveAt
<1>4. \A k \in i .. Len(q) - 1 : r[k] = q[k + 1]
  <2> TAKE k \in i .. Len(q) - 1
  <2>1. k - (i - 1) \in 1 .. Len(q) - i /\ k \in 1 .. Len(q) - 1 /\ ~(k <= i - 1) BY <1>0
  <2>2. r[k] = SubSeq(q, i + 1, Len(q))[k - (i - 1)]
    <3> DEFINE a == SubSeq(q, 1, i - 1)
               b == SubSeq(q, i + 1, Len(q))
    <3>1. r = a \o b BY DEF RemoveAt
    <3>2. a \in Seq(S) /\ b \in Seq(S) /\ Len(a) = i - 1 /\ Len(b) = Len(q) - i BY <1>1
    <3>3. i - 1 \in Nat /\ Len(q) - i \in Nat /\ k \in 1 .. (i - 1) + (Len(q) - i) /\ k > i - 1
      BY <1>0, <2>1
    <3> HIDE DEF a, b, r
    <3>5. \A j \in 1 .. Len(a) + Len(b) : (a \o b)[j] = IF j <= Len(a) THEN a[j] ELSE b[j - Len(a)]
      BY <3>2, ConcatProperties, Zenon
    <3>4. (a \o b)[k] = b[k - (i - 1)] BY <3>2, <3>3, <3>5
    <3> QED BY <3>1, <3>4 DEF b
  <2>3. SubSeq(q, i + 1, Len(q))[k - (i - 1)] = q[i + 1 + (k - (i - 1)) - 1] BY <1>0, <2>1
  <2> QED BY <1>0, <2>2, <2>3
<1> HIDE DEF r
<1>5. ASSUME IsInjective(q) PROVE IsInjective(r) /\ Range(r) = Range(q) \ {q[i]}
  <2>1. \A j, k \in 1 .. Len(q) : q[j] = q[k] => j = k BY <1>0, <1>5 DEF IsInjective
  <2> DEFINE at(k) == IF k < i THEN k ELSE k + 1
  <2>2. \A k \in 1 .. Len(q) - 1 : at(k) \in 1 .. Len(q) /\ r[k] = q[at(k)] /\ at(k) # i
    BY <1>0, <1>3, <1>4
  <2>3. \A j, k \in 1 .. Len(q) - 1 : at(j) = at(k) => j = k BY <1>0
  <2>4. \A j \in 1 .. Len(q) : j # i => \E k \in 1 .. Len(q) - 1 : at(k) = j
    <3> TAKE j \in 1 .. Len(q)
    <3> HAVE j # i
    <3>1. CASE j < i
      <4>1. j \in 1 .. Len(q) - 1 /\ at(j) = j BY <1>0, <3>1
      <4> QED BY <4>1
    <3>2. CASE j > i
      <4>1. j - 1 \in 1 .. Len(q) - 1 /\ at(j - 1) = j BY <1>0, <3>2
      <4> QED BY <4>1
    <3> QED BY <1>0, <3>1, <3>2
  <2> HIDE DEF at
  <2>5. IsInjective(r)
    <3>1. ASSUME NEW j \in 1 .. Len(q) - 1, NEW k \in 1 .. Len(q) - 1, r[j] = r[k] PROVE j = k
      <4>1. at(j) = at(k) BY <2>1, <2>2, <3>1
      <4> QED BY <4>1, <2>3
    <3> QED BY <3>1, <1>2 DEF IsInjective
  <2>6. ASSUME NEW x \in Range(r) PROVE x \in Range(q) \ {q[i]}
    <3>1. PICK k \in 1 .. Len(q) - 1 : r[k] = x BY <1>2 DEF Range
    <3>2. x = q[at(k)] /\ at(k) \in 1 .. Len(q) /\ at(k) # i BY <2>2, <3>1
    <3>3. x # q[i] BY <3>2, <2>1, <1>0
    <3> QED BY <3>2, <3>3, <1>0 DEF Range
  <2>7. ASSUME NEW x \in Range(q), x # q[i] PROVE x \in Range(r)
    <3>1. PICK j \in 1 .. Len(q) : q[j] = x BY <1>0 DEF Range
    <3>2. PICK k \in 1 .. Len(q) - 1 : at(k) = j BY <2>4, <2>7, <3>1
    <3>3. r[k] = x BY <2>2, <3>1, <3>2
    <3> QED BY <3>2, <3>3, <1>2 DEF Range
  <2> QED BY <2>5, <2>6, <2>7
<1> QED BY <1>2, <1>5 DEF r

-----------------------------------------------------------------------------
(* Type correctness: each group of variables by itself.                    *)

\* A step that leaves a group of variables alone keeps its type.
LEMMA TypesFramed ==
    ASSUME TypeOK
    PROVE  /\ UNCHANGED <<valueVars, listVars, dpc>> => ValueType'
           /\ UNCHANGED <<value, setterVars>> => SetterType'
           /\ UNCHANGED monitorVars => MonitorType'
           /\ UNCHANGED getterVars => ReadType'
           /\ UNCHANGED writeVars => WriteType'
BY DEF TypeOK, ValueType, SetterType, MonitorType, ReadType, WriteType,
       valueVars, listVars, setterVars, monitorVars, getterVars, writeVars

\* Queueing a value to a monitor keeps what was queued a number.
LEMMA QueueTyped ==
    ASSUME TypeOK, NEW m \in Monitors, NEW v \in Int, Queue(m, v)
    PROVE  last' \in [Monitors -> Int] /\ most' \in [Monitors -> Int]
<1>1. last \in [Monitors -> Int] /\ most \in [Monitors -> Int] BY DEF TypeOK, MonitorType
<1>2. (IF Cut(m) THEN last[m] ELSE v) \in Int /\ (IF Cut(m) \/ v <= most[m] THEN most[m] ELSE v) \in Int
  BY <1>1
<1> QED BY <1>1, <1>2 DEF Queue

\* And so does its first event, with the events counted.
LEMMA FirstTyped ==
    ASSUME TypeOK, NEW m \in Monitors, NEW v \in Int, FirstEvent(m, v)
    PROVE  last' \in [Monitors -> Int] /\ most' \in [Monitors -> Int] /\ firsts' \in [Monitors -> Nat]
<1>1. firsts \in [Monitors -> Nat] BY DEF TypeOK, MonitorType
<1>2. (IF Cut(m) THEN firsts[m] ELSE firsts[m] + 1) \in Nat BY <1>1
<1>3. firsts' \in [Monitors -> Nat] BY <1>1, <1>2 DEF FirstEvent
<1> QED BY <1>3, QueueTyped DEF FirstEvent

\* Posting an end.
LEMMA PostEndTyped ==
    ASSUME TypeOK, NEW w \in Writes, PostEnd(w)
    PROVE  /\ end' \in [Writes -> {"none", "live", "posted", "closed", "gone"}]
           /\ epoch' \in Nat
<1>1. end \in [Writes -> {"none", "live", "posted", "closed", "gone"}] /\ epoch \in Nat
  BY DEF TypeOK, WriteType
<1>2. CASE end[w] = "closed" BY <1>1, <1>2 DEF PostEnd, signal
<1>3. CASE end[w] # "closed" BY <1>1, <1>3 DEF PostEnd
<1> QED BY <1>2, <1>3

\* A setter's steps keep every variable in its type.
LEMMA SetterTyped ==
    ASSUME TypeOK, NEW s \in Setters, SetValue(s) \/ post_alarm(s) \/ make_ready(s) \/ SetterStep(s)
    PROVE  TypeOK'
<1> USE DEF valueVars, listVars, setterVars, monitorVars, getterVars, writeVars
<1>0. ValueType /\ SetterType /\ MonitorType /\ ReadType /\ WriteType BY DEF TypeOK
<1>1. CASE SetValue(s)
  <2>1. MonitorType' /\ ReadType' /\ WriteType' BY <1>1, TypesFramed DEF SetValue
  <2>0. crossed' \in BOOLEAN BY <1>1 DEF SetValue, Stores
  <2>2. ValueType' BY <1>0, <1>1, <2>0 DEF SetValue, ValueType
  <2>3. SetterType' BY <1>0, <1>1 DEF SetValue, SetterType, ValueType
  <2> QED BY <2>1, <2>2, <2>3 DEF TypeOK
<1>2. CASE make_ready(s)
  <2>1. ValueType' /\ MonitorType' /\ ReadType' BY <1>2, TypesFramed DEF make_ready
  <2>2. SetterType' BY <1>0, <1>2 DEF make_ready, SetterType
  <2>3. WriteType' BY <1>0, <1>2 DEF make_ready, WriteType
  <2> QED BY <2>1, <2>2, <2>3 DEF TypeOK
<1>3. CASE SetMeta(s)
  <2>1. MonitorType' /\ ReadType' /\ WriteType' BY <1>3, TypesFramed DEF SetMeta
  <2>2. ValueType' BY <1>0, <1>3 DEF SetMeta, ValueType, SetterType
  <2>3. SetterType' BY <1>0, <1>3 DEF SetMeta, SetterType
  <2> QED BY <2>1, <2>2, <2>3 DEF TypeOK
<1>4. CASE deliver(s)
  <2>1. ValueType' /\ MonitorType' /\ ReadType' /\ WriteType' BY <1>4, TypesFramed DEF deliver
  <2>2. SetterType' BY <1>0, <1>4 DEF deliver, SetterType, ValueType
  <2> QED BY <2>1, <2>2 DEF TypeOK
<1>5. CASE Post(s)
  <2>1. ValueType' /\ ReadType' /\ WriteType' BY <1>5, TypesFramed DEF Post
  <2>2. CASE todo[s] = <<>>
    <3>1. MonitorType' BY <1>5, <2>2, TypesFramed DEF Post
    <3>2. SetterType' BY <1>0, <1>5, <2>2 DEF Post, SetterType
    <3> QED BY <2>1, <3>1, <3>2 DEF TypeOK
  <2>3. CASE todo[s] # <<>>
    <3>1. Head(todo[s]) \in Monitors /\ Tail(todo[s]) \in Seq(Monitors) BY <1>0, <2>3 DEF SetterType
    <3>2. cur[s] \in Int BY <1>0 DEF SetterType, ValueType
    <3>3. last' \in [Monitors -> Int] /\ most' \in [Monitors -> Int]
      <4>1. Queue(Head(todo[s]), cur[s]) \/ UNCHANGED <<last, most>> BY <1>5, <2>3 DEF Post
      <4> QED BY <1>0, <3>1, <3>2, <4>1, QueueTyped DEF MonitorType
    <3>4. MonitorType' BY <1>0, <1>5, <3>3 DEF Post, MonitorType
    <3>5. SetterType' BY <1>0, <1>5, <2>3, <3>1 DEF Post, SetterType
    <3> QED BY <2>1, <3>4, <3>5 DEF TypeOK
  <2> QED BY <2>2, <2>3
<1>6. CASE SendHeld(s)
  <2>1. ValueType' /\ SetterType' /\ MonitorType' /\ ReadType' BY <1>6, TypesFramed DEF SendHeld
  <2> DEFINE w == Head(held)
  <2>0. held \in Seq(Writes) /\ held # <<>> BY <1>0, <1>6 DEF SendHeld, WriteType
  <2>a. w \in Writes /\ Tail(held) \in Seq(Writes) BY <2>0
  <2>2. /\ w \in Writes /\ held' \in Seq(Writes) /\ Sent(w, TRUE)
        /\ heldBy' = heldBy /\ notify' = notify /\ seen' = seen /\ arrived' = arrived
    BY <2>a, <1>6 DEF SendHeld
  <2>3. sent' \in Seq([write : Writes, held : BOOLEAN]) BY <1>0, <2>2 DEF Sent, WriteType
  <2>4. /\ in_flight' \in Nat
        /\ wst' \in [Writes -> {"new", "held", "postponed", "full", "again", "room", "sending",
                                "flight", "post", "cancel", "over"}]
    <3>1. \/ in_flight' = in_flight + 1 /\ wst' = [wst EXCEPT ![w] = "flight"]
          \/ in_flight' = in_flight /\ wst' = [wst EXCEPT ![w] = "over"]
      BY <1>6 DEF SendHeld
    <3>2. /\ w \in Writes /\ in_flight \in Nat
          /\ wst \in [Writes -> {"new", "held", "postponed", "full", "again", "room", "sending",
                                 "flight", "post", "cancel", "over"}]
      BY <1>0, <2>2 DEF WriteType
    <3> HIDE DEF w
    <3>3. CASE in_flight' = in_flight + 1 /\ wst' = [wst EXCEPT ![w] = "flight"] BY <3>2, <3>3
    <3>4. CASE in_flight' = in_flight /\ wst' = [wst EXCEPT ![w] = "over"] BY <3>2, <3>4
    <3> QED BY <3>1, <3>3, <3>4
  <2>5. CASE notify[w]
    <3>1. end' = end /\ epoch' = epoch BY <1>6, <2>5 DEF SendHeld
    <3> QED BY <1>0, <2>1, <2>2, <2>3, <2>4, <3>1 DEF TypeOK, WriteType
  <2>6. CASE ~notify[w]
    <3>1. PostEnd(w) BY <1>6, <2>6 DEF SendHeld
    <3>2. end' \in [Writes -> {"none", "live", "posted", "closed", "gone"}] /\ epoch' \in Nat
      BY <2>2, <3>1, PostEndTyped
    <3> QED BY <1>0, <2>1, <2>2, <2>3, <2>4, <3>2 DEF TypeOK, WriteType
  <2> QED BY <2>5, <2>6
<1>7. CASE StoreReady(s)
  <2>1. MonitorType' /\ ReadType' /\ WriteType' BY <1>7, TypesFramed DEF StoreReady
  <2>2. ValueType'
    <3>1. value' \in Nat /\ posted_meta' \in 0 .. value' BY <1>0, <1>7 DEF StoreReady, ValueType
    <3>2. /\ readers' = {s} /\ pending' = FALSE /\ listed' = listed /\ destroyed' = destroyed
          /\ dpc' = dpc
      BY <1>7 DEF StoreReady
    <3>3. crossed' \in BOOLEAN BY <1>7 DEF StoreReady, Stores
    <3> QED BY <1>0, <3>1, <3>2, <3>3 DEF ValueType
  <2>3. SetterType' BY <1>0, <1>7 DEF StoreReady, SetterType, ValueType
  <2> QED BY <2>1, <2>2, <2>3 DEF TypeOK
<1>8. CASE PostFirst(s)
  <2>1. ReadType' BY <1>8, TypesFramed DEF PostFirst
  <2>2. ValueType' BY <1>0, <1>8 DEF PostFirst, ValueType
  <2>3. WriteType' BY <1>0, <1>8 DEF PostFirst, WriteType
  <2>4. CASE todo[s] = <<>>
    <3>1. MonitorType' BY <1>8, <2>4, TypesFramed DEF PostFirst
    <3>2. SetterType' BY <1>0, <1>8, <2>4 DEF PostFirst, SetterType
    <3> QED BY <2>1, <2>2, <2>3, <3>1, <3>2 DEF TypeOK
  <2>5. CASE todo[s] # <<>>
    <3>1. Head(todo[s]) \in Monitors /\ Tail(todo[s]) \in Seq(Monitors) BY <1>0, <2>5 DEF SetterType
    <3>2. cur[s] \in Int BY <1>0 DEF SetterType, ValueType
    <3>3. last' \in [Monitors -> Int] /\ most' \in [Monitors -> Int] /\ firsts' \in [Monitors -> Nat]
      BY <1>8, <2>5, <3>1, <3>2, FirstTyped DEF PostFirst
    <3>4. MonitorType' BY <1>0, <1>8, <3>3 DEF PostFirst, MonitorType
    <3>5. SetterType' BY <1>0, <1>8, <2>5, <3>1 DEF PostFirst, SetterType
    <3> QED BY <2>1, <2>2, <2>3, <3>4, <3>5 DEF TypeOK
  <2> QED BY <2>4, <2>5
<1>9. CASE WakeReads(s)
  <2>1. ValueType' /\ MonitorType' /\ WriteType' BY <1>9, TypesFramed DEF WakeReads
  <2>2. SetterType' BY <1>0, <1>9 DEF WakeReads, SetterType
  <2>3. ReadType' BY <1>0, <1>9 DEF WakeReads, ReadType, notify_waiters
  <2> QED BY <2>1, <2>2, <2>3 DEF TypeOK
<1>10. CASE post_alarm(s)
  <2>1. ValueType' /\ MonitorType' /\ ReadType' /\ WriteType' BY <1>10, TypesFramed DEF post_alarm
  <2>2. SetterType' BY <1>0, <1>10 DEF post_alarm, SetterType, ValueType
  <2> QED BY <2>1, <2>2 DEF TypeOK
<1> QED BY <1>1, <1>2, <1>3, <1>4, <1>5, <1>6, <1>7, <1>8, <1>9, <1>10 DEF SetterStep

\* A monitor's steps.
LEMMA MonitorTyped ==
    ASSUME TypeOK, NEW m \in Monitors,
           MonitorAsks(m) \/ MonitorStep(m)
    PROVE  TypeOK'
<1> USE DEF valueVars, listVars, setterVars, monitorVars, getterVars, writeVars
<1>0. ValueType /\ SetterType /\ MonitorType /\ ReadType /\ WriteType BY DEF TypeOK
<1>1. CASE AddBegin(m)
  <2>1. SetterType' /\ ReadType' /\ WriteType' BY <1>1, TypesFramed DEF AddBegin
  <2>2. ValueType' BY <1>0, <1>1 DEF AddBegin, ValueType
  <2>3. MonitorType' BY <1>0, <1>1 DEF AddBegin, MonitorType
  <2> QED BY <2>1, <2>2, <2>3 DEF TypeOK
<1>2. CASE attach(m)
  <2>1. SetterType' /\ ReadType' /\ WriteType' BY <1>2, TypesFramed DEF attach
  <2>2. ValueType'
    <3>1. listed' \in Seq(Monitors) BY <1>0, <1>2 DEF attach, ValueType
    <3> QED BY <1>0, <1>2, <3>1 DEF attach, ValueType
  <2>3. MonitorType' BY <1>0, <1>2 DEF attach, MonitorType
  <2> QED BY <2>1, <2>2, <2>3 DEF TypeOK
<1>3. CASE AddEnd(m)
  <2>1. SetterType' /\ ReadType' /\ WriteType' BY <1>3, TypesFramed DEF AddEnd
  <2>2. ValueType' BY <1>0, <1>3 DEF AddEnd, ValueType
  <2>3. last' \in [Monitors -> Int] /\ most' \in [Monitors -> Int] /\ firsts' \in [Monitors -> Nat]
    <3>1. value \in Int BY <1>0 DEF ValueType
    <3>2. UNCHANGED <<last, most, firsts>> \/ FirstEvent(m, value) BY <1>3 DEF AddEnd, post_single_held
    <3> QED BY <1>0, <3>1, <3>2, FirstTyped DEF MonitorType
  <2>4. MonitorType' BY <1>0, <1>3, <2>3 DEF AddEnd, MonitorType
  <2> QED BY <2>1, <2>2, <2>4 DEF TypeOK
<1>4. CASE LoseRead(m) \/ PostRegained(m)
  <2>1. ValueType' /\ SetterType' /\ ReadType' /\ WriteType' BY <1>4, TypesFramed DEF LoseRead, PostRegained
  <2>2. last' \in [Monitors -> Int] /\ most' \in [Monitors -> Int]
    <3>1. UNCHANGED <<last, most>> \/ Queue(m, value) BY <1>4 DEF LoseRead, PostRegained, post_single_event
    <3>2. value \in Int BY <1>0 DEF ValueType
    <3> QED BY <1>0, <3>1, <3>2, QueueTyped DEF MonitorType
  <2>3. MonitorType' BY <1>0, <1>4, <2>2 DEF LoseRead, PostRegained, MonitorType
  <2> QED BY <2>1, <2>3 DEF TypeOK
<1>6. CASE Disable(m) \/ RegainRead(m)
  <2>1. ValueType' /\ SetterType' /\ ReadType' /\ WriteType' BY <1>6, TypesFramed DEF Disable, RegainRead
  <2>2. MonitorType' BY <1>0, <1>6 DEF Disable, RegainRead, MonitorType
  <2> QED BY <2>1, <2>2 DEF TypeOK
<1>5. CASE remove_subscriber(m)
  <2>1. SetterType' /\ ReadType' /\ WriteType' BY <1>5, TypesFramed DEF remove_subscriber
  <2>2. PICK i \in DOMAIN listed : listed' = RemoveAt(listed, i) BY <1>5 DEF remove_subscriber
  <2>3. listed' \in Seq(Monitors)
    <3>1. listed \in Seq(Monitors) /\ i \in 1 .. Len(listed) BY <1>0, <2>2 DEF ValueType
    <3>2. SubSeq(listed, 1, i - 1) \in Seq(Monitors) /\ SubSeq(listed, i + 1, Len(listed)) \in Seq(Monitors)
      BY <3>1
    <3> QED BY <2>2, <3>2 DEF RemoveAt
  <2>4. ValueType' BY <1>0, <1>5, <2>3 DEF remove_subscriber, ValueType
  <2>5. MonitorType' BY <1>0, <1>5 DEF remove_subscriber, MonitorType
  <2> QED BY <2>1, <2>4, <2>5 DEF TypeOK
<1> QED BY <1>1, <1>2, <1>3, <1>4, <1>5, <1>6 DEF MonitorAsks, MonitorStep

\* A read's steps.
LEMMA ReadTyped ==
    ASSUME TypeOK, NEW g \in Getters, GetterStep(g)
    PROVE  TypeOK'
<1> USE DEF valueVars, listVars, setterVars, monitorVars, getterVars, writeVars
<1>1. ValueType' /\ SetterType' /\ MonitorType' /\ WriteType'
  BY TypesFramed DEF GetterStep, Register, LookReady, LookGone
<1>2. ReadType'
  BY DEF TypeOK, ReadType, GetterStep, Register, Registered, LookReady, LookGone
<1> QED BY <1>1, <1>2 DEF TypeOK

\* A write's steps; one in flight is counted, so it may leave the count.
LEMMA WriteTyped ==
    ASSUME TypeOK, NEW w \in Writes, wst[w] = "flight" => in_flight > 0,
           forward_write(w) \/ WriteStep(w) \/ DropEnd(w)
    PROVE  TypeOK'
<1>0. ValueType /\ SetterType /\ MonitorType /\ ReadType /\ WriteType BY DEF TypeOK
<1>a. ValueType' /\ SetterType' /\ MonitorType' /\ ReadType'
  BY TypesFramed DEF valueVars, listVars, setterVars, monitorVars, getterVars, forward_write, WriteStep,
     Subscribe, LookAgain, Start, SendReady, Leave, PostDone, Cancel, DropEnd
<1>b. SUFFICES WriteType' BY <1>a DEF TypeOK
<1>1. CASE forward_write(w)
  <2>1. /\ Refused(w) \/ Postponed(w) \/ Hold(w) \/ Look(w)
        /\ UNCHANGED <<in_flight, epoch, notify, sent>>
    BY <1>1 DEF forward_write
  <2>2. CASE Refused(w) BY <1>0, <2>1, <2>2 DEF WriteType, Refused
  <2>3. CASE Postponed(w) BY <1>0, <2>1, <2>3 DEF WriteType, Postponed
  <2>4. CASE Hold(w) BY <1>0, <2>1, <2>4 DEF WriteType, Hold
  <2>5. CASE Look(w) BY <1>0, <2>1, <2>5 DEF WriteType, Look
  <2> QED BY <2>1, <2>2, <2>3, <2>4, <2>5
<1>2. CASE Subscribe(w) BY <1>0, <1>2 DEF Subscribe, WriteType
<1>3. CASE LookAgain(w) BY <1>0, <1>3 DEF LookAgain, WriteType
<1>4. CASE Start(w)
  <2>1. in_flight' \in Nat BY <1>0, <1>4 DEF Start, WriteType
  <2>2. end' \in [Writes -> {"none", "live", "posted", "closed", "gone"}] BY <1>0, <1>4 DEF Start, WriteType
  <2> QED BY <1>0, <1>4, <2>1, <2>2 DEF Start, WriteType
<1>5. CASE SendReady(w)
  <2>1. sent' \in Seq([write : Writes, held : BOOLEAN]) BY <1>0, <1>5 DEF SendReady, Sent, WriteType
  <2> QED BY <1>0, <1>5, <2>1 DEF SendReady, WriteType
<1>6. CASE Leave(w)
  <2>1. in_flight' \in Nat BY <1>0, <1>6 DEF Leave, WriteType
  <2> QED BY <1>0, <1>6, <2>1 DEF Leave, WriteType
<1>7. CASE PostDone(w)
  <2>1. end' \in [Writes -> {"none", "live", "posted", "closed", "gone"}] /\ epoch' \in Nat
    BY <1>7, PostEndTyped DEF PostDone
  <2> QED BY <1>0, <1>7, <2>1 DEF PostDone, WriteType
<1>8. CASE Cancel(w)
  <2>1. end' \in [Writes -> {"none", "live", "posted", "closed", "gone"}] /\ epoch' \in Nat
    BY <1>8, PostEndTyped DEF Cancel
  <2> QED BY <1>0, <1>8, <2>1 DEF Cancel, WriteType
<1>9. CASE DropEnd(w)
  <2>1. \/ end' = [end EXCEPT ![w] = "gone"] /\ epoch' = epoch + 1
        \/ end' = [end EXCEPT ![w] = "closed"] /\ epoch' = epoch
    BY <1>9 DEF DropEnd, signal
  <2>2. end' \in [Writes -> {"none", "live", "posted", "closed", "gone"}] /\ epoch' \in Nat
    <3>1. end \in [Writes -> {"none", "live", "posted", "closed", "gone"}] /\ epoch \in Nat
      BY <1>0 DEF WriteType
    <3>2. CASE end' = [end EXCEPT ![w] = "gone"] /\ epoch' = epoch + 1 BY <3>1, <3>2
    <3>3. CASE end' = [end EXCEPT ![w] = "closed"] /\ epoch' = epoch BY <3>1, <3>3
    <3> QED BY <2>1, <3>2, <3>3
  <2> QED BY <1>0, <1>9, <2>2 DEF DropEnd, WriteType
<1> QED BY <1>1, <1>2, <1>3, <1>4, <1>5, <1>6, <1>7, <1>8, <1>9 DEF WriteStep

\* The destroy's steps.
LEMMA DestroyTyped ==
    ASSUME TypeOK, CloseList \/ DestroyStep
    PROVE  TypeOK'
<1> USE DEF valueVars, listVars, setterVars, monitorVars, getterVars, writeVars
<1>0. ValueType /\ SetterType /\ MonitorType /\ ReadType /\ WriteType BY DEF TypeOK
<1>1. CASE CloseList
  <2>1. SetterType' /\ ReadType' /\ WriteType' BY <1>1, TypesFramed DEF CloseList
  <2>2. ValueType' BY <1>0, <1>1 DEF CloseList, ValueType
  <2>3. MonitorType' BY <1>0, <1>1 DEF CloseList, MonitorType
  <2> QED BY <2>1, <2>2, <2>3 DEF TypeOK
<1>2. CASE TakeHeld
  <2>1. SetterType' /\ MonitorType' /\ ReadType' BY <1>2, TypesFramed DEF TakeHeld
  <2>2. ValueType' BY <1>0, <1>2 DEF TakeHeld, ValueType
  <2>3. WriteType' BY <1>0, <1>2 DEF TakeHeld, WriteType
  <2> QED BY <2>1, <2>2, <2>3 DEF TypeOK
<1>3. CASE WakeDestroyed
  <2>1. SetterType' /\ MonitorType' BY <1>3, TypesFramed DEF WakeDestroyed
  <2>2. ValueType' BY <1>0, <1>3 DEF WakeDestroyed, ValueType
  <2>3. WriteType' BY <1>0, <1>3 DEF WakeDestroyed, signal, WriteType
  <2>4. ReadType' BY <1>0, <1>3 DEF WakeDestroyed, notify_waiters, ReadType
  <2> QED BY <2>1, <2>2, <2>3, <2>4 DEF TypeOK
<1> QED BY <1>1, <1>2, <1>3 DEF DestroyStep

-----------------------------------------------------------------------------
(* The writes.                                                             *)

\* What a step that leaves the writes alone may do to the setters.
WritesApart ==
    /\ UNCHANGED <<pending, destroyed, dpc, writeVars>>
    /\ \A s \in Setters : spc'[s] \in {"drain", "first"} => spc'[s] = spc[s]

\* Such a step keeps the writes' invariant.
LEMMA WritesFramed ==
    ASSUME TypeOK, WriteInv, WritesApart
    PROVE  WriteInv'
<1> USE DEF WritesApart, writeVars
<1>1. LockKept' BY DEF WriteInv, LockKept
<1>2. FlightInv' BY DEF WriteInv, FlightInv, Flying
<1>3. SentInv' BY DEF WriteInv, SentInv, HeldWritesFirst
<1>4. HeldInv' BY DEF WriteInv, HeldInv, HeldOnce
<1>5. EndInv' BY DEF WriteInv, EndInv, PostponedHasSignal
<1> QED BY <1>1, <1>2, <1>3, <1>4, <1>5 DEF WriteInv

\* The put callbacks counted are finitely many.
LEMMA FlyingFinite == IsFiniteSet(Flying) /\ Cardinality(Flying) \in Nat
<1>1. Flying \subseteq Writes BY DEF Flying
<1>2. IsFiniteSet(Writes) BY Bounds
<1> QED BY <1>1, <1>2, FS_Subset, FS_CardinalityType

\* A write's step moves it in or out of the count.
LEMMA FlyingMoves ==
    ASSUME TypeOK, NEW w \in Writes, NEW to, wst' = [wst EXCEPT ![w] = to], notify' = notify
    PROVE  /\ (notify[w] /\ to \in {"sending", "flight"} /\ wst[w] \notin {"sending", "flight"})
                  => Cardinality(Flying') = Cardinality(Flying) + 1
           /\ (notify[w] /\ to \notin {"sending", "flight"} /\ wst[w] \in {"sending", "flight"})
                  => Cardinality(Flying') = Cardinality(Flying) - 1 /\ Cardinality(Flying) > 0
           /\ (~notify[w] \/ (to \notin {"sending", "flight"} /\ wst[w] \notin {"sending", "flight"})
                          \/ (to \in {"sending", "flight"} /\ wst[w] \in {"sending", "flight"}))
                  => Flying' = Flying
<1>1. \A x \in Writes : wst'[x] = IF x = w THEN to ELSE wst[x] BY DEF TypeOK, WriteType
<1>2. ASSUME notify[w], to \in {"sending", "flight"}, wst[w] \notin {"sending", "flight"}
      PROVE Cardinality(Flying') = Cardinality(Flying) + 1
  <2>1. Flying' = Flying \cup {w} /\ w \notin Flying BY <1>1, <1>2 DEF Flying
  <2> QED BY <2>1, FlyingFinite, FS_AddElement
<1>3. ASSUME notify[w], to \notin {"sending", "flight"}, wst[w] \in {"sending", "flight"}
      PROVE Cardinality(Flying') = Cardinality(Flying) - 1 /\ Cardinality(Flying) > 0
  <2>1. Flying' = Flying \ {w} /\ w \in Flying BY <1>1, <1>3 DEF Flying
  <2>2. Cardinality(Flying) # 0 BY <2>1, FlyingFinite, FS_EmptySet
  <2> QED BY <2>1, <2>2, FlyingFinite, FS_RemoveElement
<1>4. ASSUME \/ ~notify[w] \/ (to \notin {"sending", "flight"} /\ wst[w] \notin {"sending", "flight"})
             \/ (to \in {"sending", "flight"} /\ wst[w] \in {"sending", "flight"})
      PROVE  Flying' = Flying
  BY <1>1, <1>4 DEF Flying
<1> QED BY <1>2, <1>3, <1>4

\* A count above zero is of somebody.
LEMMA SomeFlying ==
    ASSUME in_flight = Cardinality(Flying), in_flight > 0
    PROVE  \E w \in Writes : w \in Flying
<1>1. Flying # {} BY FS_EmptySet
<1> QED BY <1>1 DEF Flying

\* The signal owed to a postponed write: while the epoch stays, an end that is
\* not gone stays so, and a destroy that is to signal goes on.
SignalKept ==
    /\ \/ epoch' = epoch + 1
       \/ /\ epoch' = epoch
          /\ \A x \in Writes : end[x] \in {"live", "posted", "closed"} =>
                 end'[x] \in {"live", "posted", "closed"}
          /\ dpc \in {"take", "cancel"} => dpc' \in {"take", "cancel"}

\* So a postponed write keeps what it waits for.
LEMMA PostponedKept ==
    ASSUME TypeOK, EndInv, SignalKept,
           \A w \in Writes : wst'[w] = "postponed" => wst[w] = "postponed" /\ seen'[w] = seen[w]
    PROVE  PostponedHasSignal'
<1> SUFFICES ASSUME NEW w \in Writes, wst'[w] = "postponed", seen'[w] = epoch'
             PROVE  \/ \E x \in Writes : end'[x] \in {"live", "posted", "closed"}
                    \/ dpc' \in {"take", "cancel"}
  BY DEF PostponedHasSignal
<1>1. wst[w] = "postponed" /\ seen'[w] = seen[w] OBVIOUS
<1>2. seen[w] \in Nat /\ epoch \in Nat /\ seen[w] <= epoch BY DEF TypeOK, WriteType, EndInv
<1>3. epoch' # epoch + 1 BY <1>1, <1>2
<1>4. seen[w] = epoch BY <1>1, <1>3 DEF SignalKept
<1> QED BY <1>1, <1>3, <1>4 DEF EndInv, PostponedHasSignal, SignalKept

\* A post of an end either leaves it posted or signals.
LEMMA PostEndSignals ==
    ASSUME TypeOK, NEW w \in Writes, PostEnd(w)
    PROVE  /\ epoch' = epoch + 1 \/ (epoch' = epoch /\ end'[w] = "posted")
           /\ \A x \in Writes : x # w => end'[x] = end[x]
<1>1. end \in [Writes -> {"none", "live", "posted", "closed", "gone"}] BY DEF TypeOK, WriteType
<1>2. CASE end[w] = "closed" BY <1>1, <1>2 DEF PostEnd, signal
<1>3. CASE end[w] # "closed" BY <1>1, <1>3 DEF PostEnd
<1> QED BY <1>2, <1>3

\* make_ready takes the lock of a pending PV.
LEMMA MakeReadyWrites ==
    ASSUME TypeOK, WriteInv, NEW s \in Setters, make_ready(s)
    PROVE  WriteInv'
<1>1. /\ heldBy = Nobody /\ pending /\ heldBy' = s /\ spc' = [spc EXCEPT ![s] = "drain"]
      /\ UNCHANGED <<pending, destroyed, dpc, held, in_flight, epoch, wst, notify, end, seen, sent>>
  BY DEF make_ready, valueVars, listVars
<1>2. s # Nobody /\ Nobody \notin Writes BY Bounds
<1>3. LockKept'
  <2>1. \A t \in Setters : t # s => spc'[t] = spc[t] BY <1>1 DEF TypeOK, SetterType
  <2>2. spc'[s] = "drain" BY <1>1 DEF TypeOK, SetterType
  <2> QED BY <1>1, <1>2, <2>1, <2>2, Bounds DEF WriteInv, LockKept
<1>4. FlightInv' BY <1>1, <1>2 DEF WriteInv, FlightInv, Flying
<1>5. SentInv' BY <1>1 DEF WriteInv, SentInv, HeldWritesFirst
<1>6. HeldInv' BY <1>1 DEF WriteInv, HeldInv, HeldOnce
<1>7. EndInv' BY <1>1 DEF WriteInv, EndInv, PostponedHasSignal
<1> QED BY <1>3, <1>4, <1>5, <1>6, <1>7 DEF WriteInv

\* A held write is sent: it leaves the held writes for the count, or is posted.
LEMMA SendHeldWrites ==
    ASSUME TypeOK, WriteInv, NEW s \in Setters, SendHeld(s)
    PROVE  WriteInv'
<1> DEFINE w == Head(held)
           to == IF notify[w] THEN "flight" ELSE "over"
<1>1. /\ spc[s] = "drain" /\ held # <<>> /\ held' = Tail(held) /\ Sent(w, TRUE)
      /\ wst' = [wst EXCEPT ![w] = to]
      /\ in_flight' = IF notify[w] THEN in_flight + 1 ELSE in_flight
      /\ IF notify[w] THEN UNCHANGED <<end, epoch>> ELSE PostEnd(w)
      /\ UNCHANGED <<pending, destroyed, dpc, spc, heldBy, notify, seen>>
  BY DEF SendHeld, valueVars, listVars, setterVars
<1>2. /\ w \in Writes /\ w \in Range(held) /\ Len(Tail(held)) = Len(held) - 1 /\ Len(held) > 0
      /\ Len(held) \in Nat /\ Range(held) = Range(Tail(held)) \cup {w}
      /\ IsInjective(Tail(held)) /\ w \notin Range(Tail(held))
  <2>1. held \in Seq(Writes) /\ held # <<>> /\ IsInjective(held)
    BY <1>1 DEF TypeOK, WriteType, WriteInv, HeldInv, HeldOnce
  <2>2. Len(held) \in Nat BY <2>1
  <2> QED BY <2>1, <2>2, TailOnce
<1>3. pending /\ heldBy = s /\ wst[w] = "held"
  BY <1>1, <1>2 DEF WriteInv, LockKept, HeldInv, HeldOnce
<1> HIDE DEF w
<1>4. \A x \in Writes : wst'[x] = IF x = w THEN to ELSE wst[x] BY <1>1, <1>2 DEF TypeOK, WriteType
<1>5. LockKept' BY <1>1, <1>4 DEF WriteInv, LockKept
<1>6. FlightInv'
  <2>1. Cardinality(Flying') = IF notify[w] THEN Cardinality(Flying) + 1 ELSE Cardinality(Flying)
    BY <1>1, <1>2, <1>3, FlyingMoves
  <2>2. in_flight' = Cardinality(Flying') BY <1>1, <2>1 DEF WriteInv, FlightInv
  <2>3. heldBy' # Nobody BY <1>1, <1>3, Bounds
  <2>4. in_flight \in Nat /\ MAX_SIMUL_WRITE_IO \in Nat /\ in_flight + Len(held) <= MAX_SIMUL_WRITE_IO + 1
    BY <1>3, Bounds DEF TypeOK, WriteType, WriteInv, FlightInv
  <2>5. in_flight' + Len(held') <= MAX_SIMUL_WRITE_IO + 1 BY <1>1, <1>2, <2>4
  <2>6. in_flight' <= MAX_SIMUL_WRITE_IO + 1 BY <1>1, <1>2, <2>4
  <2>7. \A x \in Writes : wst'[x] # "room" BY <1>3, <1>4 DEF WriteInv, SentInv
  <2> QED BY <2>2, <2>3, <2>5, <2>6, <2>7 DEF FlightInv
<1>7. SentInv'
  <2>1. \A x \in Writes : wst'[x] \notin {"full", "again", "room", "sending"} BY <1>3, <1>4 DEF WriteInv, SentInv
  <2>2. sent \in Seq([write : Writes, held : BOOLEAN]) /\ \A i \in DOMAIN sent : sent[i].held
    BY <1>3 DEF TypeOK, WriteType, WriteInv, SentInv
  <2>3. \A i \in DOMAIN sent' : sent'[i].held
    <3> DEFINE x == [write |-> w, held |-> TRUE]
    <3>1. x \in [write : Writes, held : BOOLEAN] /\ x.held BY <1>2
    <3>2. sent' = Append(sent, x) BY <1>1 DEF Sent
    <3> HIDE DEF x
    <3> QED BY <2>2, <3>1, <3>2
  <2>4. \A x \in Writes : wst'[x] = "flight" => notify'[x] BY <1>1, <1>4 DEF WriteInv, SentInv
  <2> QED BY <2>1, <2>3, <2>4 DEF SentInv, HeldWritesFirst
<1>8. HeldInv'
  <2>1. HeldOnce'
    <3>1. IsInjective(held') BY <1>1, <1>2
    <3>2. ASSUME NEW x \in Writes PROVE (wst'[x] = "held") = (x \in Range(held'))
      <4>1. CASE x = w BY <4>1, <1>1, <1>2, <1>4
      <4>2. CASE x # w BY <4>2, <1>1, <1>2, <1>4 DEF WriteInv, HeldInv, HeldOnce
      <4> QED BY <4>1, <4>2
    <3> QED BY <3>1, <3>2 DEF HeldOnce
  <2>2. dpc \notin {"cancel", "done"} BY <1>1 DEF WriteInv, HeldInv
  <2> QED BY <1>1, <1>3, <2>1, <2>2 DEF WriteInv, HeldInv
<1>9. EndInv'
  <2>1. SignalKept /\ \A x \in Writes : x # w => end'[x] = end[x]
    <3>1. CASE notify[w] BY <1>1, <3>1 DEF SignalKept
    <3>2. CASE ~notify[w] BY <1>1, <1>2, <3>2, PostEndSignals DEF SignalKept
    <3> QED BY <3>1, <3>2
  <2>2. PostponedHasSignal' BY <1>1, <1>4, <2>1, PostponedKept DEF WriteInv
  <2>3. \A x \in Writes : seen'[x] <= epoch'
    <3>1. \A x \in Writes : seen[x] \in Nat /\ seen[x] <= epoch BY DEF TypeOK, WriteType, WriteInv, EndInv
    <3>2. epoch \in Nat /\ (epoch' = epoch \/ epoch' = epoch + 1) BY <2>1 DEF SignalKept, TypeOK, WriteType
    <3> QED BY <1>1, <3>1, <3>2
  <2>4. ASSUME NEW x \in Writes,
               \/ wst'[x] \in {"held", "cancel"}
               \/ notify'[x] /\ wst'[x] \in {"sending", "flight", "post"}
        PROVE  end'[x] \in {"live", "closed"}
    <3>1. CASE x = w
      <4>1. notify[w] BY <1>1, <1>4, <2>4, <3>1
      <4>2. end' = end /\ end[w] \in {"live", "closed"} BY <1>1, <1>2, <1>3, <4>1 DEF WriteInv, EndInv
      <4> QED BY <3>1, <4>2
    <3>2. CASE x # w BY <1>1, <1>4, <2>1, <2>4, <3>2 DEF WriteInv, EndInv
    <3> QED BY <3>1, <3>2
  <2> QED BY <2>2, <2>3, <2>4 DEF EndInv
<1> QED BY <1>5, <1>6, <1>7, <1>8, <1>9 DEF WriteInv

\* The PV is made ready with nothing left to send.
LEMMA StoreReadyWrites ==
    ASSUME TypeOK, WriteInv, NEW s \in Setters, StoreReady(s)
    PROVE  WriteInv'
<1>1. /\ spc[s] = "drain" /\ held = <<>> /\ pending' = FALSE /\ spc' = [spc EXCEPT ![s] = "first"]
      /\ UNCHANGED <<destroyed, dpc, heldBy, held, in_flight, epoch, wst, notify, end, seen, sent>>
  BY DEF StoreReady, writeVars, listVars
<1>2. heldBy = s /\ pending BY <1>1 DEF WriteInv, LockKept
<1>3. LockKept'
  <2>1. \A t \in Setters : spc'[t] = IF t = s THEN "first" ELSE spc[t] BY <1>1 DEF TypeOK, SetterType
  <2>2. \A t \in Setters : spc[t] = "drain" => t = s BY <1>2 DEF WriteInv, LockKept
  <2> QED BY <1>1, <1>2, <2>1, <2>2 DEF WriteInv, LockKept
<1>4. FlightInv' BY <1>1 DEF WriteInv, FlightInv, Flying
<1>5. SentInv' BY <1>1 DEF WriteInv, SentInv, HeldWritesFirst
<1>6. HeldInv' BY <1>1 DEF WriteInv, HeldInv, HeldOnce
<1>7. EndInv' BY <1>1 DEF WriteInv, EndInv, PostponedHasSignal
<1> QED BY <1>3, <1>4, <1>5, <1>6, <1>7 DEF WriteInv

\* The lock is released once the PV is ready.
LEMMA PostFirstWrites ==
    ASSUME TypeOK, WriteInv, NEW s \in Setters, PostFirst(s)
    PROVE  WriteInv'
<1>1. CASE todo[s] # <<>>
  <2>1. WritesApart BY <1>1 DEF PostFirst, WritesApart, writeVars, listVars
  <2> QED BY <2>1, WritesFramed
<1>2. CASE todo[s] = <<>>
  <2>1. /\ spc[s] = "first" /\ heldBy' = Nobody /\ spc' = [spc EXCEPT ![s] = "wake"]
        /\ UNCHANGED <<pending, destroyed, dpc, held, in_flight, epoch, wst, notify, end, seen, sent>>
    BY <1>2 DEF PostFirst, listVars
  <2>2. heldBy = s /\ ~pending BY <2>1 DEF WriteInv, LockKept
  <2>3. LockKept'
    <3>1. \A t \in Setters : spc'[t] = IF t = s THEN "wake" ELSE spc[t] BY <2>1 DEF TypeOK, SetterType
    <3>2. \A t \in Setters : spc[t] \in {"drain", "first"} => t = s BY <2>2 DEF WriteInv, LockKept
    <3>3. \A w \in Writes : wst[w] \notin {"full", "again", "room"}
      BY <2>2, Bounds DEF WriteInv, LockKept
    <3> QED BY <2>1, <3>1, <3>2, <3>3 DEF LockKept
  <2>4. FlightInv' BY <2>1, <2>2 DEF WriteInv, FlightInv, Flying
  <2>5. SentInv' BY <2>1 DEF WriteInv, SentInv, HeldWritesFirst
  <2>6. HeldInv' BY <2>1 DEF WriteInv, HeldInv, HeldOnce
  <2>7. EndInv' BY <2>1 DEF WriteInv, EndInv, PostponedHasSignal
  <2> QED BY <2>3, <2>4, <2>5, <2>6, <2>7 DEF WriteInv
<1> QED BY <1>1, <1>2

\* A write that finds the PV destroyed is refused.
LEMMA RefusedWrites ==
    ASSUME TypeOK, WriteInv, NEW w \in Writes, forward_write(w), Refused(w)
    PROVE  WriteInv'
<1>1. /\ wst' = [wst EXCEPT ![w] = "over"]
      /\ wst[w] \in {"new", "postponed"}
      /\ UNCHANGED <<pending, destroyed, dpc, spc, notify, heldBy, held, in_flight, epoch, end, seen, sent>>
  BY DEF Refused, forward_write, Requested, valueVars, listVars, setterVars
<1>2. \A x \in Writes : wst'[x] = IF x = w THEN "over" ELSE wst[x] BY <1>1 DEF TypeOK, WriteType
<1>3. LockKept' BY <1>1, <1>2 DEF WriteInv, LockKept
<1>4. FlightInv'
  <2>1. Flying' = Flying BY <1>1, <1>2 DEF Flying
  <2> QED BY <1>1, <1>2, <2>1 DEF WriteInv, FlightInv
<1>5. SentInv' BY <1>1, <1>2 DEF WriteInv, SentInv, HeldWritesFirst
<1>6. HeldInv' BY <1>1, <1>2 DEF WriteInv, HeldInv, HeldOnce
<1>7. EndInv'
  <2>1. PostponedHasSignal' BY <1>1, <1>2 DEF WriteInv, EndInv, PostponedHasSignal
  <2> QED BY <1>1, <1>2, <2>1 DEF WriteInv, EndInv
<1> QED BY <1>3, <1>4, <1>5, <1>6, <1>7 DEF WriteInv

\* One that finds too many held is postponed behind them.
LEMMA PostponedWrites ==
    ASSUME TypeOK, WriteInv, NEW w \in Writes, forward_write(w), Postponed(w),
           Len(held) > MAX_SIMUL_WRITE_IO
    PROVE  WriteInv'
<1>1. /\ wst' = [wst EXCEPT ![w] = "postponed"] /\ seen' = [seen EXCEPT ![w] = epoch]
      /\ wst[w] \in {"new", "postponed"}
      /\ UNCHANGED <<pending, destroyed, dpc, spc, notify, heldBy, held, in_flight, epoch, end, sent>>
  BY DEF Postponed, forward_write, Requested, valueVars, listVars, setterVars
<1>2. \A x \in Writes : wst'[x] = IF x = w THEN "postponed" ELSE wst[x] BY <1>1 DEF TypeOK, WriteType
<1>3. LockKept' BY <1>1, <1>2 DEF WriteInv, LockKept
<1>4. FlightInv'
  <2>1. Flying' = Flying BY <1>1, <1>2 DEF Flying
  <2> QED BY <1>1, <1>2, <2>1 DEF WriteInv, FlightInv
<1>5. SentInv' BY <1>1, <1>2 DEF WriteInv, SentInv, HeldWritesFirst
<1>6. HeldInv' BY <1>1, <1>2 DEF WriteInv, HeldInv, HeldOnce
<1>7. EndInv'
  <2>1. PICK x \in Writes : end[x] \in {"live", "closed"}
    <3>1. held \in Seq(Writes) /\ held # <<>> BY Bounds DEF TypeOK, WriteType
    <3>2. Head(held) \in Writes /\ Head(held) \in Range(held) BY <3>1, TailOnce
    <3> QED BY <3>2 DEF WriteInv, HeldInv, HeldOnce, EndInv
  <2>2. PostponedHasSignal' BY <1>1, <2>1 DEF PostponedHasSignal
  <2>3. \A y \in Writes : seen'[y] <= epoch'
    <3>1. seen \in [Writes -> Nat] /\ epoch \in Nat BY DEF TypeOK, WriteType
    <3> QED BY <1>1, <3>1 DEF WriteInv, EndInv
  <2> QED BY <1>1, <1>2, <2>2, <2>3 DEF WriteInv, EndInv
<1> QED BY <1>3, <1>4, <1>5, <1>6, <1>7 DEF WriteInv

\* A pending PV holds the write: nothing is in flight yet, so there is room for
\* all it holds.
LEMMA HoldWrites ==
    ASSUME TypeOK, WriteInv, NEW w \in Writes, forward_write(w), Hold(w),
           pending, ~destroyed, Len(held) <= MAX_SIMUL_WRITE_IO
    PROVE  WriteInv'
<1>1. /\ held' = Append(held, w) /\ end' = [end EXCEPT ![w] = "live"]
      /\ wst' = [wst EXCEPT ![w] = "held"]
      /\ wst[w] \in {"new", "postponed"} /\ heldBy = Nobody
      /\ UNCHANGED <<pending, destroyed, dpc, spc, notify, heldBy, in_flight, epoch, seen, sent>>
  BY DEF Hold, forward_write, Requested, valueVars, listVars, setterVars
<1>2. \A x \in Writes : wst'[x] = IF x = w THEN "held" ELSE wst[x] BY <1>1 DEF TypeOK, WriteType
<1>3. LockKept' BY <1>1, <1>2 DEF WriteInv, LockKept
<1>a. /\ held \in Seq(Writes) /\ Len(held) \in Nat
      /\ Len(held') = Len(held) + 1 /\ Range(held') = Range(held) \cup {w}
      /\ IsInjective(held')
  <2>1. held \in Seq(Writes) /\ IsInjective(held) /\ w \notin Range(held)
    BY <1>1 DEF TypeOK, WriteType, WriteInv, HeldInv, HeldOnce
  <2>2. Len(held) \in Nat BY <2>1
  <2> QED BY <1>1, <2>1, <2>2, AppendOnce
<1>4. FlightInv'
  <2>1. Flying' = Flying BY <1>1, <1>2 DEF Flying
  <2>2. in_flight = 0 BY <1>1 DEF WriteInv, FlightInv
  <2>3. in_flight' + Len(held') <= MAX_SIMUL_WRITE_IO + 1 BY <1>1, <1>a, <2>2, Bounds
  <2> QED BY <1>1, <1>2, <2>1, <2>3 DEF WriteInv, FlightInv
<1>5. SentInv' BY <1>1, <1>2 DEF WriteInv, SentInv, HeldWritesFirst
<1>6. HeldInv'
  <2>1. HeldOnce'
    <3>1. ASSUME NEW x \in Writes PROVE (wst'[x] = "held") = (x \in Range(held'))
      <4>1. CASE x = w BY <4>1, <1>2, <1>a
      <4>2. CASE x # w BY <4>2, <1>2, <1>a DEF WriteInv, HeldInv, HeldOnce
      <4> QED BY <4>1, <4>2
    <3> QED BY <1>a, <3>1 DEF HeldOnce
  <2>2. dpc = "idle" BY DEF WriteInv, HeldInv
  <2> QED BY <1>1, <2>1, <2>2 DEF WriteInv, HeldInv
<1>7. EndInv'
  <2>1. \A x \in Writes : end'[x] = IF x = w THEN "live" ELSE end[x] BY <1>1 DEF TypeOK, WriteType
  <2>2. SignalKept BY <1>1, <2>1 DEF SignalKept
  <2>3. PostponedHasSignal' BY <1>1, <1>2, <2>2, PostponedKept DEF WriteInv
  <2> QED BY <1>1, <1>2, <2>1, <2>3 DEF WriteInv, EndInv
<1> QED BY <1>3, <1>4, <1>5, <1>6, <1>7 DEF WriteInv

\* A ready PV's write looks at the count with the lock.
LEMMA LookWrites ==
    ASSUME TypeOK, WriteInv, NEW w \in Writes, forward_write(w), Look(w), ~pending
    PROVE  WriteInv'
<1> DEFINE to == IF in_flight >= MAX_SIMUL_WRITE_IO THEN "full" ELSE "room"
<1>1. /\ heldBy' = w /\ wst' = [wst EXCEPT ![w] = to]
      /\ wst[w] \in {"new", "postponed"} /\ heldBy = Nobody
      /\ UNCHANGED <<pending, destroyed, dpc, spc, notify, held, in_flight, epoch, end, seen, sent>>
  BY DEF Look, forward_write, Requested, valueVars, listVars, setterVars
<1>2. \A x \in Writes : wst'[x] = IF x = w THEN to ELSE wst[x] BY <1>1 DEF TypeOK, WriteType
<1>a. Nobody \notin Writes /\ Nobody \notin Setters BY Bounds
<1>b. to \in {"full", "room"} /\ (to = "room" => in_flight < MAX_SIMUL_WRITE_IO)
  BY Bounds DEF TypeOK, WriteType
<1> HIDE DEF to
<1>3. LockKept' BY <1>1, <1>2, <1>a DEF WriteInv, LockKept
<1>4. FlightInv'
  <2>1. Flying' = Flying BY <1>1, <1>b, FlyingMoves
  <2>2. \A x \in Writes : wst'[x] = "room" => in_flight' < MAX_SIMUL_WRITE_IO
    BY <1>1, <1>2, <1>b DEF WriteInv, FlightInv
  <2> QED BY <1>1, <2>1, <2>2 DEF WriteInv, FlightInv
<1>5. SentInv' BY <1>1, <1>2, <1>b DEF WriteInv, SentInv, HeldWritesFirst
<1>6. HeldInv' BY <1>1, <1>2, <1>b DEF WriteInv, HeldInv, HeldOnce
<1>7. EndInv'
  <2>1. PostponedHasSignal' BY <1>1, <1>2, <1>b DEF WriteInv, EndInv, PostponedHasSignal
  <2> QED BY <1>1, <1>2, <1>b, <2>1 DEF WriteInv, EndInv
<1> QED BY <1>3, <1>4, <1>5, <1>6, <1>7 DEF WriteInv

\* A request, whichever way it goes.
LEMMA ForwardWrites ==
    ASSUME TypeOK, WriteInv, NEW w \in Writes, forward_write(w)
    PROVE  WriteInv'
<1>1. CASE destroyed BY <1>1, RefusedWrites DEF forward_write
<1>2. CASE ~destroyed /\ pending /\ Len(held) > MAX_SIMUL_WRITE_IO
  BY <1>2, PostponedWrites DEF forward_write
<1>3. CASE ~destroyed /\ pending /\ ~(Len(held) > MAX_SIMUL_WRITE_IO)
  <2>1. Len(held) <= MAX_SIMUL_WRITE_IO BY <1>3, Bounds DEF TypeOK, WriteType
  <2> QED BY <1>3, <2>1, HoldWrites DEF forward_write
<1>4. CASE ~destroyed /\ ~pending BY <1>4, LookWrites DEF forward_write
<1> QED BY <1>1, <1>2, <1>3, <1>4

\* The subscribe notes the epoch.
LEMMA SubscribeWrites ==
    ASSUME TypeOK, WriteInv, NEW w \in Writes, Subscribe(w)
    PROVE  WriteInv'
<1>1. /\ wst[w] = "full" /\ seen' = [seen EXCEPT ![w] = epoch] /\ wst' = [wst EXCEPT ![w] = "again"]
      /\ UNCHANGED <<pending, destroyed, dpc, spc, notify, heldBy, held, in_flight, epoch, end, sent>>
  BY DEF Subscribe, valueVars, listVars, setterVars
<1>2. \A x \in Writes : wst'[x] = IF x = w THEN "again" ELSE wst[x] BY <1>1 DEF TypeOK, WriteType
<1>a. \A x \in Writes : seen'[x] = IF x = w THEN epoch ELSE seen[x] BY <1>1 DEF TypeOK, WriteType
<1>3. LockKept' BY <1>1, <1>2 DEF WriteInv, LockKept
<1>4. FlightInv'
  <2>1. Flying' = Flying BY <1>1, <1>2 DEF Flying
  <2> QED BY <1>1, <1>2, <2>1 DEF WriteInv, FlightInv
<1>5. SentInv' BY <1>1, <1>2 DEF WriteInv, SentInv, HeldWritesFirst
<1>6. HeldInv' BY <1>1, <1>2 DEF WriteInv, HeldInv, HeldOnce
<1>7. EndInv'
  <2>1. PostponedHasSignal' BY <1>1, <1>2, <1>a DEF WriteInv, EndInv, PostponedHasSignal
  <2>2. epoch <= epoch BY DEF TypeOK, WriteType
  <2>3. \A x \in Writes : seen'[x] <= epoch' BY <1>1, <1>a, <2>2 DEF WriteInv, EndInv
  <2> QED BY <1>1, <1>2, <2>1, <2>3 DEF WriteInv, EndInv
<1> QED BY <1>3, <1>4, <1>5, <1>6, <1>7 DEF WriteInv

\* Either there is room, or a callback counted now has an end that is not gone.
LEMMA LookAgainWrites ==
    ASSUME TypeOK, WriteInv, NEW w \in Writes, LookAgain(w)
    PROVE  WriteInv'
<1> DEFINE to == IF in_flight >= MAX_SIMUL_WRITE_IO THEN "postponed" ELSE "room"
<1>1. /\ wst[w] = "again" /\ wst' = [wst EXCEPT ![w] = to]
      /\ heldBy' = IF in_flight >= MAX_SIMUL_WRITE_IO THEN Nobody ELSE heldBy
      /\ UNCHANGED <<pending, destroyed, dpc, spc, notify, held, in_flight, epoch, end, seen, sent>>
  BY DEF LookAgain, valueVars, listVars, setterVars
<1>2. \A x \in Writes : wst'[x] = IF x = w THEN to ELSE wst[x] BY <1>1 DEF TypeOK, WriteType
<1>a. heldBy = w /\ ~pending BY <1>1 DEF WriteInv, LockKept, SentInv
<1>b. w \notin Setters BY Bounds
<1>c. in_flight \in Nat /\ MAX_SIMUL_WRITE_IO \in Nat \ {0} BY Bounds DEF TypeOK, WriteType
<1>3. LockKept'
  <2>1. \A s \in Setters : spc[s] \notin {"drain", "first"} BY <1>a, <1>b DEF WriteInv, LockKept
  <2>2. \A x \in Writes : x # w => wst[x] \notin {"full", "again", "room"} BY <1>a DEF WriteInv, LockKept
  <2> QED BY <1>1, <1>2, <1>a, <2>1, <2>2 DEF LockKept
<1>4. FlightInv'
  <2>1. Flying' = Flying BY <1>1, <1>2 DEF Flying
  <2>2. \A x \in Writes : wst'[x] = "room" => in_flight' < MAX_SIMUL_WRITE_IO
    BY <1>1, <1>2, <1>c DEF WriteInv, FlightInv
  <2> QED BY <1>1, <1>a, <2>1, <2>2 DEF WriteInv, FlightInv
<1>5. SentInv' BY <1>1, <1>2, <1>a DEF WriteInv, SentInv, HeldWritesFirst
<1>6. HeldInv' BY <1>1, <1>2 DEF WriteInv, HeldInv, HeldOnce
<1>7. EndInv'
  <2>1. PostponedHasSignal'
    <3>1. CASE in_flight >= MAX_SIMUL_WRITE_IO
      <4>1. in_flight > 0 /\ in_flight = Cardinality(Flying) BY <1>c, <3>1 DEF WriteInv, FlightInv
      <4>2. PICK x \in Writes : x \in Flying BY <4>1, SomeFlying
      <4>3. end[x] \in {"live", "closed"} BY <4>2 DEF Flying, WriteInv, EndInv
      <4> QED BY <1>1, <4>3 DEF PostponedHasSignal
    <3>2. CASE ~(in_flight >= MAX_SIMUL_WRITE_IO)
      BY <1>1, <1>2, <3>2 DEF WriteInv, EndInv, PostponedHasSignal
    <3> QED BY <3>1, <3>2
  <2> QED BY <1>1, <1>2, <2>1 DEF WriteInv, EndInv
<1> QED BY <1>3, <1>4, <1>5, <1>6, <1>7 DEF WriteInv

\* A write with room is counted before the lock is released.
LEMMA StartWrites ==
    ASSUME TypeOK, WriteInv, NEW w \in Writes, Start(w)
    PROVE  WriteInv'
<1>1. /\ wst[w] = "room" /\ heldBy' = Nobody /\ wst' = [wst EXCEPT ![w] = "sending"]
      /\ in_flight' = in_flight + (IF notify[w] THEN 1 ELSE 0)
      /\ end' = [end EXCEPT ![w] = IF notify[w] THEN "live" ELSE @]
      /\ UNCHANGED <<pending, destroyed, dpc, spc, notify, held, epoch, seen, sent>>
  BY DEF Start, valueVars, listVars, setterVars
<1>2. \A x \in Writes : wst'[x] = IF x = w THEN "sending" ELSE wst[x] BY <1>1 DEF TypeOK, WriteType
<1>a. heldBy = w /\ ~pending BY <1>1 DEF WriteInv, LockKept, SentInv
<1>b. w \notin Setters BY Bounds
<1>c. in_flight \in Nat /\ MAX_SIMUL_WRITE_IO \in Nat /\ in_flight < MAX_SIMUL_WRITE_IO
  BY <1>1, Bounds DEF TypeOK, WriteType, WriteInv, FlightInv
<1>d. \A x \in Writes : x # w => wst[x] \notin {"full", "again", "room"} BY <1>a DEF WriteInv, LockKept
<1>3. LockKept'
  <2>1. \A s \in Setters : spc[s] \notin {"drain", "first"} BY <1>a, <1>b DEF WriteInv, LockKept
  <2> QED BY <1>1, <1>2, <1>d, <2>1 DEF LockKept
<1>4. FlightInv'
  <2>1. Cardinality(Flying') = Cardinality(Flying) + (IF notify[w] THEN 1 ELSE 0)
    <3>1. CASE notify[w] BY <1>1, <3>1, FlyingMoves
    <3>2. CASE ~notify[w]
      <4>1. Flying' = Flying BY <1>1, <3>2, FlyingMoves
      <4> QED BY <3>2, <4>1, FlyingFinite
    <3> QED BY <3>1, <3>2
  <2>2. in_flight' = Cardinality(Flying') BY <1>1, <2>1 DEF WriteInv, FlightInv
  <2>3. in_flight' <= MAX_SIMUL_WRITE_IO + 1 BY <1>1, <1>c
  <2>4. \A x \in Writes : wst'[x] # "room" BY <1>2, <1>d
  <2> QED BY <1>1, <1>a, <2>2, <2>3, <2>4 DEF FlightInv
<1>5. SentInv' BY <1>1, <1>2, <1>a DEF WriteInv, SentInv, HeldWritesFirst
<1>6. HeldInv' BY <1>1, <1>2 DEF WriteInv, HeldInv, HeldOnce
<1>7. EndInv'
  <2>1. \A x \in Writes : end'[x] = IF x = w /\ notify[w] THEN "live" ELSE end[x]
    BY <1>1 DEF TypeOK, WriteType
  <2>2. SignalKept BY <1>1, <2>1 DEF SignalKept
  <2>3. PostponedHasSignal' BY <1>1, <1>2, <2>2, PostponedKept DEF WriteInv
  <2> QED BY <1>1, <1>2, <2>1, <2>3 DEF WriteInv, EndInv
<1> QED BY <1>3, <1>4, <1>5, <1>6, <1>7 DEF WriteInv

\* A write sent by its own thread goes after every held one: the PV is ready.
LEMMA SendReadyWrites ==
    ASSUME TypeOK, WriteInv, NEW w \in Writes, SendReady(w)
    PROVE  WriteInv'
<1> DEFINE to == IF notify[w] THEN "flight" ELSE "over"
<1>1. /\ wst[w] = "sending" /\ wst' = [wst EXCEPT ![w] = to] /\ Sent(w, FALSE)
      /\ UNCHANGED <<pending, destroyed, dpc, spc, notify, heldBy, held, in_flight, epoch, end, seen>>
  BY DEF SendReady, valueVars, listVars, setterVars
<1>2. \A x \in Writes : wst'[x] = IF x = w THEN to ELSE wst[x] BY <1>1 DEF TypeOK, WriteType
<1>a. ~pending BY <1>1 DEF WriteInv, SentInv
<1>3. LockKept' BY <1>1, <1>2 DEF WriteInv, LockKept
<1>4. FlightInv'
  <2>1. Flying' = Flying BY <1>1, FlyingMoves
  <2> QED BY <1>1, <1>2, <2>1 DEF WriteInv, FlightInv
<1>5. SentInv'
  <2> DEFINE x == [write |-> w, held |-> FALSE]
  <2>1. sent \in Seq([write : Writes, held : BOOLEAN]) BY DEF TypeOK, WriteType
  <2>2. x \in [write : Writes, held : BOOLEAN] /\ ~x.held OBVIOUS
  <2>3. sent' = Append(sent, x) BY <1>1 DEF Sent
  <2> HIDE DEF x
  <2>4. HeldWritesFirst'
    <3> SUFFICES ASSUME NEW i \in DOMAIN sent', NEW j \in DOMAIN sent', i < j, sent'[j].held
                 PROVE  sent'[i].held
      BY DEF HeldWritesFirst
    <3>1. Len(sent) \in Nat /\ DOMAIN sent = 1 .. Len(sent) /\ DOMAIN sent' = 1 .. Len(sent) + 1
          /\ sent'[Len(sent) + 1] = x /\ \A k \in 1 .. Len(sent) : sent'[k] = sent[k]
      BY <2>1, <2>2, <2>3
    <3>2. j # Len(sent) + 1 BY <2>2, <3>1
    <3>3. j \in DOMAIN sent /\ i \in DOMAIN sent BY <3>1, <3>2
    <3> QED BY <3>1, <3>3 DEF WriteInv, SentInv, HeldWritesFirst
  <2> QED BY <1>1, <1>2, <1>a, <2>4 DEF WriteInv, SentInv
<1>6. HeldInv' BY <1>1, <1>2 DEF WriteInv, HeldInv, HeldOnce
<1>7. EndInv'
  <2>1. PostponedHasSignal' BY <1>1, <1>2 DEF WriteInv, EndInv, PostponedHasSignal
  <2> QED BY <1>1, <1>2, <2>1 DEF WriteInv, EndInv
<1> QED BY <1>3, <1>4, <1>5, <1>6, <1>7 DEF WriteInv

\* An answered callback leaves the count.
LEMMA LeaveWrites ==
    ASSUME TypeOK, WriteInv, NEW w \in Writes, Leave(w)
    PROVE  WriteInv'
<1>1. /\ wst[w] = "flight" /\ wst' = [wst EXCEPT ![w] = "post"] /\ in_flight' = in_flight - 1
      /\ UNCHANGED <<pending, destroyed, dpc, spc, notify, heldBy, held, epoch, end, seen, sent>>
  BY DEF Leave, valueVars, listVars, setterVars
<1>2. \A x \in Writes : wst'[x] = IF x = w THEN "post" ELSE wst[x] BY <1>1 DEF TypeOK, WriteType
<1>3. LockKept' BY <1>1, <1>2 DEF WriteInv, LockKept
<1>4. FlightInv'
  <2> DEFINE to == "post"
  <2>1. wst' = [wst EXCEPT ![w] = to] /\ to \notin {"sending", "flight"} BY <1>1
  <2> HIDE DEF to
  <2>0. notify[w] BY <1>1 DEF WriteInv, SentInv
  <2>2. Cardinality(Flying') = Cardinality(Flying) - 1 /\ Cardinality(Flying) > 0
    BY <1>1, <2>0, <2>1, FlyingMoves
  <2>3. in_flight \in Nat /\ in_flight = Cardinality(Flying) BY DEF TypeOK, WriteType, WriteInv, FlightInv
  <2>4. in_flight' = Cardinality(Flying') /\ in_flight' < in_flight /\ in_flight > 0 /\ in_flight' \in Nat
    BY <1>1, <2>2, <2>3
  <2>5. Len(held) \in Nat /\ MAX_SIMUL_WRITE_IO \in Nat BY Bounds DEF TypeOK, WriteType
  <2>6. in_flight' <= MAX_SIMUL_WRITE_IO + 1 BY <2>3, <2>4, <2>5 DEF WriteInv, FlightInv
  <2>7. pending => in_flight' + Len(held) <= MAX_SIMUL_WRITE_IO + 1
    BY <2>3, <2>4, <2>5 DEF WriteInv, FlightInv
  <2>8. ~(pending /\ heldBy = Nobody) BY <2>4 DEF WriteInv, FlightInv
  <2>9. \A x \in Writes : wst'[x] = "room" => in_flight' < MAX_SIMUL_WRITE_IO
    <3> TAKE x \in Writes
    <3> HAVE wst'[x] = "room"
    <3>1. in_flight < MAX_SIMUL_WRITE_IO BY <1>2 DEF WriteInv, FlightInv
    <3> QED BY <3>1, <2>3, <2>4, <2>5
  <2> QED BY <1>1, <2>4, <2>6, <2>7, <2>8, <2>9 DEF FlightInv
<1>5. SentInv' BY <1>1, <1>2 DEF WriteInv, SentInv, HeldWritesFirst
<1>6. HeldInv' BY <1>1, <1>2 DEF WriteInv, HeldInv, HeldOnce
<1>7. EndInv'
  <2>1. PostponedHasSignal' BY <1>1, <1>2 DEF WriteInv, EndInv, PostponedHasSignal
  <2> QED BY <1>1, <1>2, <2>1 DEF WriteInv, EndInv
<1> QED BY <1>3, <1>4, <1>5, <1>6, <1>7 DEF WriteInv

\* A post or a cancel ends the write.
LEMMA PostDoneWrites ==
    ASSUME TypeOK, WriteInv, NEW w \in Writes, PostDone(w) \/ Cancel(w)
    PROVE  WriteInv'
<1>1. /\ wst[w] \in {"post", "cancel"} /\ wst' = [wst EXCEPT ![w] = "over"] /\ PostEnd(w)
      /\ UNCHANGED <<pending, destroyed, dpc, spc, notify, heldBy, held, in_flight, seen, sent>>
  BY DEF PostDone, Cancel, valueVars, listVars, setterVars
<1>2. \A x \in Writes : wst'[x] = IF x = w THEN "over" ELSE wst[x] BY <1>1 DEF TypeOK, WriteType
<1>3. LockKept' BY <1>1, <1>2 DEF WriteInv, LockKept
<1>4. FlightInv'
  <2>1. Flying' = Flying BY <1>1, <1>2 DEF Flying
  <2> QED BY <1>1, <1>2, <2>1 DEF WriteInv, FlightInv
<1>5. SentInv' BY <1>1, <1>2 DEF WriteInv, SentInv, HeldWritesFirst
<1>6. HeldInv' BY <1>1, <1>2 DEF WriteInv, HeldInv, HeldOnce
<1>7. EndInv'
  <2>1. SignalKept /\ \A x \in Writes : x # w => end'[x] = end[x]
    BY <1>1, PostEndSignals DEF SignalKept
  <2>2. PostponedHasSignal' BY <1>1, <1>2, <2>1, PostponedKept DEF WriteInv
  <2>3. \A x \in Writes : seen'[x] <= epoch'
    <3>1. \A x \in Writes : seen[x] \in Nat /\ seen[x] <= epoch BY DEF TypeOK, WriteType, WriteInv, EndInv
    <3>2. epoch \in Nat /\ (epoch' = epoch \/ epoch' = epoch + 1) BY <2>1 DEF SignalKept, TypeOK, WriteType
    <3> QED BY <1>1, <3>1, <3>2
  <2> QED BY <1>1, <1>2, <2>1, <2>2, <2>3 DEF WriteInv, EndInv
<1> QED BY <1>3, <1>4, <1>5, <1>6, <1>7 DEF WriteInv

\* A client drops its end: after the post it signals, before it the post will.
LEMMA DropEndWrites ==
    ASSUME TypeOK, WriteInv, NEW w \in Writes, DropEnd(w)
    PROVE  WriteInv'
<1>1. /\ \/ end[w] = "posted" /\ end' = [end EXCEPT ![w] = "gone"] /\ epoch' = epoch + 1
         \/ end[w] = "live" /\ end' = [end EXCEPT ![w] = "closed"] /\ epoch' = epoch
      /\ UNCHANGED <<pending, destroyed, dpc, spc, notify, heldBy, held, in_flight, wst, seen, sent>>
  BY DEF DropEnd, signal, valueVars, listVars, setterVars
<1>3. LockKept' BY <1>1 DEF WriteInv, LockKept
<1>4. FlightInv' BY <1>1 DEF WriteInv, FlightInv, Flying
<1>5. SentInv' BY <1>1 DEF WriteInv, SentInv, HeldWritesFirst
<1>6. HeldInv' BY <1>1 DEF WriteInv, HeldInv, HeldOnce
<1>7. EndInv'
  <2>0. end \in [Writes -> {"none", "live", "posted", "closed", "gone"}] BY DEF TypeOK, WriteType
  <2>1. \A x \in Writes : x # w => end'[x] = end[x] BY <1>1, <2>0
  <2>2. \/ epoch' = epoch + 1 /\ end[w] = "posted"
        \/ epoch' = epoch /\ end[w] = "live" /\ end'[w] = "closed"
    BY <1>1, <2>0
  <2>3. SignalKept BY <1>1, <2>1, <2>2 DEF SignalKept
  <2>4. PostponedHasSignal' BY <1>1, <2>3, PostponedKept DEF WriteInv
  <2>5. \A x \in Writes : seen'[x] <= epoch'
    <3>1. \A x \in Writes : seen[x] \in Nat /\ seen[x] <= epoch BY DEF TypeOK, WriteType, WriteInv, EndInv
    <3>2. epoch \in Nat /\ (epoch' = epoch \/ epoch' = epoch + 1) BY <2>2 DEF TypeOK, WriteType
    <3> QED BY <1>1, <3>1, <3>2
  <2>6. ASSUME NEW x \in Writes,
               \/ wst'[x] \in {"held", "cancel"}
               \/ notify'[x] /\ wst'[x] \in {"sending", "flight", "post"}
        PROVE  end'[x] \in {"live", "closed"}
    <3>1. end[x] \in {"live", "closed"} BY <1>1, <2>6 DEF WriteInv, EndInv
    <3> QED BY <2>1, <2>2, <3>1
  <2> QED BY <2>4, <2>5, <2>6 DEF EndInv
<1> QED BY <1>3, <1>4, <1>5, <1>6, <1>7 DEF WriteInv

\* The destroy: its signal is owed from the close of the list, and what is held
\* is taken under the lock.
LEMMA DestroyWrites ==
    ASSUME TypeOK, WriteInv, CloseList \/ DestroyStep
    PROVE  WriteInv'
<1>1. CASE CloseList
  <2>1. /\ dpc = "idle" /\ dpc' = "take" /\ destroyed' = TRUE
        /\ UNCHANGED <<pending, spc, heldBy, held, in_flight, epoch, wst, notify, end, seen, sent>>
    BY <1>1 DEF CloseList, valueVars, setterVars, writeVars
  <2>2. LockKept' BY <2>1 DEF WriteInv, LockKept
  <2>3. FlightInv' BY <2>1 DEF WriteInv, FlightInv, Flying
  <2>4. SentInv' BY <2>1 DEF WriteInv, SentInv, HeldWritesFirst
  <2>5. HeldInv' BY <2>1 DEF WriteInv, HeldInv, HeldOnce
  <2>6. EndInv' BY <2>1 DEF WriteInv, EndInv, PostponedHasSignal
  <2> QED BY <2>2, <2>3, <2>4, <2>5, <2>6 DEF WriteInv
<1>2. CASE TakeHeld
  <2>1. /\ dpc = "take" /\ dpc' = "cancel" /\ heldBy = Nobody /\ held' = <<>>
        /\ wst' = [w \in Writes |-> IF w \in Range(held) THEN "cancel" ELSE wst[w]]
        /\ UNCHANGED <<pending, destroyed, spc, heldBy, in_flight, epoch, notify, end, seen, sent>>
    BY <1>2 DEF TakeHeld, valueVars, listVars, setterVars
  <2>a. \A w \in Writes : wst'[w] = IF wst[w] = "held" THEN "cancel" ELSE wst[w]
    BY <2>1 DEF WriteInv, HeldInv, HeldOnce
  <2>2. LockKept' BY <2>1, <2>a DEF WriteInv, LockKept
  <2>3. FlightInv'
    <3>1. Flying' = Flying BY <2>1, <2>a DEF Flying
    <3>2. Len(held') = 0 /\ in_flight \in Nat BY <2>1 DEF TypeOK, WriteType
    <3>3. in_flight' + Len(held') <= MAX_SIMUL_WRITE_IO + 1
      BY <2>1, <3>2, Bounds DEF WriteInv, FlightInv
    <3> QED BY <2>1, <2>a, <3>1, <3>3 DEF WriteInv, FlightInv
  <2>4. SentInv' BY <2>1, <2>a DEF WriteInv, SentInv, HeldWritesFirst
  <2>5. HeldInv'
    <3>1. Range(held') = {} /\ IsInjective(held') BY <2>1 DEF Range, IsInjective
    <3>2. \A w \in Writes : wst'[w] # "held" BY <2>a
    <3> QED BY <2>1, <3>1, <3>2 DEF WriteInv, HeldInv, HeldOnce
  <2>6. EndInv'
    <3>1. PostponedHasSignal' BY <2>1 DEF PostponedHasSignal
    <3> QED BY <2>1, <2>a, <3>1 DEF WriteInv, EndInv
  <2> QED BY <2>2, <2>3, <2>4, <2>5, <2>6 DEF WriteInv
<1>3. CASE WakeDestroyed
  <2>1. /\ dpc = "cancel" /\ dpc' = "done" /\ epoch' = epoch + 1
        /\ UNCHANGED <<pending, destroyed, spc, heldBy, held, in_flight, wst, notify, end, seen, sent>>
    BY <1>3 DEF WakeDestroyed, AllCanceled, signal, valueVars, listVars, setterVars
  <2>2. LockKept' BY <2>1 DEF WriteInv, LockKept
  <2>3. FlightInv' BY <2>1 DEF WriteInv, FlightInv, Flying
  <2>4. SentInv' BY <2>1 DEF WriteInv, SentInv, HeldWritesFirst
  <2>5. HeldInv' BY <2>1 DEF WriteInv, HeldInv, HeldOnce
  <2>6. EndInv'
    <3>1. PostponedHasSignal' BY <2>1, PostponedKept DEF WriteInv, SignalKept
    <3>2. \A x \in Writes : seen[x] \in Nat /\ seen[x] <= epoch BY DEF TypeOK, WriteType, WriteInv, EndInv
    <3>3. \A x \in Writes : seen'[x] <= epoch' BY <2>1, <3>2 DEF TypeOK, WriteType
    <3> QED BY <2>1, <3>1, <3>3 DEF WriteInv, EndInv
  <2> QED BY <2>2, <2>3, <2>4, <2>5, <2>6 DEF WriteInv
<1> QED BY <1>1, <1>2, <1>3 DEF DestroyStep

\* A write in flight is counted.
LEMMA FlightCounted ==
    ASSUME TypeOK, WriteInv, NEW w \in Writes, wst[w] = "flight"
    PROVE  in_flight > 0
<1>1. w \in Flying BY DEF WriteInv, SentInv, Flying
<1>2. Cardinality(Flying) # 0 BY <1>1, FlyingFinite, FS_EmptySet
<1> QED BY <1>2, FlyingFinite DEF WriteInv, FlightInv

-----------------------------------------------------------------------------
(* The reads.                                                              *)

\* The wakes to come are as many as before, and no read is past its look more.
ReadsApart ==
    /\ UNCHANGED <<pending, destroyed, dpc, gpc, notified>>
    /\ \A s \in Setters : spc[s] \in {"first", "wake"} => spc'[s] \in {"first", "wake"}

\* Such a step keeps the reads' invariant.
LEMMA ReadsFramed ==
    ASSUME TypeOK, ReadInv, ReadsApart
    PROVE  ReadInv'
<1>1. (\E s \in Setters : spc[s] \in {"first", "wake"}) => \E s \in Setters : spc'[s] \in {"first", "wake"}
  BY DEF ReadsApart
<1> QED BY <1>1 DEF ReadInv, ReadsApart

\* Making the PV ready puts the wake on its way.
LEMMA StoreReadyReads ==
    ASSUME TypeOK, ReadInv, NEW s \in Setters, StoreReady(s)
    PROVE  ReadInv'
<1>1. spc'[s] = "first" BY DEF StoreReady, TypeOK, SetterType
<1> QED BY <1>1 DEF ReadInv, StoreReady, listVars, getterVars

\* A wake reaches every read past its register.
LEMMA WakeReadsReads ==
    ASSUME TypeOK, ReadInv, NEW s \in Setters, WakeReads(s)
    PROVE  ReadInv'
<1>1. \A g \in Getters : gpc'[g] \in {"gone?", "parked"} => g \in notified'
  BY DEF WakeReads, notify_waiters
<1> QED BY <1>1 DEF ReadInv

\* A read registers before it looks, so a wake after the look reaches it.
LEMMA GetterReads ==
    ASSUME TypeOK, ReadInv, NEW g \in Getters, GetterStep(g), destroyed => dpc # "idle"
    PROVE  ReadInv'
<1>0. gpc \in [Getters -> {"start", "ready?", "gone?", "parked", "answered", "failed"}]
  BY DEF TypeOK, ReadType
<1>a. UNCHANGED <<pending, destroyed, dpc, spc>>
  BY DEF GetterStep, Register, LookReady, LookGone, valueVars, listVars, setterVars
<1>1. CASE Register(g)
  <2>1. \A h \in Getters : gpc'[h] = IF h = g THEN "ready?" ELSE gpc[h] BY <1>0, <1>1 DEF Register
  <2>2. \A h \in Getters : h # g /\ h \notin notified' => h \notin notified BY <1>1 DEF Register, Registered
  <2> QED BY <1>a, <2>1, <2>2 DEF ReadInv
<1>2. CASE LookReady(g)
  <2>1. /\ \A h \in Getters : gpc'[h] = IF h = g THEN IF pending THEN "gone?" ELSE "answered" ELSE gpc[h]
        /\ notified' = notified
    BY <1>0, <1>2 DEF LookReady
  <2> QED BY <1>a, <2>1 DEF ReadInv
<1>3. CASE LookGone(g)
  <2>1. /\ \A h \in Getters : gpc'[h] = IF h = g THEN IF destroyed THEN "failed" ELSE "parked" ELSE gpc[h]
        /\ notified' = notified /\ gpc[g] = "gone?"
    BY <1>0, <1>3 DEF LookGone
  <2> QED BY <1>a, <2>1 DEF ReadInv
<1> QED BY <1>1, <1>2, <1>3 DEF GetterStep

\* The destroy closes the list first and wakes last.
LEMMA DestroyReads ==
    ASSUME TypeOK, ReadInv, CloseList \/ DestroyStep
    PROVE  ReadInv'
<1>1. CASE CloseList BY <1>1 DEF CloseList, ReadInv, valueVars, setterVars, getterVars
<1>2. CASE TakeHeld BY <1>2 DEF TakeHeld, ReadInv, valueVars, listVars, setterVars, getterVars
<1>3. CASE WakeDestroyed
  <2>1. \A g \in Getters : gpc'[g] \in {"gone?", "parked"} => g \in notified'
    BY <1>3 DEF WakeDestroyed, notify_waiters
  <2> QED BY <2>1 DEF ReadInv
<1> QED BY <1>1, <1>2, <1>3 DEF DestroyStep

-----------------------------------------------------------------------------
(* The monitors.                                                           *)

\* A step that leaves the list, its lock and the first events alone.
ListApart ==
    /\ UNCHANGED <<readers, listed, destroyed, mpc>>
    /\ \A s \in Setters : (spc'[s] = "first") = (spc[s] = "first")

FirstsApart ==
    /\ UNCHANGED <<pending, mpc, firsts>>
    /\ \A s \in Setters : (spc'[s] = "first") = (spc[s] = "first")
    /\ \A s \in Setters : spc[s] = "first" => todo'[s] = todo[s]

\* Such a step keeps the monitors' invariants.
LEMMA MonitorsFramed ==
    ASSUME TypeOK
    PROVE  /\ ListInv /\ ListApart => ListInv'
           /\ FirstInv /\ FirstsApart => FirstInv'
<1>1. ASSUME ListInv, ListApart PROVE ListInv' BY <1>1 DEF ListInv, ListApart
<1>2. ASSUME FirstInv, FirstsApart PROVE FirstInv'
  <2>1. \A m \in Monitors : firsts'[m] <= 1 BY <1>2 DEF FirstInv, FirstsApart
  <2>2. \A m \in Monitors : pending' \/ mpc'[m] \in {"new", "attach", "first"} => firsts'[m] = 0
    BY <1>2 DEF FirstInv, FirstsApart
  <2>3. ASSUME NEW s \in Setters, spc'[s] = "first"
        PROVE  /\ IsInjective(todo'[s])
               /\ \A m \in Range(todo'[s]) : firsts'[m] = 0 /\ mpc'[m] \in {"on", "gone"}
    BY <1>2, <2>3 DEF FirstInv, FirstsApart
  <2>4. ASSUME NEW m \in Monitors, mpc'[m] = "on", ~pending'
        PROVE  firsts'[m] = 1 \/ \E s \in Setters : spc'[s] = "first" /\ m \in Range(todo'[s])
    BY <1>2, <2>4 DEF FirstInv, FirstsApart
  <2> QED BY <2>1, <2>2, <2>3, <2>4 DEF FirstInv
<1> QED BY <1>1, <1>2

\* At most one call is past the store: it has the held-writes lock.
LEMMA OneFirst ==
    ASSUME WriteInv, NEW s \in Setters, NEW t \in Setters, spc[s] = "first", spc[t] = "first"
    PROVE  s = t
BY DEF WriteInv, LockKept

\* The store finds no monitor between its attach and its first event, so the
\* monitors it reads are the ones still without.
LEMMA StoreReadyMonitors ==
    ASSUME TypeOK, WriteInv, ListInv, FirstInv, NEW s \in Setters, StoreReady(s)
    PROVE  ListInv' /\ FirstInv'
<1>1. /\ spc[s] = "drain" /\ readers = {} /\ readers' = {s} /\ pending' = FALSE
      /\ UNCHANGED <<listed, destroyed, mpc, firsts>>
  BY DEF StoreReady, listVars, monitorVars
<1>2. \A t \in Setters : /\ spc'[t] = IF t = s THEN "first" ELSE spc[t]
                         /\ todo'[t] = IF t = s THEN listed ELSE todo[t]
  BY DEF StoreReady, TypeOK, SetterType
<1>3. pending BY <1>1 DEF WriteInv, LockKept
<1>4. \A t \in Setters : spc[t] # "first" BY <1>1 DEF ListInv
<1>5. \A m \in Monitors : mpc[m] \notin {"attach", "first", "cut"} /\ m # s BY <1>1, Bounds DEF ListInv
<1>6. ListInv'
  <2>1. \A m \in Monitors : (m \in readers') = (mpc'[m] \in {"attach", "first", "cut"}) BY <1>1, <1>5
  <2>2. \A t \in Setters : (t \in readers') = (spc'[t] = "first") BY <1>1, <1>2, <1>4
  <2> QED BY <1>1, <2>1, <2>2 DEF ListInv
<1>7. FirstInv'
  <2>1. \A m \in Monitors : firsts'[m] = 0 BY <1>1, <1>3 DEF FirstInv
  <2>2. IsInjective(listed) /\ \A m \in Monitors : (m \in Range(listed)) = (mpc[m] = "on")
    BY <1>5 DEF ListInv
  <2>3. Range(listed) \subseteq Monitors
    <3>1. listed \in Seq(Monitors) BY DEF TypeOK, ValueType
    <3> QED BY <3>1 DEF Range
  <2>4. ASSUME NEW t \in Setters, spc'[t] = "first"
        PROVE  /\ IsInjective(todo'[t])
               /\ \A m \in Range(todo'[t]) : firsts'[m] = 0 /\ mpc'[m] \in {"on", "gone"}
    <3>1. t = s /\ todo'[t] = listed BY <1>2, <1>4, <2>4
    <3> QED BY <1>1, <2>1, <2>2, <2>3, <3>1
  <2>5. ASSUME NEW m \in Monitors, mpc'[m] = "on"
        PROVE  \E t \in Setters : spc'[t] = "first" /\ m \in Range(todo'[t])
    BY <1>1, <1>2, <2>2, <2>5
  <2> QED BY <2>1, <2>4, <2>5 DEF FirstInv
<1> QED BY <1>6, <1>7

\* A first event is queued to a monitor without one, or to a closed queue.
LEMMA PostFirstMonitors ==
    ASSUME TypeOK, WriteInv, ListInv, FirstInv, NEW s \in Setters, PostFirst(s)
    PROVE  ListInv' /\ FirstInv'
<1>0. spc[s] = "first" /\ UNCHANGED <<pending, listed, destroyed, mpc>> BY DEF PostFirst, listVars
<1>a. ~pending /\ \A t \in Setters : spc[t] = "first" => t = s BY <1>0, OneFirst DEF WriteInv, LockKept
<1>1. CASE todo[s] # <<>>
  <2> DEFINE m == Head(todo[s])
  <2>1. /\ todo[s] \in Seq(Monitors) /\ spc' = spc /\ readers' = readers /\ FirstEvent(m, cur[s])
        /\ \A t \in Setters : todo'[t] = IF t = s THEN Tail(todo[s]) ELSE todo[t]
    BY <1>1 DEF PostFirst, TypeOK, SetterType
  <2>2. IsInjective(todo[s]) /\ \A x \in Range(todo[s]) : firsts[x] = 0 /\ mpc[x] \in {"on", "gone"}
    BY <1>0 DEF FirstInv
  <2>3. /\ m \in Monitors /\ m \in Range(todo[s]) /\ Range(todo[s]) = Range(Tail(todo[s])) \cup {m}
        /\ IsInjective(Tail(todo[s])) /\ m \notin Range(Tail(todo[s]))
    BY <1>1, <2>1, <2>2, TailOnce
  <2> HIDE DEF m
  <2>4. firsts[m] = 0 /\ mpc[m] \in {"on", "gone"} BY <2>2, <2>3
  <2>5. \A x \in Monitors : firsts'[x] = IF x = m /\ mpc[m] = "on" THEN 1 ELSE firsts[x]
    <3>1. firsts' = [firsts EXCEPT ![m] = IF Cut(m) THEN @ ELSE @ + 1] BY <2>1 DEF FirstEvent
    <3>2. firsts \in [Monitors -> Nat] BY DEF TypeOK, MonitorType
    <3>3. CASE mpc[m] = "on"
      <4>1. ~Cut(m) BY <3>3 DEF Cut
      <4> QED BY <2>3, <2>4, <3>1, <3>2, <3>3, <4>1
    <3>4. CASE mpc[m] = "gone"
      <4>1. Cut(m) BY <3>4 DEF Cut
      <4> QED BY <2>3, <2>4, <3>1, <3>2, <3>4, <4>1
    <3> QED BY <2>4, <3>3, <3>4
  <2>6. ListInv'
    <3>1. ListApart BY <1>0, <2>1 DEF ListApart
    <3> QED BY <3>1, MonitorsFramed
  <2>7. FirstInv'
    <3>1. \A x \in Monitors : firsts'[x] <= 1 BY <2>5 DEF FirstInv
    <3>2. \A x \in Monitors : pending' \/ mpc'[x] \in {"new", "attach", "first"} => firsts'[x] = 0
      BY <1>0, <1>a, <2>4, <2>5 DEF FirstInv
    <3>3. ASSUME NEW t \in Setters, spc'[t] = "first"
          PROVE  /\ IsInjective(todo'[t])
                 /\ \A x \in Range(todo'[t]) : firsts'[x] = 0 /\ mpc'[x] \in {"on", "gone"}
      <4>1. t = s BY <1>a, <2>1, <3>3
      <4>2. Range(Tail(todo[s])) \subseteq Monitors
        <5>1. Tail(todo[s]) \in Seq(Monitors) BY <1>1, <2>1
        <5> QED BY <5>1 DEF Range
      <4>3. todo'[t] = Tail(todo[s]) BY <2>1, <4>1
      <4>4. ASSUME NEW x \in Range(Tail(todo[s])) PROVE firsts'[x] = 0 /\ mpc'[x] \in {"on", "gone"}
        BY <1>0, <2>2, <2>3, <2>5, <4>2
      <4> QED BY <2>3, <4>3, <4>4
    <3>4. ASSUME NEW x \in Monitors, mpc'[x] = "on", ~pending'
          PROVE  firsts'[x] = 1 \/ \E t \in Setters : spc'[t] = "first" /\ x \in Range(todo'[t])
      <4>1. CASE x = m BY <1>0, <2>5, <3>4, <4>1
      <4>2. CASE x # m
        <5>1. firsts[x] = 1 \/ x \in Range(todo[s]) BY <1>0, <1>a, <3>4 DEF FirstInv
        <5> QED BY <1>0, <2>1, <2>3, <2>5, <4>2, <5>1
      <4> QED BY <4>1, <4>2
    <3> QED BY <3>1, <3>2, <3>3, <3>4 DEF FirstInv
  <2> QED BY <2>6, <2>7
<1>2. CASE todo[s] = <<>>
  <2>1. readers' = readers \ {s} /\ firsts' = firsts /\ todo' = todo BY <1>2 DEF PostFirst
  <2>2. \A t \in Setters : spc'[t] = IF t = s THEN "wake" ELSE spc[t] BY <1>2 DEF PostFirst, TypeOK, SetterType
  <2>3. \A t \in Setters : spc'[t] # "first" BY <1>a, <2>2
  <2>4. ListInv'
    <3>1. \A m \in Monitors : (m \in readers') = (m \in readers) BY <2>1, Bounds
    <3>2. \A t \in Setters : t \notin readers' BY <1>a, <2>1 DEF ListInv
    <3> QED BY <1>0, <2>3, <3>1, <3>2 DEF ListInv
  <2>5. FirstInv'
    <3>1. Range(todo[s]) = {} BY <1>2 DEF Range
    <3>2. \A m \in Monitors : mpc[m] = "on" => firsts[m] = 1 BY <1>a, <3>1 DEF FirstInv
    <3> QED BY <1>0, <2>1, <2>3, <3>2 DEF FirstInv
  <2> QED BY <2>4, <2>5
<1> QED BY <1>1, <1>2

\* A monitor with the read lock keeps the store out until its add ends.
LEMMA MonitorMonitors ==
    ASSUME TypeOK, ListInv, FirstInv, NEW m \in Monitors,
           MonitorAsks(m) \/ MonitorStep(m)
    PROVE  ListInv' /\ FirstInv'
<1>0. /\ listed \in Seq(Monitors) /\ mpc \in [Monitors -> {"new", "attach", "first", "cut", "on", "gone"}]
      /\ firsts \in [Monitors -> Nat]
  BY DEF TypeOK, ValueType, MonitorType
<1>a. UNCHANGED <<pending, destroyed, spc, todo>>
  BY DEF MonitorAsks, MonitorStep, AddBegin, attach, AddEnd, LoseRead, Disable, RegainRead,
     PostRegained, remove_subscriber, valueVars, listVars, setterVars
<1>b. m \notin Setters BY Bounds
<1>c. \A s \in Setters : spc[s] = "first" => Range(todo[s]) \subseteq Monitors
  <2>1. \A s \in Setters : todo[s] \in Seq(Monitors) BY DEF TypeOK, SetterType
  <2> QED BY <2>1 DEF Range
<1>1. CASE AddBegin(m)
  <2>1. /\ mpc[m] = "new" /\ readers' = readers \cup {m} /\ UNCHANGED <<listed, firsts>>
        /\ \A x \in Monitors : mpc'[x] = IF x = m THEN "attach" ELSE mpc[x]
    BY <1>0, <1>1 DEF AddBegin, listVars
  <2>2. ListInv' BY <1>a, <1>b, <2>1 DEF ListInv
  <2>3. FirstInv' BY <1>a, <1>c, <2>1 DEF FirstInv
  <2> QED BY <2>2, <2>3
<1>2. CASE attach(m) /\ destroyed
  <2>1. /\ mpc[m] = "attach" /\ readers' = readers \ {m} /\ UNCHANGED <<listed, firsts>>
        /\ \A x \in Monitors : mpc'[x] = IF x = m THEN "gone" ELSE mpc[x]
    BY <1>0, <1>2 DEF attach
  <2>2. ListInv' BY <1>a, <1>b, <2>1 DEF ListInv
  <2>3. FirstInv' BY <1>a, <1>c, <2>1 DEF FirstInv
  <2> QED BY <2>2, <2>3
<1>3. CASE attach(m) /\ ~destroyed
  <2>1. /\ mpc[m] = "attach" /\ listed' = Append(listed, m) /\ UNCHANGED <<readers, firsts>>
        /\ \A x \in Monitors : mpc'[x] = IF x = m THEN "first" ELSE mpc[x]
    BY <1>0, <1>3 DEF attach
  <2>2. ListInv'
    <3>1. IsInjective(listed) /\ m \notin Range(listed) BY <2>1 DEF ListInv
    <3>2. IsInjective(listed') /\ Range(listed') = Range(listed) \cup {m} BY <1>0, <2>1, <3>1, AppendOnce
    <3> QED BY <1>3, <1>a, <2>1, <3>2 DEF ListInv
  <2>3. FirstInv' BY <1>a, <1>c, <2>1 DEF FirstInv
  <2> QED BY <2>2, <2>3
<1>4. CASE AddEnd(m)
  <2>1. /\ mpc[m] \in {"first", "cut"} /\ readers' = readers \ {m} /\ listed' = listed
        /\ \A x \in Monitors : mpc'[x] = IF x = m THEN IF mpc[m] = "cut" THEN "gone" ELSE "on" ELSE mpc[x]
    BY <1>0, <1>4 DEF AddEnd, listVars
  <2>2. ListInv' BY <1>a, <1>b, <2>1 DEF ListInv
  <2>3. \A x \in Monitors : firsts'[x] = IF x = m /\ mpc[m] = "first" /\ ~pending THEN 1 ELSE firsts[x]
    <3>1. CASE mpc[m] = "first" /\ ~pending
      <4>1. m \in Range(listed) /\ firsts[m] = 0 /\ ~Cut(m) BY <3>1 DEF ListInv, FirstInv, Cut
      <4>2. FirstEvent(m, value) BY <1>4, <3>1, <4>1 DEF AddEnd, post_single_held
      <4>3. firsts' = [firsts EXCEPT ![m] = @ + 1] BY <4>1, <4>2 DEF FirstEvent
      <4> QED BY <1>0, <3>1, <4>1, <4>3
    <3>2. CASE mpc[m] = "cut" \/ pending
      <4>1. pending \/ m \notin Range(listed) BY <3>2 DEF ListInv
      <4>2. firsts' = firsts BY <1>4, <4>1 DEF AddEnd, post_single_held
      <4> QED BY <3>2, <4>2
    <3> QED BY <2>1, <3>1, <3>2
  <2>4. FirstInv' BY <1>a, <1>c, <2>1, <2>3 DEF FirstInv
  <2> QED BY <2>2, <2>4
<1>5. CASE LoseRead(m) \/ Disable(m) \/ RegainRead(m) \/ PostRegained(m)
  <2>1. ListApart /\ FirstsApart
    BY <1>5 DEF LoseRead, Disable, RegainRead, PostRegained, ListApart, FirstsApart, valueVars, listVars, setterVars
  <2> QED BY <2>1, MonitorsFramed
<1>6. CASE remove_subscriber(m)
  <2>1. /\ mpc[m] = "on" /\ UNCHANGED <<readers, firsts>>
        /\ \A x \in Monitors : mpc'[x] = IF x = m THEN "gone" ELSE mpc[x]
    BY <1>0, <1>6 DEF remove_subscriber, valueVars
  <2>2. PICK i \in DOMAIN listed : listed[i] = m /\ listed' = RemoveAt(listed, i)
    BY <1>6 DEF remove_subscriber
  <2>3. IsInjective(listed') /\ Range(listed') = Range(listed) \ {m}
    BY <1>0, <2>2, RemoveOnce DEF ListInv
  <2>4. m \in Range(listed) BY <2>1 DEF ListInv
  <2>5. ~destroyed
    <3>1. Range(<< >>) = {} BY DEF Range
    <3> QED BY <2>4, <3>1 DEF ListInv, TypeOK, ValueType
  <2>6. ListInv' BY <1>a, <2>1, <2>3, <2>5 DEF ListInv
  <2>7. FirstInv' BY <1>a, <1>c, <2>1 DEF FirstInv
  <2> QED BY <2>6, <2>7
<1> QED BY <1>1, <1>2, <1>3, <1>4, <1>5, <1>6 DEF MonitorAsks, MonitorStep, TypeOK, ValueType

\* The close empties the list; an add under way still has the read lock.
LEMMA CloseListMonitors ==
    ASSUME TypeOK, ListInv, FirstInv, CloseList
    PROVE  ListInv' /\ FirstInv'
<1>1. /\ listed' = <<>> /\ UNCHANGED <<readers, pending, spc, todo, firsts>>
      /\ \A m \in Monitors : mpc'[m] = CASE mpc[m] = "on" -> "gone"
                                        [] mpc[m] = "first" -> "cut"
                                        [] OTHER -> mpc[m]
  BY DEF CloseList, valueVars, setterVars
<1>2. ListInv'
  <2>1. Range(listed') = {} /\ IsInjective(listed') BY <1>1 DEF Range, IsInjective
  <2> QED BY <1>1, <2>1 DEF ListInv
<1>3. FirstInv'
  <2>1. \A s \in Setters : spc[s] = "first" => Range(todo[s]) \subseteq Monitors
    <3>1. \A s \in Setters : todo[s] \in Seq(Monitors) BY DEF TypeOK, SetterType
    <3> QED BY <3>1 DEF Range
  <2> QED BY <1>1, <2>1 DEF FirstInv
<1> QED BY <1>2, <1>3

-----------------------------------------------------------------------------
(* The invariant, and what it gives.                                       *)

\* The initial state.
LEMMA PVStarts == Init => PVInv
<1> SUFFICES ASSUME Init PROVE PVInv OBVIOUS
<1> USE DEF Init
<1>1. TypeOK
  <2>0. << >> \in Seq(Monitors) OBVIOUS
  <2>a. value \in Nat /\ posted_meta \in 0 .. value OBVIOUS
  <2>g. pending \in BOOLEAN /\ crossed \in BOOLEAN BY Zenon
  <2>b. readers \subseteq Setters \cup Monitors /\ listed \in Seq(Monitors) OBVIOUS
  <2>c. ValueType BY <2>a, <2>b, <2>g DEF ValueType
  <2>d. todo \in [Setters -> Seq(Monitors)] BY <2>0, Zenon
  <2>e. spc \in [Setters -> {"idle", "meta", "deliver", "post", "drain", "first", "wake"}] OBVIOUS
  <2>f. cur \in [Setters -> 0 .. value] OBVIOUS
  <2>1. ValueType /\ SetterType BY <2>c, <2>d, <2>e, <2>f DEF SetterType
  <2>2. MonitorType /\ ReadType BY DEF MonitorType, ReadType
  <2>3. WriteType BY DEF WriteType
  <2> QED BY <2>1, <2>2, <2>3 DEF TypeOK
<1>2. Range(<< >>) = {} /\ IsInjective(<< >>) BY DEF Range, IsInjective
<1>3. WriteInv
  <2>1. LockKept /\ SentInv BY DEF LockKept, SentInv, HeldWritesFirst
  <2>2. FlightInv
    <3>1. Flying = {} BY DEF Flying
    <3>2. Cardinality(Flying) = 0 BY <3>1, FS_EmptySet
    <3> QED BY <3>2, Bounds DEF FlightInv
  <2>3. HeldInv
    <3>1. HeldOnce BY <1>2 DEF HeldOnce
    <3> QED BY <3>1 DEF HeldInv
  <2>4. EndInv BY DEF EndInv, PostponedHasSignal
  <2> QED BY <2>1, <2>2, <2>3, <2>4 DEF WriteInv
<1>4. ReadInv BY DEF ReadInv
<1>5. ListInv BY <1>2 DEF ListInv
<1>6. FirstInv BY DEF FirstInv
<1> QED BY <1>1, <1>3, <1>4, <1>5, <1>6 DEF PVInv

\* A setter's steps.
LEMMA SetterKeeps ==
    ASSUME PVInv, NEW s \in Setters, SetValue(s) \/ post_alarm(s) \/ make_ready(s) \/ SetterStep(s)
    PROVE  PVInv'
<1> USE DEF valueVars, listVars, setterVars, monitorVars, getterVars, writeVars
<1>0. TypeOK /\ WriteInv /\ ReadInv /\ ListInv /\ FirstInv /\ TypeOK' BY SetterTyped DEF PVInv
<1>a. spc \in [Setters -> {"idle", "meta", "deliver", "post", "drain", "first", "wake"}]
      /\ todo \in [Setters -> Seq(Monitors)]
  BY <1>0 DEF TypeOK, SetterType
<1>1. CASE SetValue(s) \/ post_alarm(s) \/ SetMeta(s) \/ deliver(s) \/ Post(s)
  <2>1. WritesApart BY <1>1, <1>a DEF SetValue, post_alarm, SetMeta, deliver, Post, WritesApart
  <2>2. ReadsApart BY <1>1, <1>a DEF SetValue, post_alarm, SetMeta, deliver, Post, ReadsApart
  <2>3. ListApart /\ FirstsApart
    BY <1>1, <1>a DEF SetValue, post_alarm, SetMeta, deliver, Post, ListApart, FirstsApart
  <2> QED BY <1>0, <2>1, <2>2, <2>3, WritesFramed, ReadsFramed, MonitorsFramed DEF PVInv
<1>2. CASE make_ready(s)
  <2>1. WriteInv' BY <1>0, <1>2, MakeReadyWrites
  <2>2. ReadsApart BY <1>2, <1>a DEF make_ready, ReadsApart
  <2>3. ListApart /\ FirstsApart BY <1>2, <1>a DEF make_ready, ListApart, FirstsApart
  <2> QED BY <1>0, <2>1, <2>2, <2>3, ReadsFramed, MonitorsFramed DEF PVInv
<1>3. CASE SendHeld(s)
  <2>1. WriteInv' BY <1>0, <1>3, SendHeldWrites
  <2>2. ReadsApart BY <1>3 DEF SendHeld, ReadsApart
  <2>3. ListApart /\ FirstsApart BY <1>3 DEF SendHeld, ListApart, FirstsApart
  <2> QED BY <1>0, <2>1, <2>2, <2>3, ReadsFramed, MonitorsFramed DEF PVInv
<1>4. CASE StoreReady(s)
  BY <1>0, <1>4, StoreReadyWrites, StoreReadyReads, StoreReadyMonitors DEF PVInv
<1>5. CASE PostFirst(s)
  <2>1. ReadsApart BY <1>5, <1>a DEF PostFirst, ReadsApart
  <2> QED BY <1>0, <1>5, <2>1, PostFirstWrites, ReadsFramed, PostFirstMonitors DEF PVInv
<1>6. CASE WakeReads(s)
  <2>1. WritesApart BY <1>6, <1>a DEF WakeReads, WritesApart
  <2>2. ListApart /\ FirstsApart BY <1>6, <1>a DEF WakeReads, ListApart, FirstsApart
  <2> QED BY <1>0, <1>6, <2>1, <2>2, WritesFramed, WakeReadsReads, MonitorsFramed DEF PVInv
<1> QED BY <1>1, <1>2, <1>3, <1>4, <1>5, <1>6 DEF SetterStep

\* The steps of a monitor, a read, a write and the destroy.
LEMMA OthersKeep ==
    ASSUME PVInv,
           \/ \E m \in Monitors : MonitorAsks(m) \/ MonitorStep(m)
           \/ \E g \in Getters : GetterStep(g)
           \/ \E w \in Writes : forward_write(w) \/ WriteStep(w) \/ DropEnd(w)
           \/ CloseList \/ DestroyStep
    PROVE  PVInv'
<1> USE DEF valueVars, listVars, setterVars, monitorVars, getterVars, writeVars
<1>0. TypeOK /\ WriteInv /\ ReadInv /\ ListInv /\ FirstInv BY DEF PVInv
<1>1. ASSUME NEW m \in Monitors, MonitorAsks(m) \/ MonitorStep(m)
      PROVE  PVInv'
  <2>1. WritesApart BY <1>1 DEF MonitorAsks, MonitorStep, AddBegin, attach, AddEnd, LoseRead, Disable, RegainRead,
     PostRegained, remove_subscriber, WritesApart
  <2>2. ReadsApart BY <1>1 DEF MonitorAsks, MonitorStep, AddBegin, attach, AddEnd, LoseRead, Disable, RegainRead,
     PostRegained, remove_subscriber, ReadsApart
  <2> QED BY <1>0, <1>1, <2>1, <2>2, MonitorTyped, WritesFramed, ReadsFramed, MonitorMonitors DEF PVInv
<1>2. ASSUME NEW g \in Getters, GetterStep(g) PROVE PVInv'
  <2>1. WritesApart /\ ListApart /\ FirstsApart
    BY <1>2 DEF GetterStep, Register, LookReady, LookGone, WritesApart, ListApart, FirstsApart
  <2>2. destroyed => dpc # "idle" BY <1>0 DEF WriteInv, HeldInv
  <2> QED BY <1>0, <1>2, <2>1, <2>2, ReadTyped, WritesFramed, GetterReads, MonitorsFramed DEF PVInv
<1>3. ASSUME NEW w \in Writes, forward_write(w) \/ WriteStep(w) \/ DropEnd(w) PROVE PVInv'
  <2>1. ReadsApart /\ ListApart /\ FirstsApart
    BY <1>3 DEF forward_write, WriteStep, Subscribe, LookAgain, Start, SendReady, Leave, PostDone, Cancel,
                DropEnd, ReadsApart, ListApart, FirstsApart
  <2>2. TypeOK' BY <1>0, <1>3, WriteTyped, FlightCounted
  <2>3. WriteInv'
    BY <1>0, <1>3, ForwardWrites, SubscribeWrites, LookAgainWrites, StartWrites, SendReadyWrites,
       LeaveWrites, PostDoneWrites, DropEndWrites DEF WriteStep
  <2> QED BY <1>0, <2>1, <2>2, <2>3, ReadsFramed, MonitorsFramed DEF PVInv
<1>4. CASE CloseList
  BY <1>0, <1>4, DestroyTyped, DestroyWrites, DestroyReads, CloseListMonitors DEF PVInv
<1>5. CASE DestroyStep
  <2>1. ListApart /\ FirstsApart BY <1>5 DEF DestroyStep, TakeHeld, WakeDestroyed, ListApart, FirstsApart
  <2> QED BY <1>0, <1>5, <2>1, DestroyTyped, DestroyWrites, DestroyReads, MonitorsFramed DEF PVInv
<1> QED BY <1>1, <1>2, <1>3, <1>4, <1>5

\* A step that changes nothing.
LEMMA PVStutters ==
    ASSUME PVInv, UNCHANGED vars
    PROVE  PVInv'
<1> USE DEF vars, valueVars, listVars, setterVars, monitorVars, getterVars, writeVars
<1>0. TypeOK /\ WriteInv /\ ReadInv /\ ListInv /\ FirstInv BY DEF PVInv
<1>1. TypeOK' BY <1>0, TypesFramed DEF TypeOK
<1>2. WritesApart /\ ReadsApart /\ ListApart /\ FirstsApart
  BY DEF WritesApart, ReadsApart, ListApart, FirstsApart
<1> QED BY <1>0, <1>1, <1>2, WritesFramed, ReadsFramed, MonitorsFramed DEF PVInv

\* The invariant holds throughout, for any number of clients and any bound on
\* the put callbacks.
THEOREM PVInvariant == Spec => []PVInv
<1>1. PVInv /\ [Next]_vars => PVInv'
  BY SetterKeeps, OthersKeep, PVStutters DEF Next
<1> QED BY PVStarts, <1>1, PTL DEF Spec

\* Whoever waits has what it waits for on its way: a held write the drain or
\* the destroy, a postponed one a signal, a parked read a wake.
THEOREM NobodyStranded == Spec => []NoneStranded
<1>1. PVInv => NoneStranded
  BY DEF PVInv, WriteInv, HeldInv, EndInv, ReadInv, NoneStranded, NoWriteStranded, ReadsWoken
<1> QED BY <1>1, PVInvariant, PTL

\* Whether a monitor comes before, while or after the PV is made ready, and
\* however many setters there are, it gets its first event once.
THEOREM FirstEventsOnce == Spec => []FirstEventOnce
<1>1. PVInv => FirstEventOnce
  <2> SUFFICES ASSUME PVInv, NEW m \in Monitors
               PROVE  /\ firsts[m] <= (IF pending THEN 0 ELSE 1)
                      /\ mpc[m] = "on" /\ ~pending /\ (\A s \in Setters : spc[s] # "first") => firsts[m] = 1
    BY DEF FirstEventOnce
  <2>1. firsts[m] <= 1 /\ (pending => firsts[m] = 0) BY DEF PVInv, FirstInv
  <2>2. firsts[m] <= (IF pending THEN 0 ELSE 1) BY <2>1
  <2> QED BY <2>2 DEF PVInv, FirstInv
<1> QED BY <1>1, PVInvariant, PTL

-----------------------------------------------------------------------------
(* The order of the held writes.                                           *)

\* A step that neither holds nor sends.
OrderApart ==
    /\ UNCHANGED <<held, sent, arrived>>
    /\ pending' /\ dpc' \notin {"cancel", "done"} => pending /\ dpc \notin {"cancel", "done"}

\* Such a step keeps the order.
LEMMA OrderFramed ==
    ASSUME OrderInv, OrderApart
    PROVE  OrderInv'
<1>1. HeldInOrder' BY DEF OrderInv, OrderApart, HeldInOrder
<1> QED BY <1>1 DEF OrderInv, OrderApart

\* The drain sends the write that was held first of those still held.
LEMMA SendHeldOrder ==
    ASSUME PVInv, OrderInv, NEW s \in Setters, SendHeld(s)
    PROVE  OrderInv'
<1> DEFINE R == [write : Writes, held : BOOLEAN]
           x == [write |-> Head(held), held |-> TRUE]
<1>1. /\ held # <<>> /\ held' = Tail(held) /\ sent' = Append(sent, x) /\ arrived' = arrived
      /\ spc[s] = "drain"
  BY DEF SendHeld, Sent
<1>2. sent \in Seq(R) /\ held \in Seq(Writes) /\ arrived \in Seq(Writes) BY DEF PVInv, TypeOK, WriteType
<1>3. pending /\ dpc \notin {"cancel", "done"} BY <1>1 DEF PVInv, WriteInv, LockKept, HeldInv
<1>4. Len(arrived) = Len(sent) + Len(held) /\ \A j \in DOMAIN held : arrived[Len(sent) + j] = held[j]
  BY <1>3 DEF OrderInv
<1>5. Len(held) \in Nat /\ Len(held) > 0 /\ Head(held) \in Writes /\ Head(held) = held[1] /\ 1 \in DOMAIN held
  BY <1>1, <1>2
<1>6. x \in R /\ x.held /\ x.write = held[1] BY <1>5
<1> HIDE DEF x, R
<1>7. /\ Len(sent) \in Nat /\ Len(sent') = Len(sent) + 1 /\ sent'[Len(sent) + 1] = x
      /\ DOMAIN sent = 1 .. Len(sent) /\ DOMAIN sent' = 1 .. Len(sent) + 1
      /\ \A i \in 1 .. Len(sent) : sent'[i] = sent[i]
  BY <1>1, <1>2, <1>6
<1>8. /\ Len(held') = Len(held) - 1 /\ DOMAIN held' = 1 .. Len(held) - 1 /\ DOMAIN held = 1 .. Len(held)
      /\ \A j \in 1 .. Len(held) - 1 : held'[j] = held[j + 1]
  BY <1>1, <1>2
<1>9. HeldInOrder'
  <2> SUFFICES ASSUME NEW i \in DOMAIN sent', sent'[i].held
               PROVE  i \in DOMAIN arrived' /\ sent'[i].write = arrived'[i]
    BY DEF HeldInOrder
  <2>1. CASE i = Len(sent) + 1
    <3>1. DOMAIN arrived = 1 .. Len(arrived) BY <1>2
    <3>2. i \in DOMAIN arrived BY <2>1, <3>1, <1>4, <1>5, <1>7
    <3>3. arrived[Len(sent) + 1] = held[1] BY <1>4, <1>5
    <3> QED BY <1>1, <1>6, <1>7, <2>1, <3>2, <3>3
  <2>2. CASE i # Len(sent) + 1
    <3>1. i \in DOMAIN sent /\ sent'[i] = sent[i] BY <1>7, <2>2
    <3> QED BY <1>1, <3>1 DEF OrderInv, HeldInOrder
  <2> QED BY <2>1, <2>2
<1>10. Len(arrived') = Len(sent') + Len(held') BY <1>1, <1>4, <1>5, <1>7, <1>8
<1>11. ASSUME NEW j \in DOMAIN held' PROVE arrived'[Len(sent') + j] = held'[j]
  <2>0. j \in 1 .. Len(held) - 1 BY <1>8
  <2>1. j \in Int /\ j + 1 \in 1 .. Len(held) BY <1>5, <2>0
  <2>2. Len(sent') + j = Len(sent) + (j + 1)
    <3>1. Len(sent') = Len(sent) + 1 /\ Len(sent) \in Nat BY <1>7
    <3> QED BY <2>1, <3>1
  <2>3. held'[j] = held[j + 1] /\ j + 1 \in DOMAIN held BY <1>8, <2>0, <2>1
  <2> QED BY <1>1, <1>4, <2>2, <2>3
<1> QED BY <1>9, <1>10, <1>11 DEF OrderInv

\* A held write goes to the end of both.
LEMMA HoldOrder ==
    ASSUME PVInv, OrderInv, NEW w \in Writes, forward_write(w)
    PROVE  OrderInv'
<1>1. UNCHANGED <<sent, pending, dpc>> BY DEF forward_write, valueVars
<1>2. CASE UNCHANGED <<held, arrived>>
  <2>1. OrderApart BY <1>1, <1>2 DEF OrderApart
  <2> QED BY <2>1, OrderFramed
<1>3. CASE ~UNCHANGED <<held, arrived>>
  <2>1. ~destroyed /\ pending /\ Hold(w)
    BY <1>3 DEF forward_write, Refused, Postponed, Look
  <2>2. dpc = "idle" BY <2>1 DEF PVInv, WriteInv, HeldInv
  <2>3. held' = Append(held, w) /\ arrived' = Append(arrived, w) BY <2>1 DEF Hold
  <2>4. held \in Seq(Writes) /\ arrived \in Seq(Writes) /\ Len(sent) \in Nat
    BY DEF PVInv, TypeOK, WriteType
  <2>5. Len(arrived) = Len(sent) + Len(held) /\ \A j \in DOMAIN held : arrived[Len(sent) + j] = held[j]
    BY <2>1, <2>2 DEF OrderInv
  <2>6. /\ Len(held) \in Nat /\ Len(held') = Len(held) + 1 /\ held'[Len(held) + 1] = w
        /\ DOMAIN held = 1 .. Len(held) /\ DOMAIN held' = 1 .. Len(held) + 1
        /\ \A j \in 1 .. Len(held) : held'[j] = held[j]
    BY <2>3, <2>4
  <2>7. /\ Len(arrived) \in Nat /\ Len(arrived') = Len(arrived) + 1 /\ arrived'[Len(arrived) + 1] = w
        /\ DOMAIN arrived = 1 .. Len(arrived) /\ DOMAIN arrived' = 1 .. Len(arrived) + 1
        /\ \A j \in 1 .. Len(arrived) : arrived'[j] = arrived[j]
    BY <2>3, <2>4
  <2>8. HeldInOrder'
    <3> SUFFICES ASSUME NEW i \in DOMAIN sent, sent[i].held
                 PROVE  i \in DOMAIN arrived' /\ sent[i].write = arrived'[i]
      BY <1>1 DEF HeldInOrder
    <3>1. i \in DOMAIN arrived /\ sent[i].write = arrived[i] BY DEF OrderInv, HeldInOrder
    <3> QED BY <2>7, <3>1
  <2>9. Len(arrived') = Len(sent') + Len(held') BY <1>1, <2>4, <2>5, <2>6, <2>7
  <2>10. ASSUME NEW j \in DOMAIN held' PROVE arrived'[Len(sent') + j] = held'[j]
    <3>1. CASE j = Len(held) + 1
      <4>1. Len(sent) + j = Len(arrived) + 1 BY <2>4, <2>5, <2>6, <3>1
      <4> QED BY <1>1, <2>6, <2>7, <3>1, <4>1
    <3>2. CASE j # Len(held) + 1
      <4>1. j \in DOMAIN held /\ Len(sent) + j \in 1 .. Len(arrived) BY <2>4, <2>5, <2>6, <3>2
      <4> QED BY <1>1, <2>5, <2>6, <2>7, <4>1
    <3> QED BY <3>1, <3>2
  <2> QED BY <2>8, <2>9, <2>10 DEF OrderInv
<1> QED BY <1>2, <1>3

\* A ready PV's writes are sent after it has stopped holding any.
LEMMA SendReadyOrder ==
    ASSUME PVInv, OrderInv, NEW w \in Writes, SendReady(w)
    PROVE  OrderInv'
<1> DEFINE R == [write : Writes, held : BOOLEAN]
           x == [write |-> w, held |-> FALSE]
<1>1. sent' = Append(sent, x) /\ arrived' = arrived /\ pending' = pending /\ wst[w] = "sending"
  BY DEF SendReady, Sent, valueVars
<1>2. ~pending BY <1>1 DEF PVInv, WriteInv, SentInv
<1>3. sent \in Seq(R) /\ x \in R /\ ~x.held BY DEF PVInv, TypeOK, WriteType
<1> HIDE DEF x, R
<1>4. /\ Len(sent) \in Nat /\ sent'[Len(sent) + 1] = x
      /\ DOMAIN sent = 1 .. Len(sent) /\ DOMAIN sent' = 1 .. Len(sent) + 1
      /\ \A i \in 1 .. Len(sent) : sent'[i] = sent[i]
  BY <1>1, <1>3
<1>5. HeldInOrder'
  <2> SUFFICES ASSUME NEW i \in DOMAIN sent', sent'[i].held
               PROVE  i \in DOMAIN arrived' /\ sent'[i].write = arrived'[i]
    BY DEF HeldInOrder
  <2>1. i # Len(sent) + 1 BY <1>3, <1>4
  <2>2. i \in DOMAIN sent /\ sent'[i] = sent[i] BY <1>4, <2>1
  <2> QED BY <1>1, <2>2 DEF OrderInv, HeldInOrder
<1> QED BY <1>1, <1>2, <1>5 DEF OrderInv

\* Every step keeps the order.
LEMMA OrderKept ==
    ASSUME PVInv, OrderInv, [Next]_vars
    PROVE  OrderInv'
<1> USE DEF valueVars, listVars, setterVars, monitorVars, getterVars, writeVars
<1>1. ASSUME NEW s \in Setters, SetValue(s) \/ post_alarm(s) \/ make_ready(s) \/ SetterStep(s)
      PROVE  OrderInv'
  <2>1. CASE SendHeld(s) BY <2>1, SendHeldOrder
  <2>2. CASE ~SendHeld(s)
    <3>1. OrderApart
      BY <1>1, <2>2 DEF SetValue, post_alarm, make_ready, SetterStep, SetMeta, deliver, Post, StoreReady,
                        PostFirst, WakeReads, OrderApart
    <3> QED BY <3>1, OrderFramed
  <2> QED BY <2>1, <2>2
<1>2. ASSUME NEW m \in Monitors, MonitorAsks(m) \/ MonitorStep(m) PROVE OrderInv'
  <2>1. OrderApart
    BY <1>2 DEF MonitorAsks, MonitorStep, AddBegin, attach, AddEnd, LoseRead, Disable, RegainRead,
                PostRegained, remove_subscriber, OrderApart
  <2> QED BY <2>1, OrderFramed
<1>3. ASSUME NEW g \in Getters, GetterStep(g) PROVE OrderInv'
  <2>1. OrderApart BY <1>3 DEF GetterStep, Register, LookReady, LookGone, OrderApart
  <2> QED BY <2>1, OrderFramed
<1>4. ASSUME NEW w \in Writes, forward_write(w) \/ WriteStep(w) \/ DropEnd(w) PROVE OrderInv'
  <2>1. CASE forward_write(w) BY <2>1, HoldOrder
  <2>2. CASE SendReady(w) BY <2>2, SendReadyOrder
  <2>3. CASE ~forward_write(w) /\ ~SendReady(w)
    <3>1. OrderApart
      BY <1>4, <2>3 DEF WriteStep, Subscribe, LookAgain, Start, Leave, PostDone, Cancel, DropEnd, OrderApart
    <3> QED BY <3>1, OrderFramed
  <2> QED BY <2>1, <2>2, <2>3
<1>5. CASE CloseList
  <2>1. OrderApart BY <1>5 DEF CloseList, OrderApart
  <2> QED BY <2>1, OrderFramed
<1>6. CASE DestroyStep
  <2>1. UNCHANGED <<sent, arrived>> /\ dpc' \in {"cancel", "done"}
    BY <1>6 DEF DestroyStep, TakeHeld, WakeDestroyed
  <2>2. HeldInOrder' BY <2>1 DEF OrderInv, HeldInOrder
  <2> QED BY <2>1, <2>2 DEF OrderInv
<1>7. CASE UNCHANGED vars
  <2>1. OrderApart BY <1>7 DEF vars, OrderApart
  <2> QED BY <2>1, OrderFramed
<1> QED BY <1>1, <1>2, <1>3, <1>4, <1>5, <1>6, <1>7 DEF Next

\* The writes a pending PV held are sent before any it was asked for when it
\* was ready, in the order they were held and each once; the callbacks in flight
\* are counted exactly and never pass the bound by more than the one write it
\* may hold beyond it.
THEOREM HeldWritesGoFirst == Spec => []HeldGoFirst
<1>1. Init => OrderInv BY DEF Init, OrderInv, HeldInOrder
<1>2. PVInv /\ OrderInv => HeldGoFirst
  BY DEF PVInv, WriteInv, FlightInv, SentInv, HeldInv, HeldGoFirst, InFlightBounded, Flying, OrderInv
<1> QED BY <1>1, <1>2, OrderKept, PVInvariant, PTL DEF Spec

-----------------------------------------------------------------------------
(* What the monitors were sent, for any number of setters.                 *)

\* The start: nothing is set or posted.
LEMMA ServedStarts == Init => ServedInv
<1> SUFFICES ASSUME Init PROVE ServedInv OBVIOUS
<1>1. \A m \in Monitors : most[m] <= value /\ ~Reads(m) BY DEF Init, Reads
<1>2. \A s \in Setters : ~Posting(s) BY DEF Init, Posting
<1>3. posted_meta = value BY DEF Init
<1> QED BY <1>1, <1>2, <1>3 DEF ServedInv

\* A step that leaves the value, the setters and what was queued alone.
LEMMA ServedFramed ==
    ASSUME ServedInv, UNCHANGED <<value, posted_meta, crossed, spc, cur, todo, last, most>>,
           \A m \in Monitors : Reads(m)' => Reads(m)
    PROVE  ServedInv'
<1>1. \A m \in Monitors : Coming(m)' = Coming(m) BY DEF Coming
<1>2. \A s \in Setters : Posting(s)' = Posting(s) BY DEF Posting
<1> QED BY <1>1, <1>2 DEF ServedInv

\* What a post queues: the value, to a monitor that is still there.
LEMMA QueuedIsLast ==
    ASSUME TypeOK, NEW m \in Monitors, NEW v \in 0 .. value, Queue(m, v), most[m] <= value
    PROVE  /\ \A x \in Monitors : x # m => last'[x] = last[x] /\ most'[x] = most[x]
           /\ most'[m] <= value
           /\ mpc[m] = "on" => last'[m] = v
           /\ mpc[m] = "on" /\ (v = value \/ most[m] = value) => most'[m] = value
<1>1. last \in [Monitors -> Int] /\ most \in [Monitors -> Int] /\ value \in Nat /\ v \in Int /\ v <= value
  BY DEF TypeOK, MonitorType, ValueType
<1>2. mpc[m] = "on" => ~Cut(m) BY DEF Cut
<1>3. /\ last' = [last EXCEPT ![m] = IF Cut(m) THEN @ ELSE v]
      /\ most' = [most EXCEPT ![m] = IF Cut(m) \/ v <= @ THEN @ ELSE v]
  BY DEF Queue
<1>4. \A x \in Monitors : x # m => last'[x] = last[x] /\ most'[x] = most[x] BY <1>1, <1>3
<1>5. most'[m] <= value BY <1>1, <1>3
<1>6. mpc[m] = "on" => last'[m] = v BY <1>1, <1>2, <1>3
<1>7. mpc[m] = "on" /\ (v = value \/ most[m] = value) => most'[m] = value
  <2> HAVE mpc[m] = "on" /\ (v = value \/ most[m] = value)
  <2>1. most'[m] = IF v <= most[m] THEN most[m] ELSE v BY <1>1, <1>2, <1>3
  <2>2. most[m] \in Int BY <1>1
  <2> QED BY <1>1, <2>1, <2>2
<1> QED BY <1>4, <1>5, <1>6, <1>7

\* A store: what it stores is yet to be posted to all.
LEMMA StoreServes ==
    ASSUME PVInv, ServedInv, NEW s \in Setters, SetValue(s) \/ StoreReady(s)
    PROVE  ServedInv'
<1> USE DEF valueVars, listVars, setterVars, monitorVars, getterVars, writeVars
<1>0. /\ spc \in [Setters -> {"idle", "meta", "deliver", "post", "drain", "first", "wake"}]
      /\ cur \in [Setters -> 0 .. value] /\ todo \in [Setters -> Seq(Monitors)]
      /\ value \in Nat /\ most \in [Monitors -> Int]
  BY DEF PVInv, TypeOK, SetterType, ValueType, MonitorType
<1>1. /\ value' = value + 1 /\ UNCHANGED <<mpc, rights, last, most>> /\ Stores(s)
      /\ cur'[s] = value' /\ \A t \in Setters : t # s => spc'[t] = spc[t]
  BY <1>0 DEF SetValue, StoreReady
<1>2. \/ spc'[s] = "meta"
      \/ spc'[s] = "first" /\ todo'[s] = listed /\ posted_meta' = value'
  BY <1>0 DEF SetValue, StoreReady
<1>3. ASSUME NEW m \in Monitors, Reads(m)' PROVE Coming(m)'
  <2>1. m \in Range(listed) BY <1>1, <1>3 DEF Reads, PVInv, ListInv
  <2> QED BY <1>1, <1>2, <2>1 DEF Coming
<1>4. \A m \in Monitors : most'[m] <= value' BY <1>0, <1>1 DEF ServedInv
<1>5. ASSUME ~crossed', NEW t \in Setters, Posting(t)' PROVE cur'[t] = value'
  <2>1. CASE t = s BY <1>1, <2>1
  <2>2. CASE t # s
    <3>1. Posting(t) BY <1>1, <1>5, <2>2 DEF Posting
    <3> QED BY <1>1, <1>5, <2>2, <3>1 DEF Stores
  <2> QED BY <2>1, <2>2
<1>6. posted_meta' = value' \/ \E t \in Setters : spc'[t] = "meta" BY <1>2
<1> QED BY <1>3, <1>4, <1>5, <1>6 DEF ServedInv

\* A step of one setter that queues nothing: what it was to post, it still is.
LEMMA SetterFramed ==
    ASSUME PVInv, ServedInv, NEW s \in Setters,
           UNCHANGED <<value, crossed, pending, mpc, rights, last, most>>,
           \A t \in Setters : t # s => spc'[t] = spc[t] /\ cur'[t] = cur[t] /\ todo'[t] = todo[t],
           Posting(s)' => cur'[s] = value \/ (cur'[s] = cur[s] /\ Posting(s)),
           \A m \in Monitors :
               (/\ Reads(m) /\ cur[s] = value
                /\ \/ spc[s] \in {"meta", "deliver"}
                   \/ spc[s] \in {"post", "first"} /\ m \in Range(todo[s]))
               => /\ cur'[s] = value
                  /\ \/ spc'[s] \in {"meta", "deliver"}
                     \/ spc'[s] \in {"post", "first"} /\ m \in Range(todo'[s]),
           \/ posted_meta' = posted_meta /\ (spc[s] = "meta" => spc'[s] = "meta")
           \/ spc[s] = "meta" /\ posted_meta' = cur[s]
    PROVE  ServedInv'
<1>1. \A m \in Monitors : Reads(m)' = Reads(m) BY DEF Reads
<1>2. ASSUME NEW m \in Monitors, Reads(m), Coming(m) PROVE Coming(m)'
  <2>1. PICK t \in Setters : /\ cur[t] = value
                             /\ \/ spc[t] \in {"meta", "deliver"}
                                \/ spc[t] \in {"post", "first"} /\ m \in Range(todo[t])
    BY <1>2 DEF Coming
  <2>2. CASE t = s BY <1>2, <2>1, <2>2 DEF Coming
  <2>3. CASE t # s BY <2>1, <2>3 DEF Coming
  <2> QED BY <2>2, <2>3
<1>3. \A m \in Monitors : most'[m] <= value' BY DEF ServedInv
<1>4. \A m \in Monitors : Reads(m)' => most'[m] = value' \/ Coming(m)' BY <1>1, <1>2 DEF ServedInv
<1>5. ASSUME ~crossed'
      PROVE  /\ \A t \in Setters : Posting(t)' => cur'[t] = value'
             /\ \A m \in Monitors : Reads(m)' => last'[m] = value' \/ Coming(m)'
             /\ posted_meta' = value' \/ \E t \in Setters : spc'[t] = "meta"
  <2>0. \A t \in Setters : Posting(t) => cur[t] = value BY <1>5 DEF ServedInv
  <2>1. ASSUME NEW t \in Setters, Posting(t)' PROVE cur'[t] = value'
    <3>1. CASE t = s BY <2>0, <2>1, <3>1
    <3>2. CASE t # s
      <4>1. Posting(t) BY <2>1, <3>2 DEF Posting
      <4> QED BY <2>0, <3>2, <4>1
    <3> QED BY <3>1, <3>2
  <2>2. \A m \in Monitors : Reads(m)' => last'[m] = value' \/ Coming(m)' BY <1>1, <1>2, <1>5 DEF ServedInv
  <2>3. posted_meta' = value' \/ \E t \in Setters : spc'[t] = "meta"
    <3>1. CASE spc[s] = "meta" /\ posted_meta' = cur[s] BY <2>0, <3>1 DEF Posting
    <3>2. CASE posted_meta' = posted_meta /\ (spc[s] = "meta" => spc'[s] = "meta")
      <4>1. posted_meta = value \/ \E t \in Setters : spc[t] = "meta" BY <1>5 DEF ServedInv
      <4> QED BY <3>2, <4>1
    <3> QED BY <3>1, <3>2
  <2> QED BY <2>1, <2>2, <2>3
<1> QED BY <1>3, <1>4, <1>5 DEF ServedInv

\* One monitor's post: it was to get the value, or has got it, and is sent
\* this one, the value too unless the store of that met this post.
LEMMA PostServes ==
    ASSUME PVInv, ServedInv, NEW s \in Setters, Post(s) \/ PostFirst(s), todo[s] # <<>>
    PROVE  ServedInv'
<1> USE DEF valueVars, listVars, setterVars, monitorVars, getterVars, writeVars
<1> DEFINE m == Head(todo[s])
<1>0. TypeOK BY DEF PVInv
<1>a. /\ cur[s] \in 0 .. value /\ todo[s] \in Seq(Monitors) /\ todo \in [Setters -> Seq(Monitors)]
      /\ value \in Nat
  BY <1>0 DEF TypeOK, SetterType, ValueType
<1>1. /\ spc[s] \in {"post", "first"} /\ todo' = [todo EXCEPT ![s] = Tail(todo[s])]
      /\ UNCHANGED <<value, posted_meta, crossed, pending, spc, cur, mpc, rights>>
      /\ Queue(m, cur[s]) \/ (~Active(m) /\ UNCHANGED <<last, most>>)
  BY DEF Post, PostFirst, FirstEvent
<1>2. m \in Monitors /\ Range(todo[s]) = Range(Tail(todo[s])) \cup {m} BY <1>a, TailOnce
<1> HIDE DEF m
<1>3. \A t \in Setters : todo'[t] = IF t = s THEN Tail(todo[s]) ELSE todo[t] BY <1>1, <1>a
<1>b. Posting(s) /\ \A t \in Setters : Posting(t)' = Posting(t) BY <1>1 DEF Posting
<1>c. most[m] <= value BY <1>2 DEF ServedInv
<1>4. \A x \in Monitors : Reads(x)' = Reads(x) BY <1>1 DEF Reads
<1>5. /\ \A x \in Monitors : x # m => last'[x] = last[x] /\ most'[x] = most[x]
      /\ most'[m] <= value
      /\ Reads(m) => last'[m] = cur[s]
      /\ Reads(m) /\ (cur[s] = value \/ most[m] = value) => most'[m] = value
  <2>1. CASE Queue(m, cur[s]) BY <1>0, <1>2, <1>a, <1>c, <2>1, QueuedIsLast DEF Reads
  <2>2. CASE ~Active(m) /\ UNCHANGED <<last, most>> BY <1>c, <2>2 DEF Active, Reads
  <2> QED BY <1>1, <2>1, <2>2
<1>6. ASSUME NEW x \in Monitors, x # m \/ cur[s] # value, Coming(x) PROVE Coming(x)'
  <2>1. PICK t \in Setters : /\ cur[t] = value
                             /\ \/ spc[t] \in {"meta", "deliver"}
                                \/ spc[t] \in {"post", "first"} /\ x \in Range(todo[t])
    BY <1>6 DEF Coming
  <2>2. CASE t = s
    <3>1. x \in Range(todo[s]) /\ x # m BY <1>1, <1>6, <2>1, <2>2
    <3>2. x \in Range(todo'[s]) BY <1>2, <1>3, <3>1
    <3> QED BY <1>1, <2>1, <2>2, <3>2 DEF Coming
  <2>3. CASE t # s BY <1>1, <1>3, <2>1, <2>3 DEF Coming
  <2> QED BY <2>2, <2>3
<1>7. ASSUME NEW x \in Monitors PROVE most'[x] <= value'
  BY <1>1, <1>5 DEF ServedInv
<1>8. ASSUME NEW x \in Monitors, Reads(x)' PROVE most'[x] = value' \/ Coming(x)'
  <2>1. Reads(x) /\ (most[x] = value \/ Coming(x)) BY <1>4, <1>8 DEF ServedInv
  <2>2. CASE x # m BY <1>1, <1>5, <1>6, <2>1, <2>2
  <2>3. CASE x = m /\ cur[s] = value BY <1>1, <1>5, <2>1, <2>3
  <2>4. CASE x = m /\ cur[s] # value BY <1>1, <1>5, <1>6, <2>1, <2>4
  <2> QED BY <2>2, <2>3, <2>4
<1>9. ASSUME ~crossed'
      PROVE  /\ \A t \in Setters : Posting(t)' => cur'[t] = value'
             /\ \A x \in Monitors : Reads(x)' => last'[x] = value' \/ Coming(x)'
             /\ posted_meta' = value' \/ \E t \in Setters : spc'[t] = "meta"
  <2>1. ~crossed BY <1>1, <1>9
  <2>2. cur[s] = value BY <1>b, <2>1 DEF ServedInv
  <2>3. ASSUME NEW x \in Monitors, Reads(x)' PROVE last'[x] = value' \/ Coming(x)'
    <3>1. CASE x = m BY <1>1, <1>4, <1>5, <2>2, <2>3, <3>1
    <3>2. CASE x # m
      <4>1. last[x] = value \/ Coming(x) BY <1>4, <2>1, <2>3 DEF ServedInv
      <4> QED BY <1>1, <1>5, <1>6, <3>2, <4>1
    <3> QED BY <3>1, <3>2
  <2>4. \A t \in Setters : Posting(t)' => cur'[t] = value' BY <1>1, <1>b, <2>1 DEF ServedInv
  <2>5. posted_meta' = value' \/ \E t \in Setters : spc'[t] = "meta" BY <1>1, <2>1 DEF ServedInv
  <2> QED BY <2>3, <2>4, <2>5
<1> QED BY <1>7, <1>8, <1>9 DEF ServedInv

\* The setters' steps.
LEMMA SetterServes ==
    ASSUME PVInv, ServedInv, NEW s \in Setters,
           SetValue(s) \/ post_alarm(s) \/ make_ready(s) \/ SetterStep(s)
    PROVE  ServedInv'
<1> USE DEF valueVars, listVars, setterVars, monitorVars, getterVars, writeVars
<1>0. /\ spc \in [Setters -> {"idle", "meta", "deliver", "post", "drain", "first", "wake"}]
      /\ cur \in [Setters -> 0 .. value] /\ todo \in [Setters -> Seq(Monitors)]
  BY DEF PVInv, TypeOK, SetterType
<1>1. CASE SetValue(s) \/ StoreReady(s) BY <1>1, StoreServes
<1>2. CASE make_ready(s) \/ SendHeld(s) \/ WakeReads(s)
  <2>1. /\ UNCHANGED <<value, posted_meta, crossed, pending, cur, todo, mpc, rights, last, most>>
        /\ \A t \in Setters : t # s => spc'[t] = spc[t]
        /\ spc[s] \notin {"meta", "deliver", "post", "first"}
        /\ spc'[s] \notin {"meta", "deliver", "post", "first"}
    BY <1>2, <1>0 DEF make_ready, SendHeld, WakeReads
  <2>2. ~(Posting(s)') BY <2>1 DEF Posting
  <2> QED BY <2>1, <2>2, SetterFramed
<1>3. CASE post_alarm(s)
  <2>1. /\ UNCHANGED <<value, posted_meta, crossed, pending, todo, mpc, rights, last, most>>
        /\ \A t \in Setters : t # s => spc'[t] = spc[t] /\ cur'[t] = cur[t]
        /\ spc[s] = "idle" /\ spc'[s] = "deliver" /\ cur'[s] = value
    BY <1>3, <1>0 DEF post_alarm
  <2> QED BY <2>1, SetterFramed
<1>4. CASE SetMeta(s)
  <2>1. /\ UNCHANGED <<value, crossed, pending, cur, todo, mpc, rights, last, most>>
        /\ \A t \in Setters : t # s => spc'[t] = spc[t]
        /\ spc[s] = "meta" /\ spc'[s] = "deliver" /\ posted_meta' = cur[s]
    BY <1>4, <1>0 DEF SetMeta
  <2>2. Posting(s) BY <2>1 DEF Posting
  <2> QED BY <2>1, <2>2, SetterFramed
<1>5. CASE deliver(s)
  <2>1. /\ UNCHANGED <<value, posted_meta, crossed, pending, cur, mpc, rights, last, most>>
        /\ \A t \in Setters : t # s => spc'[t] = spc[t] /\ todo'[t] = todo[t]
        /\ spc[s] = "deliver" /\ spc'[s] = (IF pending THEN "idle" ELSE "post")
        /\ todo'[s] = (IF pending THEN <<>> ELSE listed)
    BY <1>5, <1>0 DEF deliver
  <2>2. Posting(s) BY <2>1 DEF Posting
  <2>3. \A m \in Monitors : Reads(m) => spc'[s] = "post" /\ m \in Range(todo'[s])
    BY <2>1 DEF Reads, PVInv, ListInv
  <2> QED BY <2>1, <2>2, <2>3, SetterFramed
<1>6. CASE (Post(s) \/ PostFirst(s)) /\ todo[s] = <<>>
  <2>1. /\ UNCHANGED <<value, posted_meta, crossed, pending, cur, todo, mpc, rights, last, most>>
        /\ \A t \in Setters : t # s => spc'[t] = spc[t]
        /\ spc[s] \in {"post", "first"} /\ spc'[s] \in {"idle", "wake"}
    BY <1>6, <1>0 DEF Post, PostFirst
  <2>2. Range(todo[s]) = {} BY <1>6 DEF Range
  <2>3. ~(Posting(s)') BY <2>1 DEF Posting
  <2> QED BY <2>1, <2>2, <2>3, SetterFramed
<1>7. CASE (Post(s) \/ PostFirst(s)) /\ todo[s] # <<>> BY <1>7, PostServes
<1> QED BY <1>1, <1>2, <1>3, <1>4, <1>5, <1>6, <1>7 DEF SetterStep

\* A step that queues to one monitor alone, and that the value the PV holds.
LEMMA ServedToOne ==
    ASSUME PVInv, ServedInv, NEW m \in Monitors,
           UNCHANGED <<value, posted_meta, crossed, spc, cur, todo>>,
           \A x \in Monitors : x # m => (Reads(x)' => Reads(x)) /\ last'[x] = last[x] /\ most'[x] = most[x],
           most'[m] <= value, Reads(m)' => last'[m] = value /\ most'[m] = value
    PROVE  ServedInv'
<1>1. \A x \in Monitors : Coming(x)' = Coming(x) BY DEF Coming
<1>2. \A s \in Setters : Posting(s)' = Posting(s) BY DEF Posting
<1>3. \A x \in Monitors : most'[x] <= value' BY DEF ServedInv
<1>4. \A x \in Monitors : Reads(x)' => most'[x] = value' \/ Coming(x)' BY <1>1 DEF ServedInv
<1>5. ~crossed' => \A x \in Monitors : Reads(x)' => last'[x] = value' \/ Coming(x)' BY <1>1 DEF ServedInv
<1> QED BY <1>2, <1>3, <1>4, <1>5 DEF ServedInv

\* A monitor is on with what the PV holds, which the read lock kept from its
\* attach to its first event; and so is one whose client reads again.
LEMMA MonitorServes ==
    ASSUME PVInv, ServedInv, NEW m \in Monitors, MonitorAsks(m) \/ MonitorStep(m)
    PROVE  ServedInv'
<1> USE DEF valueVars, listVars, setterVars, monitorVars, getterVars, writeVars
<1>0. TypeOK /\ ListInv /\ most[m] <= value BY DEF PVInv, ServedInv
<1>a. /\ mpc \in [Monitors -> {"new", "attach", "first", "cut", "on", "gone"}]
      /\ rights \in [Monitors -> {"read", "lost", "none", "gained"}]
      /\ value \in 0 .. value
  BY <1>0 DEF TypeOK, MonitorType, ValueType
<1>1. CASE AddBegin(m) \/ attach(m) \/ remove_subscriber(m) \/ Disable(m) \/ RegainRead(m)
  <2>1. /\ UNCHANGED <<value, posted_meta, pending, crossed, spc, cur, todo, last, most>>
        /\ \A x \in Monitors : mpc'[x] = "on" => mpc[x] = "on"
        /\ \A x \in Monitors : rights'[x] \in {"read", "lost"} => rights[x] \in {"read", "lost"}
    BY <1>1, <1>a DEF AddBegin, attach, remove_subscriber, Disable, RegainRead
  <2>2. \A x \in Monitors : Reads(x)' => Reads(x) BY <2>1 DEF Reads
  <2> QED BY <2>1, <2>2, ServedFramed
<1>2. CASE AddEnd(m)
  <2>1. /\ UNCHANGED <<value, posted_meta, pending, crossed, spc, cur, todo, rights>>
        /\ \A x \in Monitors : x # m => mpc'[x] = mpc[x]
        /\ mpc[m] \in {"first", "cut"} /\ (mpc'[m] = "on" => mpc[m] = "first")
    BY <1>2, <1>a DEF AddEnd
  <2>2. CASE mpc[m] = "first" /\ ~pending
    <3>1. m \in Range(listed) BY <2>2, <1>0 DEF ListInv
    <3>2. Queue(m, value) BY <1>2, <2>2, <3>1 DEF AddEnd, post_single_held, FirstEvent
    <3>3. /\ last \in [Monitors -> Int] /\ most \in [Monitors -> Int] /\ ~Cut(m) /\ value \in Int
      BY <1>0, <2>2 DEF TypeOK, MonitorType, ValueType, Cut
    <3>4. /\ last' = [last EXCEPT ![m] = value]
          /\ most' = [most EXCEPT ![m] = IF value <= @ THEN @ ELSE value]
      BY <3>2, <3>3 DEF Queue
    <3>5. /\ last'[m] = value /\ most'[m] = value
          /\ \A x \in Monitors : x # m => last'[x] = last[x] /\ most'[x] = most[x]
      BY <1>0, <3>3, <3>4
    <3>6. \A x \in Monitors : x # m => (Reads(x)' => Reads(x)) BY <2>1 DEF Reads
    <3>7. most'[m] <= value BY <3>3, <3>5
    <3> QED BY <2>1, <3>5, <3>6, <3>7, ServedToOne
  <2>3. CASE mpc[m] = "cut" \/ pending
    <3>1. pending \/ m \notin Range(listed) BY <2>3, <1>0 DEF ListInv
    <3>2. UNCHANGED <<last, most>> BY <1>2, <3>1 DEF AddEnd, post_single_held
    <3>3. \A x \in Monitors : Reads(x)' => Reads(x) BY <2>1, <2>3 DEF Reads
    <3> QED BY <2>1, <3>2, <3>3, ServedFramed
  <2> QED BY <2>1, <2>2, <2>3
<1>3. CASE LoseRead(m) \/ PostRegained(m)
  <2>1. /\ UNCHANGED <<value, posted_meta, pending, crossed, spc, cur, todo, mpc>> /\ mpc[m] = "on"
        /\ \A x \in Monitors : x # m => rights'[x] = rights[x]
    BY <1>3, <1>a DEF LoseRead, PostRegained
  <2>2. \A x \in Monitors : x # m => (Reads(x)' => Reads(x)) BY <2>1 DEF Reads
  <2>3. CASE pending
    <3>1. UNCHANGED <<last, most>> BY <1>3, <2>3 DEF LoseRead, PostRegained, post_single_event
    <3>2. ~(Reads(m)') BY <2>1, <2>3 DEF Reads
    <3> QED BY <1>0, <2>1, <2>2, <3>1, <3>2, ServedToOne
  <2>4. CASE ~pending
    <3>1. Queue(m, value) BY <1>3, <2>4 DEF LoseRead, PostRegained, post_single_event
    <3>2. /\ \A x \in Monitors : x # m => last'[x] = last[x] /\ most'[x] = most[x]
          /\ most'[m] <= value /\ last'[m] = value /\ most'[m] = value
      BY <1>0, <1>a, <2>1, <3>1, QueuedIsLast
    <3> QED BY <2>1, <2>2, <3>2, ServedToOne
  <2> QED BY <2>3, <2>4
<1> QED BY <1>1, <1>2, <1>3 DEF MonitorAsks, MonitorStep

\* However many threads set the value, post alarms or make the PV ready, and
\* whatever access its clients lose and regain meanwhile, a monitor gets one
\* first event, and once nothing is under way it has been sent the value the PV
\* holds.  With no other post under way when that value was stored, it came
\* last, and its metadata is what is served: the holds of a set are three, not
\* one, so two that cross may store in one order and post in the other.
THEOREM MonitorsAreServed == Spec => []MonitorsServed
<1>1. ASSUME PVInv, ServedInv, [Next]_vars PROVE ServedInv'
  <2> USE DEF valueVars, listVars, setterVars, monitorVars, getterVars, writeVars
  <2>1. ASSUME NEW s \in Setters, SetValue(s) \/ post_alarm(s) \/ make_ready(s) \/ SetterStep(s) PROVE ServedInv'
    BY <1>1, <2>1, SetterServes
  <2>2. ASSUME NEW m \in Monitors, MonitorAsks(m) \/ MonitorStep(m) PROVE ServedInv'
    BY <1>1, <2>2, MonitorServes
  <2>3. ASSUME UNCHANGED <<valueVars, setterVars, last, most, rights>>,
               \A m \in Monitors : mpc'[m] = "on" => mpc[m] = "on"
        PROVE  ServedInv'
    <3>1. \A m \in Monitors : Reads(m)' => Reads(m) BY <2>3 DEF Reads
    <3> QED BY <1>1, <2>3, <3>1, ServedFramed
  <2>4. ASSUME NEW g \in Getters, GetterStep(g) PROVE ServedInv'
    BY <2>3, <2>4 DEF GetterStep, Register, LookReady, LookGone
  <2>5. ASSUME NEW w \in Writes, forward_write(w) \/ WriteStep(w) \/ DropEnd(w) PROVE ServedInv'
    BY <2>3, <2>5 DEF forward_write, WriteStep, Subscribe, LookAgain, Start, SendReady,
       Leave, PostDone, Cancel, DropEnd
  <2>6. CASE CloseList
    <3>1. \A m \in Monitors : mpc'[m] = "on" => mpc[m] = "on" BY <2>6 DEF CloseList
    <3> QED BY <2>3, <2>6, <3>1 DEF CloseList
  <2>7. CASE DestroyStep BY <2>3, <2>7 DEF DestroyStep, TakeHeld, WakeDestroyed
  <2>8. CASE UNCHANGED vars BY <2>3, <2>8 DEF vars
  <2> QED BY <1>1, <2>1, <2>2, <2>4, <2>5, <2>6, <2>7, <2>8 DEF Next
<1>2. FirstEventOnce /\ ServedInv => MonitorsServed
  <2> SUFFICES ASSUME FirstEventOnce, ServedInv, Quiet
               PROVE  /\ \A m \in Monitors : mpc[m] = "on" /\ rights[m] \in {"read", "lost"} =>
                             most[m] = value /\ (~crossed => last[m] = value)
                      /\ ~crossed => posted_meta = value
    BY DEF MonitorsServed, MonitorHasLast, MetaOfValue
  <2>1. \A m \in Monitors : ~Coming(m) BY DEF Coming, Quiet
  <2>2. \A m \in Monitors : mpc[m] = "on" /\ rights[m] \in {"read", "lost"} => Reads(m) BY DEF Reads, Quiet
  <2>3. \A s \in Setters : spc[s] # "meta" BY DEF Quiet
  <2> QED BY <2>1, <2>2, <2>3 DEF ServedInv
<1> QED BY <1>1, <1>2, ServedStarts, PVInvariant, FirstEventsOnce, PTL DEF Spec
=============================================================================
