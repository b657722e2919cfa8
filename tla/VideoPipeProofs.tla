-------------------------- MODULE VideoPipeProofs --------------------------
(***************************************************************************)
(* The safety invariants of VideoPipe, proved for every channel capacity   *)
(* and any number of connections and scripts.                              *)
(*                                                                         *)
(* The bound on the frame buffers is inductive because a buffer is only    *)
(* allocated when none is recycled: at that moment every other buffer is   *)
(* in the message channel, with the main thread or with a connection.      *)
(***************************************************************************)
EXTENDS VideoPipe, FiniteSetTheorems, TLAPS

\* Where the main thread stands tells whether it holds a frame to show, and
\* whether the image still has the buffer that frame replaces; while a script starts
\* there is room for one more.
Held ==
  /\ bevy \in {"frame", "clear", "parse"} => last = 0
  /\ bevy \in {"show", "swap"} => last = 1
  /\ bevy = "swap" => image = 0
  /\ bevy = "clear" => running < MaxScripts

Base == TypeOK /\ Held

LEMMA MsgType ==
  ASSUME NEW kind \in {"Data", "StreamInfo", "Close", "Script"}, NEW from \in Streams \cup {None}
  PROVE  Msg(kind, from) \in Message /\ Msg(kind, from).kind = kind /\ Msg(kind, from).from = from
  BY DEF Msg, Message

\* Sending a message keeps the type of the channel.
LEMMA SendType ==
  ASSUME TypeOK, HasRoom, NEW m \in Message, Send(m)
  PROVE  v' \in Seq(Message) /\ Len(v') <= VCap
  BY CapacityAssumption DEF TypeOK, HasRoom, Send

\* Every step preserves the types and what the main thread holds.
LEMMA BaseStep == Base /\ [Next]_vars => Base'
<1> SUFFICES ASSUME Base, [Next]_vars PROVE Base'
  OBVIOUS
<1> USE CapacityAssumption DEF Base, TypeOK, Held, Filled, InHand, pipeVars, bevyVars, Step
<1>1. ASSUME NEW s \in Streams, Worker(s) PROVE Base'
  <2>1. CASE SendInfo(s) BY <2>1, SendType, MsgType DEF SendInfo
  <2>2. CASE TrySendFrame(s)
    <3>1. CASE HasRoom /\ Send(Msg("Data", s)) /\ Step(s, "read")
      BY <2>2, <3>1, SendType, MsgType DEF TrySendFrame
    <3>2. CASE ~HasRoom /\ UNCHANGED v /\ Step(s, "bounce")
      BY <2>2, <3>2 DEF TrySendFrame
    <3> QED BY <2>2, <3>1, <3>2 DEF TrySendFrame
  <2>3. CASE RecycleFrame(s) BY <2>3 DEF RecycleFrame
  <2>4. CASE SendClose(s) BY <2>4, SendType, MsgType DEF SendClose, CloseSent
  <2> QED BY <1>1, <2>1, <2>2, <2>3, <2>4 DEF Worker
<1>2. ASSUME NEW s \in Streams, Device(s) PROVE Base'
  BY <1>2 DEF Device, Accepted, ReadName, ReadMeta, Stopped, Decode, AfterTake
<1>3. ASSUME Script PROVE Base'
  <2>1. CASE StartScript BY <2>1 DEF StartScript
  <2>2. CASE ScriptEnds BY <2>2, SendType, MsgType DEF ScriptEnds
  <2> QED BY <1>3, <2>1, <2>2 DEF Script
<1>4. CASE Main
  <2>1. CASE ClearError
    <3>1. running' \in 0..MaxScripts \/ running' = running + 1
      BY <2>1 DEF ClearError
    <3> QED BY <2>1, <3>1, SendType, MsgType DEF ClearError
  <2>2. CASE ParseError BY <2>2, SendType, MsgType DEF ParseError
  <2>3. CASE StartDrain BY <2>3 DEF StartDrain
  <2>4. CASE Take
    <3>1. v' \in Seq(Message) /\ Len(v') <= VCap
      BY <2>4 DEF Take
    <3>2. Head(v) \in Message
      BY <2>4 DEF Take
    <3>3. Head(v).from \in Streams \cup {None}
      BY <3>2 DEF Message
    <3> QED BY <2>4, <3>1, <3>3 DEF Take, TakeData, TakeInfo, TakeScript, TakeClose
  <2>5. CASE Drop BY <2>5 DEF Drop
  <2>6. CASE Drained BY <2>6 DEF Drained
  <2>7. CASE Show BY <2>7 DEF Show
  <2>8. CASE Swap BY <2>8 DEF Swap
  <2> QED BY <1>4, <2>1, <2>2, <2>3, <2>4, <2>5, <2>6, <2>7, <2>8 DEF Main
<1>5. CASE UNCHANGED vars BY <1>5 DEF vars
<1> QED BY <1>1, <1>2, <1>3, <1>4, <1>5 DEF Next

LEMMA BaseHolds == Spec => []Base
<1>1. Init => Base
  BY CapacityAssumption DEF Init, Base, TypeOK, Held, Filled, InHand
<1> QED
  BY <1>1, BaseStep, PTL DEF Spec

\* Every variable has its type in every reachable state.
THEOREM TypeCorrect == Spec => []TypeOK
<1>1. Base => TypeOK
  BY DEF Base
<1> QED
  BY <1>1, BaseHolds, PTL

-----------------------------------------------------------------------------
(* Counting the buffers.                                                    *)

\* The frames of a channel are as many as its positions at most.
LEMMA DataFinite ==
  ASSUME NEW q \in Seq(Message)
  PROVE  /\ IsFiniteSet(DataIn(q))
         /\ Cardinality(DataIn(q)) \in Nat
         /\ Cardinality(DataIn(q)) <= Len(q)
<1>1. DataIn(q) \in SUBSET (1..Len(q)) /\ Len(q) \in Nat
  BY DEF DataIn
<1>2. IsFiniteSet(1..Len(q)) /\ Cardinality(1..Len(q)) = Len(q)
  <2>1. Len(q) \in Int /\ 1 \in Int
    BY <1>1
  <2>2. Cardinality(1..Len(q)) = IF 1 > Len(q) THEN 0 ELSE Len(q) - 1 + 1
    BY <2>1, FS_Interval, Zenon
  <2>3. IsFiniteSet(1..Len(q))
    BY <2>1, FS_Interval, Zenon
  <2> QED
    BY <1>1, <2>2, <2>3
<1>3. IsFiniteSet(DataIn(q)) /\ Cardinality(DataIn(q)) <= Len(q)
  BY <1>1, <1>2, FS_Subset
<1> QED
  BY <1>3, FS_CardinalityType

\* A message appended adds one frame if it is one, and nothing otherwise.
LEMMA DataAppend ==
  ASSUME NEW q \in Seq(Message), NEW m \in Message
  PROVE  Cardinality(DataIn(Append(q, m))) =
           Cardinality(DataIn(q)) + (IF m.kind = "Data" THEN 1 ELSE 0)
<1>1. IsFiniteSet(DataIn(q)) /\ Cardinality(DataIn(q)) \in Nat
  BY DataFinite
<1>2. Len(q) + 1 \notin DataIn(q)
  BY DEF DataIn
<1>3. CASE m.kind = "Data"
  <2>1. DataIn(Append(q, m)) = DataIn(q) \cup {Len(q) + 1}
    BY <1>3 DEF DataIn
  <2> QED
    BY <1>1, <1>2, <1>3, <2>1, FS_AddElement
<1>4. CASE m.kind # "Data"
  <2>1. DataIn(Append(q, m)) = DataIn(q)
    BY <1>4 DEF DataIn
  <2> QED
    BY <1>1, <1>4, <2>1
<1> QED
  BY <1>3, <1>4

\* Taking the head removes one frame if it is one, and nothing otherwise.
LEMMA DataTail ==
  ASSUME NEW q \in Seq(Message), q # <<>>
  PROVE  Cardinality(DataIn(q)) =
           Cardinality(DataIn(Tail(q))) + (IF Head(q).kind = "Data" THEN 1 ELSE 0)
<1> DEFINE rest == DataIn(q) \ {1}
           shift == [i \in DataIn(Tail(q)) |-> i + 1]
<1>0. /\ Tail(q) \in Seq(Message) /\ Len(Tail(q)) = Len(q) - 1 /\ Len(q) \in Nat \ {0}
      /\ Head(q) = q[1] /\ \A i \in 1..Len(Tail(q)) : Tail(q)[i] = q[i + 1]
  OBVIOUS
<1>1. IsFiniteSet(DataIn(q)) /\ IsFiniteSet(DataIn(Tail(q)))
      /\ Cardinality(DataIn(q)) \in Nat /\ Cardinality(DataIn(Tail(q))) \in Nat
  BY <1>0, DataFinite
<1>2. \A i \in DataIn(Tail(q)) : i \in Nat /\ i + 1 \in rest
  BY <1>0 DEF DataIn
<1>3. \A j \in rest : j - 1 \in DataIn(Tail(q)) /\ j = (j - 1) + 1
  BY <1>0 DEF DataIn
<1>4. shift \in Bijection(DataIn(Tail(q)), rest)
  <2>1. shift \in [DataIn(Tail(q)) -> rest]
    BY <1>2
  <2>2. \A i, j \in DataIn(Tail(q)) : shift[i] = shift[j] => i = j
    BY <1>2
  <2>3. \A j \in rest : \E i \in DataIn(Tail(q)) : shift[i] = j
    BY <1>3
  <2> HIDE DEF shift, rest
  <2> QED
    BY <2>1, <2>2, <2>3 DEF Bijection, Injection, Surjection, IsInjective
<1>5. Cardinality(rest) = Cardinality(DataIn(Tail(q)))
  BY <1>1, <1>4, FS_Bijection DEF ExistsBijection
<1>6. Cardinality(rest) = IF 1 \in DataIn(q) THEN Cardinality(DataIn(q)) - 1 ELSE Cardinality(DataIn(q))
  BY <1>1, FS_RemoveElement
<1>7. 1 \in DataIn(q) <=> Head(q).kind = "Data"
  BY <1>0 DEF DataIn
<1> QED
  BY <1>1, <1>5, <1>6, <1>7

\* The connections that hold a buffer are some of the connections.
LEMMA WorkingFinite ==
  /\ IsFiniteSet(Working) /\ Cardinality(Working) \in Nat
  /\ Cardinality(Working) <= Cardinality(Streams) /\ Cardinality(Streams) \in Nat
<1>1. Working \in SUBSET Streams
  BY DEF Working
<1> QED
  BY <1>1, CapacityAssumption, FS_Subset, FS_CardinalityType

\* A connection that takes a buffer, gives it away, or does neither.
LEMMA WorkingStep ==
  ASSUME TypeOK, NEW s \in Streams, NEW phase, Step(s, phase)
  PROVE  Cardinality(Working') =
           Cardinality(Working) + (IF phase \in Filled THEN 1 ELSE 0)
                                - (IF task[s] \in Filled THEN 1 ELSE 0)
<1>1. Working' = IF phase \in Filled THEN Working \cup {s} ELSE Working \ {s}
  BY DEF TypeOK, Step, Working
<1>2. s \in Working <=> task[s] \in Filled
  BY DEF Working
<1>3. /\ Cardinality(Working \cup {s}) =
           IF s \in Working THEN Cardinality(Working) ELSE Cardinality(Working) + 1
      /\ Cardinality(Working \ {s}) =
           IF s \in Working THEN Cardinality(Working) - 1 ELSE Cardinality(Working)
  BY WorkingFinite, FS_AddElement, FS_RemoveElement
<1> QED
  BY <1>1, <1>2, <1>3, WorkingFinite

LEMMA SendCount ==
  ASSUME TypeOK, NEW m \in Message, Send(m)
  PROVE  Cardinality(DataIn(v')) =
           Cardinality(DataIn(v)) + (IF m.kind = "Data" THEN 1 ELSE 0)
  BY DataAppend DEF TypeOK, Send

\* Every count the sum of the buffers is made of is a number.
LEMMA CountTypes ==
  ASSUME Base
  PROVE  /\ Cardinality(DataIn(v)) \in Nat /\ Cardinality(DataIn(v)) <= VCap
         /\ recycle \in Nat /\ VCap \in Nat
         /\ last \in 0..1 /\ image \in 0..1 /\ InMain \in 0..1
<1>1. v \in Seq(Message) /\ Len(v) <= VCap /\ Len(v) \in Nat
  BY DEF Base, TypeOK
<1>2. Cardinality(DataIn(v)) \in Nat /\ Cardinality(DataIn(v)) <= Len(v)
  BY <1>1, DataFinite
<1> QED
  BY <1>1, <1>2, CapacityAssumption DEF Base, TypeOK, InMain

\* A buffer is only created when none is recycled, and nothing else adds one.
LEMMA BuffersStep == Base /\ BuffersBounded /\ [Next]_vars => BuffersBounded'
<1> SUFFICES ASSUME Base, BuffersBounded, [Next]_vars PROVE BuffersBounded'
  OBVIOUS
<1> DEFINE D  == Cardinality(DataIn(v))
           Dn == Cardinality(DataIn(v'))
           W  == Cardinality(Working)
           Wn == Cardinality(Working')
<1> USE DEF InMain
<1>a. TypeOK
  BY DEF Base
<1>b. /\ D \in Nat /\ D <= VCap /\ recycle \in Nat /\ VCap \in Nat
      /\ last \in 0..1 /\ image \in 0..1
  BY CountTypes
<1>c. W \in Nat /\ W <= Cardinality(Streams) /\ Cardinality(Streams) \in Nat
  BY WorkingFinite
<1>d. D + recycle + W + last + image + InMain <= VCap + Cardinality(Streams) + 3
  BY DEF BuffersBounded, Buffers, BufferBound
<1>e. ASSUME Dn + recycle' + Wn + last' + image' + InMain'
                <= VCap + Cardinality(Streams) + 3
      PROVE  BuffersBounded'
  BY <1>e DEF BuffersBounded, Buffers, BufferBound
<1>w. ASSUME task' = task PROVE Wn = W
  BY <1>w DEF Working
<1>v. ASSUME v' = v PROVE Dn = D
  BY <1>v
<1>p. ASSUME NEW s \in Streams, NEW phase, Step(s, phase)
      PROVE  Wn = W + (IF phase \in Filled THEN 1 ELSE 0)
                    - (IF task[s] \in Filled THEN 1 ELSE 0)
  BY <1>a, <1>p, WorkingStep
<1>m. ASSUME NEW kind \in {"Data", "StreamInfo", "Close", "Script"},
             NEW from \in Streams \cup {None}, Send(Msg(kind, from))
      PROVE  Dn = D + (IF kind = "Data" THEN 1 ELSE 0)
  BY <1>a, <1>m, MsgType, SendCount
<1> HIDE DEF D, Dn, W, Wn
<1> USE DEF pipeVars, bevyVars
<1>1. ASSUME NEW s \in Streams, Worker(s) PROVE BuffersBounded'
  <2>1. CASE SendInfo(s)
    <3>1. Dn = D /\ Wn = W
      BY <1>b, <1>c, <1>m, <1>p, <2>1 DEF SendInfo, Filled
    <3> QED BY <1>d, <1>e, <2>1, <3>1 DEF SendInfo
  <2>2. CASE TrySendFrame(s)
    <3>1. Dn + Wn = D + W
      BY <1>b, <1>c, <1>m, <1>p, <1>v, <2>2 DEF TrySendFrame, Filled
    <3>2. Dn \in Int /\ Wn \in Int
      BY <1>b, <1>c, <1>m, <1>p, <1>v, <2>2 DEF TrySendFrame, Filled
    <3> QED BY <1>b, <1>c, <1>d, <1>e, <2>2, <3>1, <3>2 DEF TrySendFrame
  <2>3. CASE RecycleFrame(s)
    <3>1. Dn = D /\ Wn = W - 1
      BY <1>b, <1>c, <1>p, <1>v, <2>3 DEF RecycleFrame, Filled
    <3> QED BY <1>b, <1>c, <1>d, <1>e, <2>3, <3>1 DEF RecycleFrame
  <2>4. CASE SendClose(s)
    <3>1. Dn = D /\ Wn = W
      BY <1>b, <1>c, <1>m, <1>p, <2>4 DEF SendClose, CloseSent, Filled
    <3> QED BY <1>d, <1>e, <2>4, <3>1 DEF SendClose
  <2> QED BY <1>1, <2>1, <2>2, <2>3, <2>4 DEF Worker
<1>2. ASSUME NEW s \in Streams, Device(s) PROVE BuffersBounded'
  <2>1. CASE Accepted(s) \/ ReadName(s) \/ ReadMeta(s) \/ Stopped(s)
    <3>1. Wn = W
      BY <1>c, <1>p, <2>1 DEF Accepted, ReadName, ReadMeta, Stopped, Filled
    <3> QED BY <1>d, <1>e, <1>v, <2>1, <3>1 DEF Accepted, ReadName, ReadMeta, Stopped
  <2>2. CASE Decode(s)
    <3>1. Dn = D /\ Wn = W + 1
      BY <1>c, <1>p, <1>v, <2>2 DEF Decode, Filled
    <3>2. Wn <= Cardinality(Streams)
      <4>1. Working' \in SUBSET Streams
        BY DEF Working
      <4>2. IsFiniteSet(Streams)
        BY CapacityAssumption
      <4> QED BY <4>1, <4>2, FS_Subset, Zenon DEF Wn
    <3>3. CASE recycle > 0
      BY <1>b, <1>c, <1>d, <1>e, <2>2, <3>1, <3>3 DEF Decode, AfterTake
    <3>4. CASE recycle = 0
      <4>1. recycle' = 0 /\ last' = last /\ image' = image /\ InMain' \in 0..1
        BY <2>2, <3>4 DEF Decode, AfterTake
      <4> QED BY <1>b, <1>c, <1>e, <3>1, <3>2, <4>1
    <3> QED BY <1>b, <3>3, <3>4
  <2> QED BY <1>2, <2>1, <2>2 DEF Device
<1>3. CASE Script
  <2>1. Dn = D /\ Wn = W
    BY <1>3, <1>b, <1>m, <1>v, <1>w DEF Script, StartScript, ScriptEnds
  <2> QED BY <1>3, <1>d, <1>e, <2>1 DEF Script, StartScript, ScriptEnds, InHand
<1>4. CASE Main
  <2>1. CASE ClearError \/ ParseError
    <3>1. Dn = D /\ Wn = W
      BY <2>1, <1>b, <1>m, <1>w DEF ClearError, ParseError
    <3> QED BY <1>d, <1>e, <2>1, <3>1 DEF ClearError, ParseError, InHand
  <2>2. CASE Take
    <3>1. v \in Seq(Message) /\ v # <<>> /\ v' = Tail(v)
      BY <1>a, <2>2 DEF TypeOK, Take
    <3>2. D = Dn + (IF Head(v).kind = "Data" THEN 1 ELSE 0) /\ Wn = W
      BY <2>2, <3>1, <1>w, DataTail DEF Take, D, Dn
    <3>3. Dn \in Int
      <4>1. v' \in Seq(Message)
        BY <3>1
      <4>2. Cardinality(DataIn(v')) \in Nat
        BY <4>1, DataFinite, Zenon
      <4> QED BY <4>2 DEF Dn
    <3> QED
      BY <1>b, <1>c, <1>d, <1>e, <2>2, <3>2, <3>3
      DEF Take, TakeData, TakeInfo, TakeScript, TakeClose, InHand
  <2>3. CASE StartDrain \/ Drained
    BY <1>d, <1>e, <1>v, <1>w, <2>3 DEF StartDrain, Drained, InHand
  <2>4. CASE Drop \/ Swap
    <3>1. Dn = D /\ Wn = W
      BY <2>4, <1>v, <1>w DEF Drop, Swap
    <3> QED BY <1>b, <1>c, <1>d, <1>e, <2>4, <3>1 DEF Drop, Swap, InHand, Base, Held
  <2>5. CASE Show
    <3>1. Dn = D /\ Wn = W
      BY <2>5, <1>v, <1>w DEF Show
    <3> QED BY <1>b, <1>c, <1>d, <1>e, <2>5, <3>1 DEF Show, InHand, Base, Held
  <2> QED BY <1>4, <2>1, <2>2, <2>3, <2>4, <2>5 DEF Main
<1>5. CASE UNCHANGED vars
  BY <1>5, <1>d, <1>e, <1>v, <1>w DEF vars
<1> QED BY <1>1, <1>2, <1>3, <1>4, <1>5 DEF Next

\* The frames never take more buffers than the channel, the connections and
\* the main thread can own, whatever the capacity.
THEOREM MemoryBounded == Spec => []BuffersBounded
<1>1. Init => BuffersBounded
  <2> SUFFICES ASSUME Init PROVE BuffersBounded
    OBVIOUS
  <2>1. DataIn(v) = {} /\ Working = {}
    BY DEF Init, DataIn, Working, Filled
  <2>2. Cardinality(DataIn(v)) = 0 /\ Cardinality(Working) = 0
    BY <2>1, FS_EmptySet
  <2> QED
    BY <2>2, WorkingFinite, CapacityAssumption
    DEF Init, BuffersBounded, Buffers, BufferBound, InMain, InHand
<1> QED
  BY <1>1, BaseHolds, BuffersStep, PTL DEF Spec

\* When the recycle channel has room for all of them, as main.rs sizes it for
\* up to five connections, giving a buffer back never blocks.
THEOREM RecyclingNeverBlocks ==
  ASSUME RCap >= BufferBound
  PROVE  Spec => []RecycleNeverBlocks
<1>1. ASSUME Base, BuffersBounded PROVE RecycleNeverBlocks
  <2>1. /\ Cardinality(DataIn(v)) \in Nat /\ recycle \in Nat
        /\ last \in 0..1 /\ image \in 0..1 /\ InMain \in 0..1
    BY <1>1, CountTypes
  <2>2. Cardinality(Working) \in Nat /\ Cardinality(Streams) \in Nat /\ VCap \in Nat /\ RCap \in Nat
    BY WorkingFinite, CapacityAssumption
  <2>3. CASE bevy \in InHand
    BY <1>1, <2>1, <2>2, <2>3
    DEF BuffersBounded, Buffers, BufferBound, InMain, RecycleNeverBlocks
  <2>4. ASSUME NEW s \in Streams, task[s] = "bounce" PROVE recycle < RCap
    <3>1. Working # {}
      BY <2>4 DEF Working, Filled
    <3>2. Cardinality(Working) # 0
      BY <3>1, WorkingFinite, FS_EmptySet
    <3> QED
      BY <1>1, <2>1, <2>2, <3>2 DEF BuffersBounded, Buffers, BufferBound
  <2> QED
    BY <2>3, <2>4 DEF RecycleNeverBlocks
<1> QED
  BY <1>1, BaseHolds, MemoryBounded, PTL

-----------------------------------------------------------------------------
(* The diagnostics of a stream that has ended.                              *)

\* The connection is not between its StreamInfo and its Close.
Unannounced == {"ended", "name", "meta", "info"}

\* A Close of s is queued behind position n.
ClosesAfter(s, n) == \E j \in DOMAIN v : j > n /\ v[j] = Msg("Close", s)

\* HudEndsWithStream looks at the diagnostics only; it is inductive together
\* with what is queued: a StreamInfo of an earlier use of the connection has
\* its Close behind it.
Announced ==
  \A s \in Streams : task[s] \in Unannounced =>
    /\ hud = s => ClosesAfter(s, 0)
    /\ \A i \in DOMAIN v : v[i] = Msg("StreamInfo", s) => ClosesAfter(s, i)

\* A step that sends nothing new about a stream, and announces none.
LEMMA AnnouncedFrame ==
  ASSUME Announced, v' = v, hud' \in {hud, None},
         \A s \in Streams : task'[s] \in Unannounced => task[s] \in Unannounced
  PROVE  Announced'
  BY CapacityAssumption DEF Announced, ClosesAfter

\* A message behind the others closes what they had left open, unless it is
\* the StreamInfo of a connection that has become announced with it.
LEMMA AnnouncedSend ==
  ASSUME TypeOK, Announced, NEW m \in Message, Send(m), hud' = hud,
         \A s \in Streams : task'[s] \in Unannounced =>
           /\ m # Msg("StreamInfo", s)
           /\ task[s] \in Unannounced \/ m = Msg("Close", s)
  PROVE  Announced'
<1> SUFFICES ASSUME NEW s \in Streams, task'[s] \in Unannounced
             PROVE  /\ hud' = s => ClosesAfter(s, 0)'
                    /\ \A i \in DOMAIN v' : v'[i] = Msg("StreamInfo", s) => ClosesAfter(s, i)'
  BY DEF Announced
<1>1. /\ Len(v) \in Nat /\ DOMAIN v = 1..Len(v) /\ DOMAIN v' = 1..(Len(v) + 1)
      /\ \A i \in 1..Len(v) : v'[i] = v[i]
      /\ v'[Len(v) + 1] = m
  BY DEF TypeOK, Send
<1>2. \A i \in DOMAIN v' : v'[i] = Msg("StreamInfo", s) => i \in DOMAIN v /\ v[i] = v'[i]
  BY <1>1
<1>3. CASE m = Msg("Close", s)
  <2>1. \A n \in 0..Len(v) : ClosesAfter(s, n)'
    BY <1>1, <1>3 DEF ClosesAfter
  <2> QED
    BY <1>1, <1>2, <2>1
<1>4. CASE task[s] \in Unannounced
  <2>1. \A n : ClosesAfter(s, n) => ClosesAfter(s, n)'
    BY <1>1 DEF ClosesAfter
  <2> QED
    BY <1>2, <1>4, <2>1 DEF Announced
<1> QED
  BY <1>3, <1>4

LEMMA AnnouncedTake == ASSUME TypeOK, Announced, Take PROVE Announced'
<1> SUFFICES ASSUME NEW s \in Streams, task'[s] \in Unannounced
             PROVE  /\ hud' = s => ClosesAfter(s, 0)'
                    /\ \A i \in DOMAIN v' : v'[i] = Msg("StreamInfo", s) => ClosesAfter(s, i)'
  BY DEF Announced
<1>1. /\ v \in Seq(Message) /\ v # <<>> /\ v' = Tail(v) /\ task[s] \in Unannounced
  BY DEF TypeOK, Take
<1>2. /\ Len(v) \in Nat /\ DOMAIN v = 1..Len(v) /\ DOMAIN v' = 1..(Len(v) - 1) /\ 1 \in DOMAIN v
      /\ \A i \in DOMAIN v' : i + 1 \in DOMAIN v /\ v'[i] = v[i + 1]
      /\ Head(v) = v[1] /\ Head(v) \in Message
  BY <1>1
<1>3. ASSUME NEW n \in Nat, ClosesAfter(s, n + 1) PROVE ClosesAfter(s, n)'
  <2>1. PICK j \in DOMAIN v : j > n + 1 /\ v[j] = Msg("Close", s)
    BY <1>3 DEF ClosesAfter
  <2>2. j - 1 \in DOMAIN v' /\ j - 1 > n /\ v'[j - 1] = v[j]
    BY <1>2, <2>1
  <2> QED
    BY <2>1, <2>2 DEF ClosesAfter
<1>4. ASSUME NEW i \in DOMAIN v', v'[i] = Msg("StreamInfo", s) PROVE ClosesAfter(s, i)'
  <2>1. i \in Nat /\ i + 1 \in DOMAIN v /\ v[i + 1] = Msg("StreamInfo", s)
    BY <1>2, <1>4
  <2> QED
    BY <1>1, <1>3, <2>1 DEF Announced
<1>5. ASSUME hud' = s PROVE ClosesAfter(s, 0)'
  <2>1. CASE Head(v).kind = "StreamInfo"
    <3>1. Head(v).from = s
      BY <1>5, <2>1 DEF Take, TakeData, TakeInfo, TakeScript, TakeClose
    <3>2. v[1] = Msg("StreamInfo", s)
      BY <1>2, <2>1, <3>1 DEF Message, Msg
    <3> QED
      BY <1>1, <1>2, <1>3, <3>2 DEF Announced
  <2>2. CASE Head(v).kind # "StreamInfo"
    <3>1. hud = s /\ Head(v).kind # "Close"
      BY <1>5, <2>2, CapacityAssumption DEF Take, TakeData, TakeInfo, TakeScript, TakeClose
    <3>2. PICK j \in DOMAIN v : j > 0 /\ v[j] = Msg("Close", s)
      BY <1>1, <3>1 DEF Announced, ClosesAfter
    <3>3. j # 1
      BY <1>2, <3>1, <3>2 DEF Msg
    <3> QED
      BY <1>2, <1>3, <3>2, <3>3 DEF ClosesAfter
  <2> QED
    BY <2>1, <2>2
<1> QED
  BY <1>4, <1>5

LEMMA AnnouncedStep == Base /\ Announced /\ [Next]_vars => Announced'
<1> SUFFICES ASSUME Base, Announced, [Next]_vars PROVE Announced'
  OBVIOUS
<1>a. TypeOK
  BY DEF Base
<1>b. \A s \in Streams, t \in Streams : Msg("Close", s) # Msg("StreamInfo", t)
        /\ Msg("Data", s) # Msg("StreamInfo", t) /\ Msg("Script", None) # Msg("StreamInfo", t)
        /\ (s # t => Msg("StreamInfo", s) # Msg("StreamInfo", t))
  BY DEF Msg
<1>c. \A s \in Streams : /\ Msg("Close", s) \in Message /\ Msg("Data", s) \in Message
                         /\ Msg("StreamInfo", s) \in Message
  BY MsgType
<1>d. Msg("Script", None) \in Message
  BY MsgType
<1> USE DEF pipeVars, bevyVars, Unannounced
<1>1. ASSUME NEW s \in Streams, Worker(s) PROVE Announced'
  <2>0. ASSUME NEW phase, Step(s, phase)
        PROVE  task'[s] = phase /\ \A t \in Streams \ {s} : task'[t] = task[t]
    BY <1>a, <2>0 DEF TypeOK, Step
  <2>1. CASE SendInfo(s)
    BY <1>a, <1>b, <1>c, <2>0, <2>1, AnnouncedSend DEF SendInfo
  <2>2. CASE TrySendFrame(s)
    <3>1. CASE Send(Msg("Data", s)) /\ Step(s, "read")
      BY <1>a, <1>b, <1>c, <2>0, <2>2, <3>1, AnnouncedSend DEF TrySendFrame
    <3>2. CASE UNCHANGED v /\ Step(s, "bounce")
      BY <2>0, <2>2, <3>2, AnnouncedFrame DEF TrySendFrame
    <3> QED BY <2>2, <3>1, <3>2 DEF TrySendFrame
  <2>3. CASE RecycleFrame(s)
    BY <2>0, <2>3, AnnouncedFrame DEF RecycleFrame
  <2>4. CASE SendClose(s)
    BY <1>a, <1>b, <1>c, <2>0, <2>4, AnnouncedSend DEF SendClose, CloseSent
  <2> QED BY <1>1, <2>1, <2>2, <2>3, <2>4 DEF Worker
<1>2. ASSUME NEW s \in Streams, Device(s) PROVE Announced'
  <2>1. \A t \in Streams : task'[t] \in Unannounced => task[t] \in Unannounced
    BY <1>a, <1>2 DEF Device, Accepted, ReadName, ReadMeta, Stopped, Decode, Step, TypeOK
  <2> QED
    BY <1>2, <2>1, AnnouncedFrame DEF Device, Accepted, ReadName, ReadMeta, Stopped, Decode
<1>3. CASE Script
  BY <1>a, <1>b, <1>d, <1>3, AnnouncedFrame, AnnouncedSend DEF Script, StartScript, ScriptEnds
<1>4. CASE Main
  <2>1. CASE ClearError \/ ParseError
    BY <1>a, <1>b, <1>d, <2>1, AnnouncedSend DEF ClearError, ParseError
  <2>2. CASE Take
    BY <1>a, <2>2, AnnouncedTake
  <2>3. CASE StartDrain \/ Drop \/ Drained \/ Show \/ Swap
    BY <2>3, AnnouncedFrame DEF StartDrain, Drop, Drained, Show, Swap
  <2> QED BY <1>4, <2>1, <2>2, <2>3 DEF Main
<1>5. CASE UNCHANGED vars
  BY <1>5, AnnouncedFrame DEF vars
<1> QED BY <1>1, <1>2, <1>3, <1>4, <1>5 DEF Next

\* The diagnostics never describe a stream that has ended without its Close
\* being queued.
THEOREM HudCleared == Spec => []HudEndsWithStream
<1>1. Init => Announced
  BY CapacityAssumption DEF Init, Announced
<1>2. Base /\ Announced => HudEndsWithStream
  BY DEF Announced, HudEndsWithStream, ClosesAfter, Unannounced
<1> QED
  BY <1>1, <1>2, BaseHolds, AnnouncedStep, PTL DEF Spec
=============================================================================
