-------------------------- MODULE ControlStreamProofs --------------------------
(***************************************************************************)
(* The properties of ControlStream, proved for any connections, pointers,  *)
(* sizes, widths and capacity of the channel.                              *)
(***************************************************************************)
EXTENDS ControlStream, SequenceTheorems, TLAPS

-----------------------------------------------------------------------------
(* Arithmetic of control_writer.                                            *)

LEMMA DivBounds ==
  ASSUME NEW a \in Nat, NEW b \in Nat \ {0}
  PROVE  /\ a \div b \in Nat
         /\ b * (a \div b) <= a
         /\ a < b * (a \div b) + b
  BY Z3

LEMMA FactorLess ==
  ASSUME NEW a \in Nat, NEW b \in Nat \ {0}
  PROVE  a <= b * a
  BY Z3

LEMMA DivBelow ==
  ASSUME NEW a \in Nat, NEW b \in Nat \ {0}, NEW s \in Nat, a <= b * s
  PROVE  a \div b <= s
<1> DEFINE q == a \div b
<1>1. q \in Nat /\ b * q <= a BY DivBounds
<1> HIDE DEF q
<1>2. SUFFICES ASSUME q >= s + 1 PROVE FALSE BY <1>1 DEF q
<1>3. b * q >= b * (s + 1) BY <1>1, <1>2, Z3
<1>4. b * (s + 1) = b * s + b BY Z3
<1> QED BY <1>1, <1>3, <1>4

\* Wrapping keeps to an i32, and what fits one.
LEMMA WrapRange == ASSUME NEW n \in Int PROVE Wrap(n) \in (-Word)..(Word - 1)
  BY WidthAssumption, Z3 DEF Wrap

LEMMA WrapSmall == ASSUME NEW n \in 0..(Word - 1) PROVE Wrap(n) = n
  BY WidthAssumption, Z3 DEF Wrap

LEMMA NarrowRange == ASSUME NEW n \in Int PROVE Narrow(n) \in 0..(Half - 1)
  BY WidthAssumption, Z3 DEF Narrow

LEMMA NarrowSmall == ASSUME NEW n \in 0..(Half - 1) PROVE Narrow(n) = n
  BY WidthAssumption, Z3 DEF Narrow

LEMMA QuotientRange ==
  ASSUME NEW a \in (-Word)..(Word - 1), NEW b \in Nat \ {0}
  PROVE  Quotient(a, b) \in (-Word)..(Word - 1)
<1>1. CASE a >= 0
  <2>1. a \in Nat BY <1>1
  <2>2. a \div b \in Nat /\ a \div b <= a BY <2>1, DivBounds, DivBelow, FactorLess
  <2> QED BY <1>1, <2>2, WidthAssumption DEF Quotient
<1>2. CASE a < 0
  <2>1. -a \in Nat BY <1>2, WidthAssumption
  <2>2. (-a) \div b \in Nat /\ (-a) \div b <= -a BY <2>1, DivBounds, DivBelow, FactorLess
  <2> QED BY <1>2, <2>2, WidthAssumption DEF Quotient
<1> QED BY <1>1, <1>2, WidthAssumption

-----------------------------------------------------------------------------
(* The queue of a connection.                                               *)

LEMMA SentType ==
  ASSUME NEW q \in Seq(Message), Len(q) <= Cap, NEW m \in Message
  PROVE  Queued(q, m) \in Seq(Message) /\ Len(Queued(q, m)) <= Cap
<1>1. CASE Len(q) = Cap
  <2>1. q # <<>> BY <1>1, CapAssumption
  <2>2. Tail(q) \in Seq(Message) /\ Len(Tail(q)) = Len(q) - 1 BY <2>1, HeadTailProperties
  <2> QED BY <1>1, <2>2, AppendProperties, CapAssumption DEF Queued
<1>2. CASE Len(q) # Cap
  BY <1>2, AppendProperties, LenProperties, CapAssumption DEF Queued
<1> QED BY <1>1, <1>2

\* A touch sent decides what its pointer will be, and no other pointer's,
\* unless it overwrites the last touch of that one.
LEMMA WillBeSent ==
  ASSUME NEW q \in Seq(Message), Len(q) <= Cap, NEW m \in Message, NEW p \in Pointers,
         NEW h, NEW d, NEW old \in BOOLEAN, NEW new \in BOOLEAN,
         IF About(m, p) THEN m.what = "down" <=> new
         ELSE p \notin Overwritten(q) /\ (old <=> new) /\ WillBe(q, h, d, p, old)
  PROVE  WillBe(Queued(q, m), h, d, p, new)
<1> DEFINE r == Queued(q, m)
           n == Len(r)
           k == IF Len(q) = Cap THEN 1 ELSE 0
<1>1. /\ n = Len(q) + 1 - k /\ DOMAIN r = 1..n /\ DOMAIN q = 1..Len(q) /\ Len(q) \in Nat
      /\ r[n] = m /\ \A i \in 1..(n - 1) : r[i] = q[i + k]
  <2>1. CASE Len(q) = Cap
    <3>1. q # <<>> BY <2>1, CapAssumption
    <3>2. /\ Tail(q) \in Seq(Message) /\ Len(Tail(q)) = Len(q) - 1
          /\ \A i \in 1..Len(Tail(q)) : Tail(q)[i] = q[i + 1]
      BY <3>1, HeadTailProperties
    <3> QED BY <2>1, <3>2, AppendProperties, LenProperties DEF Queued
  <2>2. CASE Len(q) # Cap
    BY <2>2, AppendProperties, LenProperties DEF Queued
  <2> QED BY <2>1, <2>2
<1>2. n \in Nat \ {0} /\ k \in {0, 1}
  <2>1. CASE Len(q) = Cap BY <1>1, <2>1, CapAssumption
  <2>2. CASE Len(q) # Cap
    <3>1. k = 0 /\ n = Len(q) + 1 - k /\ Len(q) \in Nat BY <1>1, <2>2
    <3> HIDE DEF n, k
    <3> QED BY <3>1
  <2> QED BY <2>1, <2>2
<1>3. CASE About(m, p)
  <2>1. n \in Waiting(r, p) BY <1>1, <1>2, <1>3 DEF Waiting
  <2>2. \A i \in Waiting(r, p) : (\A j \in Waiting(r, p) : j <= i) => i = n
    BY <1>1, <1>2, <2>1 DEF Waiting
  <2> QED BY <1>1, <1>3, <2>1, <2>2 DEF WillBe
<1>4. CASE ~About(m, p)
  <2> HIDE DEF r, n, k
  <2>1. \A i : i \in Waiting(r, p) <=> i \in 1..(n - 1) /\ About(q[i + k], p)
    BY <1>1, <1>2, <1>4 DEF Waiting
  <2>2. \A i \in Waiting(r, p) : i + k \in Waiting(q, p) /\ r[i] = q[i + k]
    BY <1>1, <1>2, <2>1 DEF Waiting
  <2>3. \A j \in Waiting(q, p) : j \in Nat /\ j >= 1 /\ (j - k \in Waiting(r, p) \/ (j = 1 /\ k = 1))
    BY <1>1, <1>2, <2>1 DEF Waiting
  <2>4. CASE Waiting(r, p) # {}
    <3>1. SUFFICES ASSUME NEW i \in Waiting(r, p), \A j \in Waiting(r, p) : j <= i
                   PROVE  r[i].what = "down" <=> new
      BY <2>4 DEF WillBe, r
    <3>2. i + k \in Waiting(q, p) /\ \A j \in Waiting(q, p) : j <= i + k
      BY <1>2, <2>1, <2>2, <2>3, <3>1
    <3>3. q[i + k].what = "down" <=> old BY <1>4, <3>2 DEF WillBe
    <3> QED BY <1>4, <2>2, <3>3
  <2>5. CASE Waiting(r, p) = {}
    <3>1. Waiting(q, p) = {}
      <4>1. SUFFICES ASSUME NEW j \in Waiting(q, p) PROVE FALSE OBVIOUS
      <4>2. 1 \in Waiting(q, p) /\ k = 1 /\ \A i \in 2..Len(q) : ~About(q[i], p)
        BY <1>1, <1>2, <2>3, <2>5, <4>1 DEF Waiting
      <4>3. p \in Overwritten(q) BY <4>2 DEF Overwritten, Waiting, k
      <4> QED BY <1>4, <4>3
    <3> QED BY <1>4, <2>5, <3>1 DEF WillBe, r
  <2> QED BY <2>4, <2>5
<1> QED BY <1>3, <1>4

\* What waits is the same after the head has been taken.
LEMMA WillBeTaken ==
  ASSUME NEW q \in Seq(Message), q # <<>>, NEW stage, NEW p \in Pointers, NEW d,
         NEW isDown \in BOOLEAN, WillBe(q, None, d, p, isDown),
         [msg |-> Head(q), stage |-> stage] # None
  PROVE  WillBe(Tail(q), [msg |-> Head(q), stage |-> stage], d, p, isDown)
<1> DEFINE r == Tail(q)
           h == [msg |-> Head(q), stage |-> stage]
<1>1. /\ Len(q) \in Nat \ {0} /\ DOMAIN q = 1..Len(q) /\ DOMAIN r = 1..(Len(q) - 1)
      /\ Head(q) = q[1] /\ \A i \in 1..(Len(q) - 1) : r[i] = q[i + 1]
  BY HeadTailProperties, LenProperties, EmptySeq
<1>2. h # None /\ h.msg = q[1] BY <1>1
<1> HIDE DEF r, h
<1>3. \A i : i \in Waiting(r, p) <=> i \in 1..(Len(q) - 1) /\ About(q[i + 1], p)
  BY <1>1 DEF Waiting
<1>4. \A j \in Waiting(q, p) : j \in Nat /\ j >= 1 /\ (j - 1 \in Waiting(r, p) \/ j = 1)
  BY <1>1, <1>3 DEF Waiting
<1>5. CASE Waiting(r, p) # {}
  <2>1. SUFFICES ASSUME NEW i \in Waiting(r, p), \A j \in Waiting(r, p) : j <= i
                 PROVE  r[i].what = "down" <=> isDown
    BY <1>5 DEF WillBe, r, h
  <2>2. i + 1 \in Waiting(q, p) /\ r[i] = q[i + 1] BY <1>1, <1>3 DEF Waiting
  <2>3. \A j \in Waiting(q, p) : j <= i + 1 BY <1>3, <1>4, <2>1
  <2> QED BY <2>2, <2>3 DEF WillBe
<1>6. CASE Waiting(r, p) = {}
  <2>1. CASE About(q[1], p)
    <3>1. 1 \in Waiting(q, p) /\ \A j \in Waiting(q, p) : j = 1
      BY <1>1, <1>4, <1>6, <2>1 DEF Waiting
    <3> QED BY <1>2, <1>6, <2>1, <3>1 DEF WillBe, r, h
  <2>2. CASE ~About(q[1], p)
    <3>1. Waiting(q, p) = {} BY <1>1, <1>4, <1>6, <2>2 DEF Waiting
    <3> QED BY <1>2, <1>6, <2>2, <3>1 DEF WillBe, r, h
  <2> QED BY <2>1, <2>2
<1> QED BY <1>5, <1>6

\* Scaling changes neither what a touch does nor whose it is.
LEMMA WillBeScaled ==
  ASSUME NEW q, NEW m, m.what # "other", NEW stage, NEW size, NEW p, NEW d, NEW isDown \in BOOLEAN,
         NEW h, h # None, h.msg = m, WillBe(q, h, d, p, isDown),
         NEW g, g # None, g.msg = Scaled(m, size)
  PROVE  WillBe(q, g, d, p, isDown)
<1>1. /\ About(Scaled(m, size), p) <=> About(m, p)
      /\ Scaled(m, size).what = m.what
  BY DEF Scaled, About
<1> QED BY <1>1 DEF WillBe

\* Writing the message in hand does what was expected of it.
LEMMA WillBeWritten ==
  ASSUME NEW q, NEW h, h # None, h.msg \in Message, NEW d, NEW p \in Pointers, NEW isDown \in BOOLEAN,
         WillBe(q, h, d, p, isDown)
  PROVE  WillBe(q, None, Applied(d, h.msg), p, isDown)
<1>1. h.msg.what = "other" \/ (h.msg.what \in {"down", "up"} /\ h.msg.what # "other")
  BY DEF Message, Touch, Other
<1>2. About(h.msg, p) => (p \in Applied(d, h.msg) <=> h.msg.what = "down")
  BY <1>1 DEF About, Applied
<1>3. ~About(h.msg, p) => (p \in Applied(d, h.msg) <=> p \in d)
  BY <1>1 DEF About, Applied
<1> QED BY <1>2, <1>3 DEF WillBe

-----------------------------------------------------------------------------
(* Types.                                                                   *)

LEMMA TouchType ==
  ASSUME NEW what \in {"down", "up"}, NEW p \in Pointers, NEW at \in Points
  PROVE  [what |-> what, pointer |-> p, x |-> at.x, w |-> at.w] \in Touch
  BY PointAssumption DEF Point, Touch

LEMMA SizeRange == \A size \in DeviceSizes : size \in 0..(Word - 1) /\ size # 0
  BY SizeAssumption, WidthAssumption

LEMMA ScaledType ==
  ASSUME NEW m \in Touch, NEW size \in 0..(Word - 1)
  PROVE  Scaled(m, size) \in Touch
<1>1. m.x \in (-Word)..(Word - 1) /\ m.w \in Nat /\ m.what \in {"down", "up"} /\ m.pointer \in Pointers
  BY WidthAssumption DEF Touch
<1>2. m.x * size \in Int BY <1>1, WidthAssumption
<1>3. ScaledX(m, size) \in (-Word)..(Word - 1)
  BY <1>1, <1>2, WrapRange, QuotientRange DEF ScaledX
<1> QED BY <1>1, <1>3, NarrowRange, WidthAssumption DEF Scaled, Touch

\* A touch has been scaled before it is written; nothing is in hand, and
\* nothing has been received, without a connection.
Handed ==
  \A c \in Conns :
    /\ hand[c] # None /\ hand[c].stage # "write" => hand[c].msg \in Touch
    /\ hand[c] # None => phase[c] \in {"open", "broken"}
    /\ phase[c] = "none" => queue[c] = <<>> /\ device[c] = {}

Base == TypeOK /\ Handed

THEOREM InitBase == Init => Base
  BY CapAssumption, EmptySeq, NoneAssumption DEF Init, Base, TypeOK, Handed

LEMMA SendBase == ASSUME Base, NEW m \in Message, Send(m) PROVE Base'
<1> USE DEF Base, TypeOK, Handed
<1>1. held' \subseteq Pointers
  BY DEF Send, Applied, Message, Touch, Other
<1>2. /\ queue' \in [Conns -> Seq(Message)] /\ \A c \in Conns : Len(queue'[c]) <= Cap
      /\ lagged' \in [Conns -> BOOLEAN]
  BY SentType DEF Send
<1>3. lost' \in [Conns -> SUBSET Pointers]
  BY DEF Send, Overwritten
<1>4. \A c \in Conns : phase[c] = "none" => queue'[c] = <<>>
  BY DEF Send, Listening
<1> QED BY <1>1, <1>2, <1>3, <1>4 DEF Send, sizeVars

\* Reading a size leaves a message to be written.
LEMMA ReadBase ==
  ASSUME Base, NEW c \in Conns, hand[c] # None, hand[c].stage # "write", NEW size \in 0..(Word - 1)
  PROVE  LET w == [msg |-> Scaled(hand[c].msg, size), stage |-> "write"] IN w \in Work /\ w # None
<1>1. hand[c].msg \in Touch BY DEF Base, Handed
<1>2. Scaled(hand[c].msg, size) \in Message BY <1>1, ScaledType DEF Message
<1> QED BY <1>2, NoneAssumption DEF Work

\* What a report changes besides the size itself.
LEMMA ReportBase ==
  ASSUME Base, NEW c \in Conns, NEW size \in DeviceSizes, Report(c, size)
  PROVE  /\ reports' \in [Conns -> 0..MaxReports]
         /\ told' \in [Conns -> DeviceSizes \cup {0}]
         /\ raced' \in [Conns -> BOOLEAN]
         /\ UNCHANGED <<held, writerVars, known, watch>>
<1> DEFINE o == Outstanding(c)
<1>1. o \in BOOLEAN BY DEF Outstanding
<1>2. raced' = [raced EXCEPT ![c] = o] BY DEF Report
<1> HIDE DEF o
<1>3. raced' \in [Conns -> BOOLEAN] BY <1>1, <1>2 DEF Base, TypeOK
<1>4. reports[c] + 1 \in 0..MaxReports BY CapAssumption DEF Report, Base, TypeOK
<1> QED BY <1>3, <1>4 DEF Report, Base, TypeOK

LEMMA BaseStep == Base /\ [Next]_vars => Base'
<1> SUFFICES ASSUME Base, [Next]_vars PROVE Base'
  OBVIOUS
<1> USE DEF Base, TypeOK, Handed, sizeVars, writerVars, Listening
<1>1. CASE Sent
  <2>1. \A what \in {"down", "up"}, p \in Pointers, at \in Points :
          [what |-> what, pointer |-> p, x |-> at.x, w |-> at.w] \in Message
    BY TouchType DEF Message
  <2>2. [what |-> "other"] \in Message BY DEF Message, Other
  <2> QED BY <1>1, <2>1, <2>2, SendBase DEF Sent
<1>2. ASSUME NEW c \in Conns, Step(c) PROVE Base'
  <2>1. CASE Subscribe(c) BY <2>1 DEF Subscribe
  <2>2. CASE Open(c) BY <2>2 DEF Open
  <2>3. CASE Breaks(c) BY <2>3 DEF Breaks
  <2>4. CASE Ends(c) BY <2>4, EmptySeq, CapAssumption DEF Ends
  <2>5. CASE LagSeen(c) BY <2>5 DEF LagSeen
  <2>6. CASE Receive(c)
    <3> DEFINE m == Head(queue[c])
               w == [msg |-> m, stage |-> IF m.what = "other" THEN "write" ELSE "registry"]
    <3>1. m \in Message /\ Tail(queue[c]) \in Seq(Message) /\ Len(Tail(queue[c])) <= Cap
      BY <2>6, HeadTailProperties, LenProperties, CapAssumption DEF Receive
    <3>2. w \in Work /\ w # None /\ (w.stage # "write" => w.msg \in Touch)
      BY <3>1, NoneAssumption DEF Work, Message, Other
    <3>3. hand' = [hand EXCEPT ![c] = w] BY <2>6 DEF Receive
    <3> HIDE DEF w
    <3> QED BY <2>6, <3>1, <3>2, <3>3 DEF Receive
  <2>7. CASE ReadRegistry(c)
    <3>1. CASE known[c] \in {0, None}
      <4>1. /\ [msg |-> hand[c].msg, stage |-> "watch"] \in Work
            /\ hand[c].msg \in Touch
        BY <2>7 DEF ReadRegistry, Work
      <4> QED BY <2>7, <3>1, <4>1 DEF ReadRegistry
    <3>2. CASE known[c] \notin {0, None}
      <4> DEFINE w == [msg |-> Scaled(hand[c].msg, known[c]), stage |-> "write"]
      <4>1. known[c] \in 0..(Word - 1)
        <5>1. known[c] \in DeviceSizes BY <3>2
        <5> QED BY ONLY <5>1, SizeRange
      <4>2. w \in Work /\ w # None /\ w.stage = "write" BY <2>7, <4>1, ReadBase DEF ReadRegistry
      <4>3. hand' = [hand EXCEPT ![c] = w] BY <2>7, <3>2 DEF ReadRegistry
      <4> HIDE DEF w
      <4> QED BY <2>7, <4>2, <4>3 DEF ReadRegistry
    <3> QED BY <3>1, <3>2
  <2>8. CASE ReadWatch(c)
    <3> DEFINE w == [msg |-> Scaled(hand[c].msg, watch[c]), stage |-> "write"]
    <3>1. watch[c] \in 0..(Word - 1)
      <4>1. watch[c] \in DeviceSizes \cup {0} OBVIOUS
      <4> QED BY ONLY <4>1, SizeRange, WidthAssumption
    <3>2. w \in Work /\ w # None /\ w.stage = "write" BY <2>8, <3>1, ReadBase DEF ReadWatch
    <3>3. hand' = [hand EXCEPT ![c] = w] BY <2>8 DEF ReadWatch
    <3> HIDE DEF w
    <3> QED BY <2>8, <3>2, <3>3 DEF ReadWatch
  <2>9. CASE Write(c)
    <3>1. Applied(device[c], hand[c].msg) \subseteq Pointers
      BY <2>9 DEF Write, Applied, Work, Message, Touch, Other
    <3> QED BY <2>9, <3>1 DEF Write
  <2>10. CASE ReaderStores(c)
    BY <2>10, NoneAssumption DEF ReaderStores, Rotated, Updated
  <2>11. CASE ReaderShares(c) BY <2>11 DEF ReaderShares, Rotated
  <2>12. CASE Remove(c) BY <2>12 DEF Remove
  <2>13. ASSUME NEW size \in DeviceSizes, Rotation(c, size) PROVE Base'
    BY <2>13, ReportBase DEF Rotation, Rotated
  <2>14. ASSUME NEW size \in DeviceSizes, VideoSized(c, size) PROVE Base'
    <3>1. [size |-> size, nth |-> reports[c]] \in Task BY DEF Task
    <3> QED BY <2>14, <3>1, ReportBase DEF VideoSized
  <2>15. ASSUME NEW task \in late[c], VideoTask(c, task) PROVE Base'
    BY <2>15 DEF VideoTask, Updated, Task
  <2> QED BY <1>2, <2>1, <2>2, <2>3, <2>4, <2>5, <2>6, <2>7, <2>8, <2>9, <2>10, <2>11,
             <2>12, <2>13, <2>14, <2>15 DEF Step
<1>3. CASE UNCHANGED vars BY <1>3 DEF vars
<1> QED BY <1>1, <1>2, <1>3 DEF Next

\* Type correctness.
THEOREM TypeCorrect == Spec => []TypeOK
<1>1. Base => TypeOK BY DEF Base
<1> QED BY <1>1, InitBase, BaseStep, PTL DEF Spec

-----------------------------------------------------------------------------
(* What waits, is in hand and is on the device.                             *)

LEMMA InitFollows == Init => DeviceFollows
  BY DEF Init, DeviceFollows

\* One step per action: what it adds to or takes from what waits.
LEMMA FollowsStep == Base /\ DeviceFollows /\ [Next]_vars => DeviceFollows'
<1> SUFFICES ASSUME Base, DeviceFollows, [Next]_vars,
                    NEW c \in Conns, phase'[c] \in {"subscribed", "open"},
                    NEW p \in Pointers, p \notin lost'[c]
             PROVE  WillBe(queue'[c], hand'[c], device'[c], p, p \in held')
  BY DEF DeviceFollows
<1>0. /\ queue[c] \in Seq(Message) /\ Len(queue[c]) <= Cap
      /\ (p \in held) \in BOOLEAN /\ (p \in held') \in BOOLEAN
  BY DEF Base, TypeOK
<1>1. ASSUME phase'[c] = phase[c], lost'[c] = lost[c]
      PROVE  WillBe(queue[c], hand[c], device[c], p, p \in held)
  BY <1>1 DEF DeviceFollows
<1>2. ASSUME UNCHANGED <<phase, queue, hand, device, lost, held>>
      PROVE  WillBe(queue'[c], hand'[c], device'[c], p, p \in held')
  BY <1>1, <1>2
<1>3. ASSUME NEW m \in Message, Send(m)
      PROVE  WillBe(queue'[c], hand'[c], device'[c], p, p \in held')
  <2>1. /\ phase' = phase /\ hand' = hand /\ device' = device
        /\ queue'[c] = Queued(queue[c], m)
    BY <1>3 DEF Send, Listening
  <2>2. m.what = "other" \/ (m.what \in {"down", "up"} /\ m.what # "other")
    BY DEF Message, Touch, Other
  <2>3. CASE About(m, p)
    <3>1. m.what = "down" <=> p \in held'
      BY <1>3, <2>2, <2>3 DEF Send, Applied, About
    <3> DEFINE was == p \in held  is == p \in held'
    <3>2. was \in BOOLEAN /\ is \in BOOLEAN BY <1>0
    <3>3. m.what = "down" <=> is BY <3>1
    <3> HIDE DEF was, is
    <3>4. WillBe(Queued(queue[c], m), hand[c], device[c], p, is)
      BY <1>0, <2>3, <3>2, <3>3, WillBeSent
    <3> QED BY <2>1, <3>4 DEF is
  <2>4. CASE ~About(m, p)
    <3>1. p \notin lost[c] /\ p \notin Overwritten(queue[c])
      BY <1>3, <2>1, <2>4 DEF Send, Listening, Base, TypeOK
    <3>2. p \in held <=> p \in held'
      BY <1>3, <2>2, <2>4 DEF Send, Applied, About
    <3>3. WillBe(queue[c], hand[c], device[c], p, p \in held)
      BY <2>1, <3>1 DEF DeviceFollows
    <3> DEFINE was == p \in held  is == p \in held'
    <3>4. was \in BOOLEAN /\ is \in BOOLEAN BY <1>0
    <3>5. (was <=> is) /\ WillBe(queue[c], hand[c], device[c], p, was) BY <3>2, <3>3
    <3> HIDE DEF was, is
    <3>6. WillBe(Queued(queue[c], m), hand[c], device[c], p, is)
      BY <1>0, <2>4, <3>1, <3>4, <3>5, WillBeSent
    <3> QED BY <2>1, <3>6 DEF is
  <2> QED BY <2>3, <2>4
<1>4. ASSUME NEW k \in Conns, Step(k)
      PROVE  WillBe(queue'[c], hand'[c], device'[c], p, p \in held')
  <2> USE DEF Base, TypeOK, Handed
  <2>1. CASE Subscribe(k)
    <3>1. CASE k = c
      <4>1. /\ queue'[c] = <<>> /\ hand'[c] = None /\ device'[c] = {} /\ p \notin held'
        BY <2>1, <3>1 DEF Subscribe
      <4>2. Waiting(queue'[c], p) = {} BY <4>1, EmptySeq DEF Waiting
      <4> QED BY <4>1, <4>2 DEF WillBe
    <3>2. CASE k # c BY <1>1, <2>1, <3>2 DEF Subscribe
    <3> QED BY <3>1, <3>2
  <2>2. CASE Open(k)
    BY <2>2 DEF Open, DeviceFollows
  <2>3. CASE Breaks(k)
    BY <1>1, <2>3 DEF Breaks
  <2>4. CASE Ends(k)
    BY <1>1, <2>4 DEF Ends
  <2>5. CASE LagSeen(k)
    BY <1>2, <2>5 DEF LagSeen
  <2>6. CASE Receive(k)
    <3>1. CASE k = c
      <4> DEFINE s == IF Head(queue[c]).what = "other" THEN "write" ELSE "registry"
      <4>1. /\ queue[c] # <<>> /\ hand[c] = None /\ queue'[c] = Tail(queue[c])
            /\ hand'[c] = [msg |-> Head(queue[c]), stage |-> s]
            /\ device' = device /\ held' = held /\ phase' = phase /\ lost' = lost
        BY <2>6, <3>1 DEF Receive
      <4>2. Head(queue[c]) \in Message BY <4>1, HeadTailProperties
      <4>3. [msg |-> Head(queue[c]), stage |-> s] # None
        BY <4>2, NoneAssumption DEF Work
      <4> HIDE DEF s
      <4> DEFINE was == p \in held
      <4>4. was \in BOOLEAN /\ WillBe(queue[c], None, device[c], p, was) BY <1>0, <1>1, <4>1
      <4> HIDE DEF was
      <4>5. WillBe(Tail(queue[c]), [msg |-> Head(queue[c]), stage |-> s], device[c], p, was)
        BY <1>0, <4>1, <4>3, <4>4, WillBeTaken
      <4> QED BY <4>1, <4>5 DEF was
    <3>2. CASE k # c BY <1>1, <2>6, <3>2 DEF Receive
    <3> QED BY <3>1, <3>2
  <2>7. ASSUME NEW size, hand[c] # None, hand[c].stage # "write", hand'[c] # None,
               hand'[c].msg = Scaled(hand[c].msg, size) \/ hand'[c].msg = hand[c].msg,
               UNCHANGED <<phase, queue, device, lost, held>>
        PROVE  WillBe(queue'[c], hand'[c], device'[c], p, p \in held')
    <3>1. WillBe(queue[c], hand[c], device[c], p, p \in held) BY <1>1, <2>7
    <3>2. hand[c].msg.what # "other" BY <2>7 DEF Touch
    <3>3. CASE hand'[c].msg = hand[c].msg BY <2>7, <3>1, <3>3 DEF WillBe
    <3>4. CASE hand'[c].msg = Scaled(hand[c].msg, size)
      <4> DEFINE was == p \in held
      <4>1. was \in BOOLEAN /\ WillBe(queue[c], hand[c], device[c], p, was) BY <1>0, <3>1
      <4> HIDE DEF was
      <4>2. WillBe(queue[c], hand'[c], device[c], p, was)
        BY <2>7, <3>2, <3>4, <4>1, WillBeScaled
      <4> QED BY <2>7, <4>2 DEF was
    <3> QED BY <2>7, <3>3, <3>4
  <2>8. hand' \in [Conns -> Work \cup {None}]
    BY BaseStep
  <2>9. CASE ReadRegistry(k)
    <3>1. CASE k = c
      <4>1. hand'[c] # None
        <5>1. CASE known[c] \in {0, None}
          BY <2>9, <3>1, <5>1, NoneAssumption DEF ReadRegistry, Work
        <5>2. CASE known[c] \notin {0, None}
          <6>1. known[c] \in 0..(Word - 1) BY <5>2, SizeRange
          <6> QED BY <2>9, <3>1, <5>2, <6>1, ReadBase DEF ReadRegistry
        <5> QED BY <5>1, <5>2
      <4> QED BY <2>7, <2>9, <3>1, <4>1 DEF ReadRegistry
    <3>2. CASE k # c BY <1>1, <2>9, <3>2 DEF ReadRegistry
    <3> QED BY <3>1, <3>2
  <2>10. CASE ReadWatch(k)
    <3>1. CASE k = c
      <4>1. watch[c] \in 0..(Word - 1)
        <5>1. watch[c] \in DeviceSizes \cup {0} OBVIOUS
        <5> QED BY ONLY <5>1, SizeRange, WidthAssumption
      <4>2. hand'[c] # None BY <2>10, <3>1, <4>1, ReadBase DEF ReadWatch
      <4> QED BY <2>7, <2>10, <3>1, <4>2 DEF ReadWatch
    <3>2. CASE k # c BY <1>1, <2>10, <3>2 DEF ReadWatch
    <3> QED BY <3>1, <3>2
  <2>11. CASE Write(k)
    <3>1. CASE k = c
      <4>1. hand[c] # None /\ hand[c].msg \in Message BY <2>11, <3>1 DEF Write, Work
      <4>2. /\ hand'[c] = None /\ device'[c] = Applied(device[c], hand[c].msg)
            /\ queue' = queue /\ held' = held /\ phase' = phase /\ lost' = lost
        <5>1. phase[c] = "open" BY <2>11, <3>1, <4>1 DEF Write
        <5> QED BY <2>11, <3>1, <5>1 DEF Write
      <4> DEFINE was == p \in held
      <4>3. was \in BOOLEAN /\ WillBe(queue[c], hand[c], device[c], p, was) BY <1>0, <1>1, <4>2
      <4> HIDE DEF was
      <4>4. WillBe(queue[c], None, Applied(device[c], hand[c].msg), p, was)
        BY <4>1, <4>3, WillBeWritten
      <4> QED BY <4>2, <4>4 DEF was
    <3>2. CASE k # c BY <1>1, <2>11, <3>2 DEF Write
    <3> QED BY <3>1, <3>2
  <2>12. CASE ReaderStores(k) \/ ReaderShares(k) \/ Remove(k)
    BY <1>2, <2>12 DEF ReaderStores, ReaderShares, Remove, writerVars
  <2>13. ASSUME NEW size \in DeviceSizes, Rotation(k, size) \/ VideoSized(k, size)
         PROVE  WillBe(queue'[c], hand'[c], device'[c], p, p \in held')
    BY <1>2, <2>13 DEF Rotation, VideoSized, Report, writerVars
  <2>14. ASSUME NEW task \in late[k], VideoTask(k, task)
         PROVE  WillBe(queue'[c], hand'[c], device'[c], p, p \in held')
    BY <1>2, <2>14 DEF VideoTask, writerVars
  <2> QED BY <1>4, <2>1, <2>2, <2>3, <2>4, <2>5, <2>6, <2>9, <2>10, <2>11, <2>12, <2>13, <2>14 DEF Step
<1>5. CASE Sent
  <2>1. \A what \in {"down", "up"}, q \in Pointers, at \in Points :
          [what |-> what, pointer |-> q, x |-> at.x, w |-> at.w] \in Message
    BY TouchType DEF Message
  <2>2. [what |-> "other"] \in Message BY DEF Message, Other
  <2> QED BY <1>3, <1>5, <2>1, <2>2 DEF Sent
<1>6. CASE UNCHANGED vars BY <1>2, <1>6 DEF vars, writerVars
<1> QED BY <1>4, <1>5, <1>6 DEF Next

\* Whatever lag has lost, a pointer whose last touch was not overwritten will
\* be on the device as its senders have it.
THEOREM DevicesFollow == Spec => []DeviceFollows
  BY InitBase, InitFollows, BaseStep, FollowsStep, PTL DEF Spec

-----------------------------------------------------------------------------
(* The size.                                                                *)

\* As long as no report has overtaken another, what is outstanding is the last
\* one alone, and without it the registry has that size.
Sized ==
  \A c \in Conns : phase[c] # "ended" /\ ~raced[c] =>
    /\ busy[c] # None =>
         /\ late[c] = {} /\ busy[c].size = told[c]
         /\ busy[c].stage = "share" => known[c] \in {told[c], None}
    /\ \A task \in late[c] : late[c] = {task} /\ task.size = told[c]
    /\ told[c] # 0 /\ ~Outstanding(c) => known[c] \in {told[c], None}

LEMMA InitSized == Init => Sized
  BY DEF Init, Sized, Outstanding

LEMMA SizedStep == Base /\ Sized /\ [Next]_vars => Sized'
<1> SUFFICES ASSUME Base, Sized, [Next]_vars PROVE Sized'
  OBVIOUS
<1> USE DEF Base, TypeOK, Sized, Outstanding
<1>1. ASSUME UNCHANGED sizeVars, \A c \in Conns : phase'[c] # "ended" => phase[c] # "ended"
      PROVE  Sized'
  BY <1>1 DEF sizeVars
<1>2. CASE Sent
  BY <1>1, <1>2 DEF Sent, Send
<1>3. ASSUME NEW c \in Conns, Step(c) PROVE Sized'
  <2>1. CASE \/ Subscribe(c) \/ Open(c) \/ Breaks(c) \/ LagSeen(c) \/ Receive(c)
             \/ ReadRegistry(c) \/ ReadWatch(c) \/ Write(c)
    BY <1>1, <2>1 DEF Subscribe, Open, Breaks, LagSeen, Receive, ReadRegistry, ReadWatch, Write
  <2>2. CASE Ends(c)
    BY <2>2 DEF Ends
  <2>3. CASE ReaderStores(c)
    BY <2>3, NoneAssumption DEF ReaderStores, Updated, Rotated, writerVars
  <2>4. CASE ReaderShares(c)
    BY <2>4 DEF ReaderShares, Rotated, writerVars
  <2>5. CASE Remove(c)
    BY <2>5 DEF Remove, writerVars
  <2>6. ASSUME NEW size \in DeviceSizes, Rotation(c, size) PROVE Sized'
    <3>1. [size |-> size, stage |-> "store"] # None BY NoneAssumption DEF Rotated
    <3> QED BY <2>6, <3>1 DEF Rotation, Report, writerVars
  <2>7. ASSUME NEW size \in DeviceSizes, VideoSized(c, size) PROVE Sized'
    <3> DEFINE t == [size |-> size, nth |-> reports[c]]
    <3>1. t.size = size /\ late' = [late EXCEPT ![c] = @ \cup {t}]
      BY <2>7 DEF VideoSized
    <3> HIDE DEF t
    <3>2. SUFFICES ASSUME NEW k \in Conns, phase'[k] # "ended", ~raced'[k]
                   PROVE  /\ busy'[k] # None =>
                               /\ late'[k] = {} /\ busy'[k].size = told'[k]
                               /\ busy'[k].stage = "share" => known'[k] \in {told'[k], None}
                          /\ \A task \in late'[k] : late'[k] = {task} /\ task.size = told'[k]
                          /\ told'[k] # 0 /\ ~Outstanding(k)' => known'[k] \in {told'[k], None}
      OBVIOUS
    <3>3. CASE k = c
      <4>1. busy'[c] = None /\ late'[c] = {t} /\ told'[c] = size
        BY <2>7, <3>1, <3>2, <3>3 DEF VideoSized, Report
      <4> QED BY <3>1, <3>3, <4>1
    <3>4. CASE k # c
      BY <2>7, <3>1, <3>2, <3>4 DEF VideoSized, Report, writerVars
    <3> QED BY <3>3, <3>4
  <2>8. ASSUME NEW task \in late[c], VideoTask(c, task) PROVE Sized'
    BY <2>8 DEF VideoTask, Updated, Task, writerVars
  <2> QED BY <1>3, <2>1, <2>2, <2>3, <2>4, <2>5, <2>6, <2>7, <2>8 DEF Step
<1>4. CASE UNCHANGED vars
  BY <1>1, <1>4 DEF vars, writerVars
<1> QED BY <1>2, <1>3, <1>4 DEF Next

\* A point inside its mask comes to lie inside the device.
LEMMA ScaledInside ==
  ASSUME NEW m \in Touch, NEW size \in 1..(Word - 1),
         m.w > 0, m.x \in 0..m.w, size < Half, m.x * size < Word
  PROVE  Scaled(m, size).w = size /\ Scaled(m, size).x \in 0..size
<1>1. m.w \in Nat \ {0} /\ m.x \in Nat /\ m.x <= m.w /\ size \in Nat \ {0}
  BY WidthAssumption DEF Touch
<1>2. m.x * size \in 0..(Word - 1) /\ m.x * size <= m.w * size
  <2>1. m.x * size \in Nat /\ m.x * size <= m.w * size BY <1>1, Z3
  <2> QED BY <2>1, WidthAssumption
<1>3. Wrap(m.x * size) = m.x * size BY <1>2, WrapSmall
<1>4. (m.x * size) \div m.w \in 0..size
  BY <1>1, <1>2, DivBounds, DivBelow
<1>5. ScaledX(m, size) \in 0..size BY <1>2, <1>3, <1>4 DEF ScaledX, Quotient
<1>6. Narrow(size) = size BY <1>1, NarrowSmall, WidthAssumption
<1> QED BY <1>5, <1>6 DEF Scaled

\* What ScaledRight says of one connection and one step.
LEMMA ScaledStep ==
  ASSUME Base, Sized, [Next]_vars, NEW c \in Conns,
         hand[c] # None, hand[c].stage = "registry", hand'[c] # hand[c], hand'[c] # None, Settled(c),
         hand[c].msg.w > 0, hand[c].msg.x \in 0..hand[c].msg.w,
         told[c] < Half, hand[c].msg.x * told[c] < Word
  PROVE  /\ hand'[c].stage = "write" /\ hand'[c].msg.w = told[c]
         /\ hand'[c].msg.x \in 0..told[c]
<1> USE DEF Base, TypeOK
<1>1. ReadRegistry(c)
  <2>1. ASSUME Sent PROVE FALSE BY <2>1 DEF Sent, Send
  <2>2. ASSUME NEW k \in Conns, Step(k), ~ReadRegistry(c) PROVE FALSE
    BY <2>2 DEF Step, Subscribe, Open, Breaks, Ends, LagSeen, Receive, ReadRegistry, ReadWatch,
                Write, ReaderStores, ReaderShares, Remove, Rotation, VideoSized, VideoTask, Report,
                writerVars
  <2>3. ASSUME UNCHANGED vars PROVE FALSE BY <2>3 DEF vars, writerVars
  <2> QED BY <2>1, <2>2, <2>3 DEF Next
<1>2. known[c] = told[c] /\ told[c] \in DeviceSizes
  BY DEF Sized, Settled, Outstanding, Handed
<1>3. known[c] # 0 /\ known[c] # None /\ told[c] \in 1..(Word - 1)
  <2>1. told[c] \in 0..(Word - 1) /\ told[c] # 0 BY <1>2, SizeRange
  <2> QED BY <1>2, <2>1, NoneAssumption DEF Settled
<1>4. hand[c].msg \in Touch BY DEF Handed
<1>5. hand'[c] = [msg |-> Scaled(hand[c].msg, told[c]), stage |-> "write"]
  BY <1>1, <1>2, <1>3 DEF ReadRegistry
<1> QED BY <1>3, <1>4, <1>5, ScaledInside

\* A touch that finds the reports settled is scaled to the device.
THEOREM TouchesScaled == Spec => ScaledRight
<1>1. Base /\ Sized /\ [Next]_vars =>
        [\A c \in Conns :
           hand[c] # None /\ hand[c].stage = "registry" /\ hand'[c] # hand[c]
           /\ hand'[c] # None /\ Settled(c) =>
             LET m    == hand[c].msg
                 size == told[c]
             IN  m.w > 0 /\ m.x \in 0..m.w /\ size < Half /\ m.x * size < Word =>
                   hand'[c].stage = "write" /\ hand'[c].msg.w = size /\ hand'[c].msg.x \in 0..size]_vars
  BY ScaledStep
<1> QED BY <1>1, InitBase, InitSized, BaseStep, SizedStep, PTL DEF Spec, ScaledRight
================================================================================
