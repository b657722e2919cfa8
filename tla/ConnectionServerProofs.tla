------------------------ MODULE ConnectionServerProofs ------------------------
(***************************************************************************)
(* Theorems of ConnectionServer: types, tokens of the sub connections, and *)
(* what the mask has been told.                                            *)
(***************************************************************************)
EXTENDS ConnectionServer, FiniteSetTheorems, TLAPS

-----------------------------------------------------------------------------
(* The two queues.                                                          *)

\* Tail shifts a queue by one and keeps everything but its head.
LEMMA Shifted ==
  ASSUME NEW S, NEW q \in Seq(S), q # <<>>
  PROVE  /\ Head(q) \in S /\ Head(q) = q[1] /\ 1 \in DOMAIN q
         /\ Tail(q) \in Seq(S)
         /\ \A i \in DOMAIN Tail(q) : i \in Nat \ {0} /\ i + 1 \in DOMAIN q /\ Tail(q)[i] = q[i + 1]
         /\ \A i \in DOMAIN q : i \in Nat \ {0} /\ (i # 1 => i - 1 \in DOMAIN Tail(q) /\ q[i] = Tail(q)[i - 1])
<1>1. Len(q) \in Nat \ {0} /\ DOMAIN q = 1..Len(q)
  OBVIOUS
<1>2. Tail(q) \in Seq(S) /\ Len(Tail(q)) = Len(q) - 1 /\ DOMAIN Tail(q) = 1..(Len(q) - 1)
  BY <1>1
<1>3. \A i \in 1..(Len(q) - 1) : Tail(q)[i] = q[i + 1]
  BY <1>1
<1>4. Head(q) = q[1]
  OBVIOUS
<1>5. Head(q) \in S
  BY <1>1, <1>4
<1>6. \A i \in DOMAIN q : i # 1 => i - 1 \in DOMAIN Tail(q) /\ q[i] = Tail(q)[i - 1]
  <2> TAKE i \in DOMAIN q
  <2> HAVE i # 1
  <2>1. i - 1 \in 1..(Len(q) - 1) /\ (i - 1) + 1 = i
    BY <1>1
  <2>2. QED
    BY <2>1, <1>2, <1>3
<1>7. QED
  BY <1>1, <1>2, <1>3, <1>4, <1>5, <1>6

\* Append adds one position and keeps the others.
LEMMA Added ==
  ASSUME NEW S, NEW q \in Seq(S), NEW x \in S
  PROVE  /\ Append(q, x) \in Seq(S)
         /\ DOMAIN Append(q, x) = DOMAIN q \cup {Len(q) + 1}
         /\ Len(q) + 1 \notin DOMAIN q
         /\ \A i \in DOMAIN q : Append(q, x)[i] = q[i]
         /\ Append(q, x)[Len(q) + 1] = x
<1>1. Len(q) \in Nat /\ DOMAIN q = 1..Len(q) /\ DOMAIN Append(q, x) = 1..(Len(q) + 1)
  OBVIOUS
<1>2. QED
  BY <1>1

-----------------------------------------------------------------------------
(* Types.                                                                   *)

\* A connection that announces itself, or its end, queues a change.
LEMMA AnnounceType ==
  ASSUME TypeOK, NEW c \in Connect, NEW b \in BOOLEAN, Announce(c, b)
  PROVE  m_rx' = Append(m_rx, [connect |-> b, from |-> c])
         /\ [connect |-> b, from |-> c] \in Change /\ m_rx' \in Seq(Change)
BY DEF Announce, Change, TypeOK

LEMMA TypeInit == Init => TypeOK
<1> SUFFICES ASSUME Init PROVE TypeOK  OBVIOUS
<1>1. /\ d_rx \in Seq(Connect \cup Shutdown) /\ backlog \in Seq(Socket) /\ m_rx \in Seq(Change)
      /\ registered \subseteq Scids /\ accepting \in Connect \cup {None}
      /\ signal_map \subseteq Connect /\ cancelled \subseteq Connect /\ dialed \subseteq Socket
  BY DEF Init
<1>2. conn \in [Connect -> Phases] /\ peer \in [Connect -> Socket \cup {None}]
  BY DEF Init, Phases
<1>3. mask \in BOOLEAN
  BY DEF Init
<1>4. QED
  BY <1>1, <1>2, <1>3 DEF TypeOK

LEMMA TypeEnvironment == ASSUME TypeOK, Environment PROVE TypeOK'
<1> USE DEF TypeOK, Phase, Phases, Live, Waiting, loopVars, dialVars, maskVars
<1>1. CASE RegistryChanges
  BY <1>1 DEF RegistryChanges
<1>2. ASSUME NEW c \in Connect, SendConnect(c) PROVE TypeOK'
  BY <1>2 DEF SendConnect
<1>3. ASSUME NEW c \in Shutdown, SendShutdown(c) PROVE TypeOK'
  BY <1>3 DEF SendShutdown
<1>4. ASSUME NEW k \in Socket, Dial(k) PROVE TypeOK'
  <2>1. /\ dialed' = dialed \cup {k} /\ backlog' = Append(backlog, k)
        /\ UNCHANGED <<registered, d_rx, accepting, signal_map, cancelled, conn, peer, m_rx, mask>>
    BY <1>4, Zenon DEF Dial
  <2>2. QED
    BY <2>1
<1>5. QED
  BY <1>1, <1>2, <1>3, <1>4 DEF Environment

LEMMA TypeLoop == ASSUME TypeOK, Loop PROVE TypeOK'
<1> USE DEF TypeOK, Phase, Phases, Live, Waiting, dialVars, maskVars
<1>0. d_rx # <<>> => Tail(d_rx) \in Seq(Connect \cup Shutdown)
  OBVIOUS
<1>1. CASE HandleConnect
  BY <1>0, <1>1 DEF HandleConnect, Takes, Stored, Holding
<1>2. CASE Accept
  <2>1. backlog # <<>> /\ Head(backlog) \in Socket /\ Tail(backlog) \in Seq(Socket)
    BY <1>2 DEF Accept
  <2>2. accepting \in Connect /\ accepting' = None
    BY <1>2 DEF Accept
  <2>3. peer' \in [Connect -> Socket \cup {None}] /\ conn' \in [Connect -> Phases]
    BY <1>2, <2>1, <2>2 DEF Accept
  <2>4. QED
    BY <1>2, <2>1, <2>2, <2>3 DEF Accept
<1>3. CASE HandleShutdownMain
  BY <1>0, <1>3 DEF HandleShutdownMain, Takes, Ended
<1>4. CASE HandleShutdownSub
  BY <1>0, <1>4 DEF HandleShutdownSub, Takes, Holding
<1>5. QED
  BY <1>1, <1>2, <1>3, <1>4 DEF Loop

LEMMA TypeNetwork == ASSUME TypeOK, Network PROVE TypeOK'
<1> USE DEF Phases, Live, Waiting, dialVars, loopVars, maskVars
<1>1. CASE AcceptFails
  BY <1>1 DEF AcceptFails, TypeOK, Phase
<1>2. ASSUME NEW c \in Connect, MetaRead(c) PROVE TypeOK'
  BY <1>2 DEF MetaRead, TypeOK, Phase
<1>3. ASSUME NEW c \in Connect, MetaFails(c) PROVE TypeOK'
  BY <1>3 DEF MetaFails, TypeOK, Phase
<1>4. ASSUME NEW c \in Connect, PeerCloses(c) PROVE TypeOK'
  <2>1. CASE Tells(c)
    <3>1. m_rx' \in Seq(Change)
      BY <1>4, <2>1, AnnounceType DEF PeerCloses, Leave, Parted
    <3>2. QED
      BY <1>4, <2>1, <3>1 DEF PeerCloses, Leave, Parted, TypeOK, Phase
  <2>2. CASE ~Tells(c)
    BY <1>4, <2>2 DEF PeerCloses, Leave, Parted, TypeOK, Phase
  <2>3. QED
    BY <2>1, <2>2
<1>5. QED
  BY <1>1, <1>2, <1>3, <1>4 DEF Network

LEMMA TypeTask == ASSUME TypeOK, NEW c \in Connect, Task(c) PROVE TypeOK'
<1> USE DEF Phases, Live, Waiting, dialVars, loopVars
<1>1. CASE Start(c)
  <2>1. CASE Main(c)
    <3>1. m_rx' \in Seq(Change)
      BY <1>1, <2>1, AnnounceType DEF Start, Started
    <3>2. QED
      BY <1>1, <2>1, <3>1 DEF Start, Started, TypeOK, Phase
  <2>2. CASE ~Main(c)
    BY <1>1, <2>2 DEF Start, Started, TypeOK, Phase
  <2>3. QED
    BY <2>1, <2>2
<1>2. CASE Cancelled(c)
  <2>1. Network
    BY <1>2 DEF Cancelled, Network, PeerCloses
  <2>2. QED
    BY <2>1, TypeNetwork
<1>3. QED
  BY <1>1, <1>2 DEF Task

LEMMA TypeMask == ASSUME TypeOK, MaskHandles PROVE TypeOK'
<1>1. Head(m_rx) \in Change /\ Tail(m_rx) \in Seq(Change)
  BY Shifted DEF MaskHandles, TypeOK
<1>2. QED
  BY <1>1 DEF MaskHandles, TypeOK, Change, Phase, Phases, Live, Waiting, dialVars, loopVars

LEMMA TypeNext == ASSUME TypeOK, [Next]_vars PROVE TypeOK'
<1>1. CASE UNCHANGED vars
  BY <1>1 DEF vars, loopVars, dialVars, maskVars, TypeOK
<1>2. ASSUME NEW c \in Connect, Task(c) PROVE TypeOK'
  BY <1>2, TypeTask
<1>3. QED
  BY <1>1, <1>2, TypeEnvironment, TypeLoop, TypeNetwork, TypeMask DEF Next

\* Types: every variable of ConnectionServer stays in its set, for any sessions.
THEOREM TypeCorrect == Spec => []TypeOK
<1>1. QED
  BY TypeInit, TypeNext, PTL DEF Spec

-----------------------------------------------------------------------------
(* The command loop: tokens.                                                *)

\* A connect command waits in the queue once, and its connection with it.
CommandsOnce ==
  \A i \in DOMAIN d_rx : d_rx[i] \in Connect =>
    /\ conn[d_rx[i]] = "queued"
    /\ \A j \in DOMAIN d_rx : d_rx[j] = d_rx[i] => j = i

\* The command in accept has stored its token, which nobody has removed: only
\* the loop removes tokens.
AcceptHolds == accepting # None => conn[accepting] = "accepting" /\ accepting \in signal_map

Tokens == TypeOK /\ CommandsOnce /\ AcceptHolds /\ SubStoppable

\* The socket ids of the sub connections are their own.
LEMMA SubHolding ==
  ASSUME TypeOK, NEW c \in Connect, NEW t \in signal_map, t.cmd = "SubControl",
         SocketId(t) = SocketId(c)
  PROVE  t = c
<1>1. t \in Connect
  BY DEF TypeOK
<1>2. SocketId(t) = <<"SubControl", t.scid>>
  BY DEF SocketId
<1>3. c.cmd = "SubControl" /\ c.scid = t.scid
  BY <1>2 DEF SocketId
<1>4. QED
  BY <1>1, <1>3 DEF Connect

\* A step that leaves queue and loop alone, and takes no connection out of
\* "queued" or "accepting", keeps the first two.
LEMMA LoopFrame ==
  ASSUME CommandsOnce, AcceptHolds, UNCHANGED loopVars,
         \A c \in Connect : conn[c] \in {"queued", "accepting"} => conn'[c] = conn[c],
         TypeOK
  PROVE  CommandsOnce' /\ AcceptHolds'
<1>1. /\ \A i \in DOMAIN d_rx : d_rx'[i] = d_rx[i]
      /\ DOMAIN d_rx' = DOMAIN d_rx
      /\ accepting' = accepting /\ signal_map' = signal_map
  BY DEF loopVars
<1>2. QED
  BY <1>1 DEF CommandsOnce, AcceptHolds, TypeOK

LEMMA TokensEnvironment == ASSUME Tokens, Environment PROVE CommandsOnce' /\ AcceptHolds' /\ SubStoppable'
<1> USE DEF Tokens
<1>1. CASE RegistryChanges
  BY <1>1 DEF RegistryChanges, loopVars, CommandsOnce, AcceptHolds, SubStoppable
<1>2. ASSUME NEW c \in Connect, SendConnect(c) PROVE CommandsOnce' /\ AcceptHolds' /\ SubStoppable'
  <2>1. /\ conn[c] = "none" /\ d_rx' = Append(d_rx, c) /\ conn' = [conn EXCEPT ![c] = "queued"]
        /\ UNCHANGED <<accepting, signal_map, cancelled>>
    BY <1>2 DEF SendConnect, Phase
  <2>2. /\ DOMAIN d_rx' = DOMAIN d_rx \cup {Len(d_rx) + 1} /\ Len(d_rx) + 1 \notin DOMAIN d_rx
        /\ \A i \in DOMAIN d_rx : d_rx'[i] = d_rx[i]
        /\ d_rx'[Len(d_rx) + 1] = c
    BY <2>1, Added DEF TypeOK
  <2>3. conn'[c] = "queued" /\ \A x \in Connect \ {c} : conn'[x] = conn[x]
    BY <2>1 DEF TypeOK
  <2>4. \A i \in DOMAIN d_rx : d_rx[i] # c
    BY <2>1 DEF CommandsOnce
  <2>5. CommandsOnce'
    BY <2>2, <2>3, <2>4 DEF CommandsOnce
  <2>6. AcceptHolds'
    BY <2>1, <2>3 DEF AcceptHolds, TypeOK
  <2>7. SubStoppable'
    BY <2>1, <2>3 DEF SubStoppable, Live, Waiting
  <2>8. QED
    BY <2>5, <2>6, <2>7
<1>3. ASSUME NEW c \in Shutdown, SendShutdown(c) PROVE CommandsOnce' /\ AcceptHolds' /\ SubStoppable'
  <2>1. d_rx' = Append(d_rx, c) /\ UNCHANGED <<accepting, signal_map, cancelled, conn>>
    BY <1>3 DEF SendShutdown
  <2>2. /\ DOMAIN d_rx' = DOMAIN d_rx \cup {Len(d_rx) + 1}
        /\ \A i \in DOMAIN d_rx : d_rx'[i] = d_rx[i]
        /\ d_rx'[Len(d_rx) + 1] = c
    BY <2>1, Added DEF TypeOK
  <2>3. c \notin Connect
    BY DEF Connect, Shutdown
  <2>4. CommandsOnce'
    BY <2>1, <2>2, <2>3 DEF CommandsOnce
  <2>5. AcceptHolds' /\ SubStoppable'
    BY <2>1 DEF AcceptHolds, SubStoppable
  <2>6. QED
    BY <2>4, <2>5
<1>4. ASSUME NEW k \in Socket, Dial(k) PROVE CommandsOnce' /\ AcceptHolds' /\ SubStoppable'
  <2>1. UNCHANGED <<d_rx, accepting, signal_map, cancelled, conn>>
    BY <1>4, Zenon DEF Dial, loopVars
  <2>2. QED
    BY <2>1 DEF CommandsOnce, AcceptHolds, SubStoppable
<1>5. QED
  BY <1>1, <1>2, <1>3, <1>4 DEF Environment

\* What a command that is taken leaves behind it.
LEMMA TakenOnce ==
  ASSUME TypeOK, CommandsOnce, NEW c \in Connect \cup Shutdown, Takes(c)
  PROVE  /\ c \in Connect => conn[c] = "queued"
         /\ \A i \in DOMAIN d_rx' : d_rx'[i] \in Connect =>
              /\ conn[d_rx'[i]] = "queued" /\ d_rx'[i] # c
              /\ \A j \in DOMAIN d_rx' : d_rx'[j] = d_rx'[i] => j = i
<1> DEFINE S == Connect \cup Shutdown
<1>1. d_rx \in Seq(S) /\ d_rx # <<>> /\ c = Head(d_rx) /\ d_rx' = Tail(d_rx) /\ accepting = None
  BY DEF TypeOK, Takes
<1>2. /\ Head(d_rx) = d_rx[1] /\ 1 \in DOMAIN d_rx
      /\ \A i \in DOMAIN Tail(d_rx) :
           i \in Nat \ {0} /\ i + 1 \in DOMAIN d_rx /\ Tail(d_rx)[i] = d_rx[i + 1]
  BY <1>1, Shifted
<1>3. ASSUME NEW i \in DOMAIN d_rx', d_rx'[i] \in Connect
      PROVE  /\ conn[d_rx'[i]] = "queued" /\ d_rx'[i] # c
             /\ \A j \in DOMAIN d_rx' : d_rx'[j] = d_rx'[i] => j = i
  <2>1. i \in Nat \ {0} /\ i + 1 \in DOMAIN d_rx /\ d_rx'[i] = d_rx[i + 1]
    BY <1>1, <1>2, <1>3
  <2>2. /\ conn[d_rx[i + 1]] = "queued"
        /\ \A j \in DOMAIN d_rx : d_rx[j] = d_rx[i + 1] => j = i + 1
    BY <2>1, <1>3 DEF CommandsOnce
  <2>3. d_rx'[i] # c
    <3>1. d_rx[1] = d_rx[i + 1] => 1 = i + 1
      BY <2>2, <1>2
    <3>2. QED
      BY <3>1, <2>1, <1>1, <1>2
  <2>4. ASSUME NEW j \in DOMAIN d_rx', d_rx'[j] = d_rx'[i] PROVE j = i
    <3>1. j \in Nat \ {0} /\ j + 1 \in DOMAIN d_rx /\ d_rx'[j] = d_rx[j + 1]
      BY <1>1, <1>2
    <3>2. j + 1 = i + 1
      BY <3>1, <2>1, <2>2, <2>4
    <3>3. QED
      BY <3>1, <3>2, <2>1
  <2>5. QED
    BY <2>1, <2>2, <2>3, <2>4
<1>4. c \in Connect => conn[c] = "queued"
  BY <1>1, <1>2 DEF CommandsOnce
<1>5. QED
  BY <1>3, <1>4

LEMMA TokensLoop == ASSUME Tokens, Loop PROVE CommandsOnce' /\ AcceptHolds' /\ SubStoppable'
<1> USE DEF Tokens
<1>1. CASE HandleConnect
  <2>1. PICK c \in Connect :
          /\ Takes(c)
          /\ UNCHANGED cancelled
          /\ \/ accepting' = c /\ signal_map' = Stored(c) /\ Phase(c, "accepting")
             \/ Phase(c, "refused") /\ UNCHANGED <<accepting, signal_map>>
    BY <1>1, Zenon DEF HandleConnect
  <2>2. PICK p \in {"accepting", "refused"} : conn' = [conn EXCEPT ![c] = p]
    BY <2>1 DEF Phase
  <2>3. conn'[c] = p /\ \A x \in Connect \ {c} : conn'[x] = conn[x]
    BY <2>2 DEF TypeOK
  <2>4. CommandsOnce'
    BY <2>1, <2>3, TakenOnce DEF CommandsOnce
  <2>5. CASE accepting' = c /\ signal_map' = Stored(c) /\ Phase(c, "accepting")
    <3>1. AcceptHolds'
      BY <2>5 DEF AcceptHolds, Phase, Stored, TypeOK
    <3>2. SubStoppable'
      <4> SUFFICES ASSUME NEW x \in Connect, x.cmd = "SubControl", conn'[x] \in Live, x \notin cancelled'
                   PROVE x \in signal_map'
        BY DEF SubStoppable
      <4>1. x # c
        BY <2>5 DEF Phase, TypeOK, Live, Waiting
      <4>2. x \in signal_map
        BY <4>1, <2>1, <2>3 DEF SubStoppable
      <4>3. SocketId(x) # SocketId(c)
        BY <4>1, <4>2, SubHolding
      <4>4. QED
        BY <4>2, <4>3, <2>5 DEF Stored, Holding
    <3>3. QED
      BY <2>4, <3>1, <3>2
  <2>6. CASE Phase(c, "refused") /\ UNCHANGED <<accepting, signal_map>>
    <3>1. AcceptHolds'
      BY <2>1, <2>6 DEF AcceptHolds, Takes
    <3>2. \A x \in Connect \ {c} : conn'[x] = conn[x]
      BY <2>3
    <3>3. conn'[c] = "refused"
      BY <2>6 DEF Phase, TypeOK
    <3>4. SubStoppable'
      BY <2>1, <2>6, <3>2, <3>3 DEF SubStoppable, Live, Waiting
    <3>5. QED
      BY <2>4, <3>1, <3>4
  <2>7. QED
    BY <2>1, <2>5, <2>6
<1>2. CASE Accept
  <2>1. /\ accepting \in Connect /\ accepting # None /\ accepting' = None
        /\ UNCHANGED <<d_rx, signal_map, cancelled>>
    BY <1>2 DEF Accept, TypeOK
  <2>2. \A x \in Connect \ {accepting} : conn'[x] = conn[x]
    BY <1>2, <2>1 DEF Accept, Phase, TypeOK
  <2>3. conn[accepting] = "accepting" /\ accepting \in signal_map
    BY <2>1 DEF AcceptHolds
  <2>4. CommandsOnce'
    BY <2>1, <2>2, <2>3 DEF CommandsOnce
  <2>5. AcceptHolds' /\ SubStoppable'
    BY <2>1, <2>2, <2>3 DEF AcceptHolds, SubStoppable
  <2>6. QED
    BY <2>4, <2>5
<1>3. CASE HandleShutdownMain
  <2>1. PICK c \in Shutdown :
          /\ Takes(c)
          /\ UNCHANGED <<accepting, conn>>
          /\ \/ UNCHANGED <<signal_map, cancelled>>
             \/ cancelled' = cancelled \cup signal_map
    BY <1>3, Zenon DEF HandleShutdownMain, Ended
  <2>2. CommandsOnce'
    BY <2>1, TakenOnce DEF CommandsOnce
  <2>3. AcceptHolds' /\ SubStoppable'
    BY <2>1 DEF AcceptHolds, SubStoppable, Takes
  <2>4. QED
    BY <2>2, <2>3
<1>4. CASE HandleShutdownSub
  <2>1. PICK c \in Shutdown :
          /\ Takes(c)
          /\ UNCHANGED <<accepting, conn>>
          /\ cancelled' = cancelled \cup Holding(<<"SubControl", c.scid>>)
          /\ signal_map' = signal_map \ Holding(<<"SubControl", c.scid>>)
    BY <1>4, Zenon DEF HandleShutdownSub
  <2>2. CommandsOnce'
    BY <2>1, TakenOnce DEF CommandsOnce
  <2>3. AcceptHolds' /\ SubStoppable'
    BY <2>1 DEF AcceptHolds, SubStoppable, Takes
  <2>4. QED
    BY <2>2, <2>3
<1>5. QED
  BY <1>1, <1>2, <1>3, <1>4 DEF Loop

LEMMA TokensNetwork == ASSUME Tokens, Network PROVE CommandsOnce' /\ AcceptHolds' /\ SubStoppable'
<1> USE DEF Tokens
<1>1. CASE AcceptFails
  <2>1. /\ accepting \in Connect /\ accepting # None /\ accepting' = None
        /\ signal_map' = signal_map \ {accepting}
        /\ conn' = [conn EXCEPT ![accepting] = "closed"]
        /\ UNCHANGED <<d_rx, cancelled>>
    BY <1>1 DEF AcceptFails, TypeOK, Phase
  <2>2. conn'[accepting] = "closed" /\ \A x \in Connect \ {accepting} : conn'[x] = conn[x]
    BY <2>1 DEF TypeOK
  <2>3. conn[accepting] = "accepting"
    BY <2>1 DEF AcceptHolds
  <2>4. CommandsOnce'
    BY <2>1, <2>2, <2>3 DEF CommandsOnce
  <2>5. AcceptHolds' /\ SubStoppable'
    BY <2>1, <2>2 DEF AcceptHolds, SubStoppable, Live, Waiting
  <2>6. QED
    BY <2>4, <2>5
<1>2. ASSUME NEW c \in Connect, MetaRead(c) \/ MetaFails(c) \/ PeerCloses(c)
      PROVE  CommandsOnce' /\ AcceptHolds' /\ SubStoppable'
  <2>1. /\ UNCHANGED loopVars /\ cancelled \subseteq cancelled'
        /\ conn[c] \in Live
        /\ \A x \in Connect \ {c} : conn'[x] = conn[x]
    BY <1>2 DEF MetaRead, MetaFails, PeerCloses, Leave, Parted, Phase, TypeOK, Live, Waiting
  <2>2. \A x \in Connect : conn[x] \in {"queued", "accepting"} => conn'[x] = conn[x]
    BY <2>1 DEF Live, Waiting
  <2>3. SubStoppable'
    BY <2>1 DEF SubStoppable, loopVars
  <2>4. QED
    BY <2>1, <2>2, <2>3, LoopFrame
<1>3. QED
  BY <1>1, <1>2 DEF Network

LEMMA TokensTask ==
  ASSUME Tokens, NEW c \in Connect, Task(c) PROVE CommandsOnce' /\ AcceptHolds' /\ SubStoppable'
<1> USE DEF Tokens
<1>1. CASE Start(c)
  <2>1. /\ UNCHANGED loopVars /\ UNCHANGED cancelled
        /\ conn[c] \in Live
        /\ \A x \in Connect \ {c} : conn'[x] = conn[x]
    BY <1>1 DEF Start, Started, Phase, TypeOK, Live, Waiting
  <2>2. \A x \in Connect : conn[x] \in {"queued", "accepting"} => conn'[x] = conn[x]
    BY <2>1 DEF Live, Waiting
  <2>3. SubStoppable'
    BY <2>1 DEF SubStoppable, loopVars
  <2>4. QED
    BY <2>1, <2>2, <2>3, LoopFrame
<1>2. CASE Cancelled(c)
  BY <1>2, TokensNetwork DEF Cancelled, Network, PeerCloses
<1>3. QED
  BY <1>1, <1>2 DEF Task

-----------------------------------------------------------------------------
(* The connections and the mask: answers.                                   *)

\* The changes queued for the mask are those of main connections, and exactly
\* of those that wait, one each.
ChangesOnce ==
  /\ \A i \in DOMAIN m_rx : Main(m_rx[i].from)
  /\ \A i, j \in DOMAIN m_rx : m_rx[i].from = m_rx[j].from => i = j
  /\ \A c \in Connect : conn[c] \in Waiting <=> \E i \in DOMAIN m_rx : m_rx[i].from = c

\* A change says which of the two its connection waits for.
Fits(q) == \A i \in DOMAIN q : conn[q[i].from] = IF q[i].connect THEN "connecting" ELSE "leaving"

Told == ChangesOnce /\ Fits(m_rx) /\ MaskBacked

\* The members of the mask's queue.
LEMMA ChangeFrom ==
  ASSUME TypeOK, NEW i \in DOMAIN m_rx
  PROVE  m_rx[i].from \in Connect /\ m_rx[i].connect \in BOOLEAN
<1>1. m_rx[i] \in Change
  BY DEF TypeOK
<1>2. QED
  BY <1>1 DEF Change

\* A connection that neither waits nor is shown may go on unnoticed.
LEMMA ToldFrame ==
  ASSUME TypeOK, Told, UNCHANGED maskVars,
         \A c \in Connect :
           \/ conn'[c] = conn[c]
           \/ conn[c] \notin Waiting /\ conn'[c] \notin Waiting /\ (Main(c) => conn[c] # "open")
  PROVE  Told'
<1>1. m_rx' = m_rx /\ mask' = mask
  BY DEF maskVars
<1>2. ChangesOnce'
  BY <1>1 DEF Told, ChangesOnce, Main
<1>3. MaskBacked'
  BY <1>1 DEF Told, MaskBacked, Waiting, Main
<1>4. \A i \in DOMAIN m_rx : m_rx[i].from \in Connect /\ conn[m_rx[i].from] \in Waiting
  BY ChangeFrom DEF Told, ChangesOnce
<1>5. Fits(m_rx)'
  BY <1>1, <1>4 DEF Told, Fits
<1>6. QED
  BY <1>2, <1>3, <1>5 DEF Told

\* The step of one connection.
LEMMA ToldStep ==
  ASSUME TypeOK, Told, UNCHANGED maskVars, NEW c \in Connect, NEW p \in Phases \ Waiting,
         Phase(c, p), conn[c] \notin Waiting, Main(c) => conn[c] # "open"
  PROVE  Told'
<1>1. conn'[c] = p /\ \A x \in Connect \ {c} : conn'[x] = conn[x]
  BY DEF Phase, TypeOK
<1>2. QED
  BY <1>1, ToldFrame

\* A main connection that begins to wait queues its change.
LEMMA ToldAnnounce ==
  ASSUME TypeOK, Told, NEW c \in Connect, NEW b \in BOOLEAN, Main(c), Announce(c, b),
         conn[c] \notin Waiting, NEW p, p = IF b THEN "connecting" ELSE "leaving", Phase(c, p),
         conn[c] = "open" => ~b, mask' = mask
  PROVE  Told'
<1> DEFINE n == Len(m_rx) + 1
           x == [connect |-> b, from |-> c]
<1>1. m_rx' = Append(m_rx, x) /\ x \in Change /\ x.from = c
  BY AnnounceType
<1>2. /\ DOMAIN m_rx' = DOMAIN m_rx \cup {n} /\ n \notin DOMAIN m_rx
      /\ \A i \in DOMAIN m_rx : m_rx'[i] = m_rx[i]
      /\ m_rx'[n] = x
  BY <1>1, Added DEF TypeOK
<1>3. conn'[c] = p /\ \A y \in Connect \ {c} : conn'[y] = conn[y]
  BY DEF Phase, TypeOK
<1>4. \A i \in DOMAIN m_rx : m_rx[i].from # c
  BY DEF Told, ChangesOnce
<1>5. \A i \in DOMAIN m_rx' : Main(m_rx'[i].from)
  BY <1>1, <1>2 DEF Told, ChangesOnce
<1>6. \A i, j \in DOMAIN m_rx' : m_rx'[i].from = m_rx'[j].from => i = j
  BY <1>1, <1>2, <1>4 DEF Told, ChangesOnce
<1>7. \A y \in Connect : conn'[y] \in Waiting <=> \E i \in DOMAIN m_rx' : m_rx'[i].from = y
  <2>1. p \in Waiting
    BY DEF Waiting
  <2>2. QED
    BY <1>1, <1>2, <1>3, <2>1 DEF Told, ChangesOnce
<1>8. ChangesOnce'
  BY <1>5, <1>6, <1>7 DEF ChangesOnce, Main
<1>9. MaskBacked'
  BY <1>3 DEF Told, MaskBacked, Waiting, Main
<1>10. \A i \in DOMAIN m_rx' : conn'[m_rx'[i].from] = IF m_rx'[i].connect THEN "connecting" ELSE "leaving"
  <2>1. \A i \in DOMAIN m_rx : m_rx[i].from \in Connect \ {c}
    BY <1>4, ChangeFrom
  <2>2. QED
    BY <1>1, <1>2, <1>3, <2>1 DEF Told, Fits
<1>11. QED
  BY <1>8, <1>9, <1>10 DEF Told, Fits

\* The head of the mask's queue is answered.
LEMMA ToldMask ==
  ASSUME TypeOK, Told, MaskHandles
  PROVE  /\ Told'
         /\ Head(m_rx).from \in Connect /\ conn[Head(m_rx).from] \in Waiting
<1> DEFINE c == Head(m_rx).from
           p == IF Head(m_rx).connect THEN "open" ELSE "closed"
<1>1. m_rx # <<>> /\ m_rx' = Tail(m_rx) /\ mask' = Head(m_rx).connect /\ conn' = [conn EXCEPT ![c] = p]
  BY DEF MaskHandles, Phase
<1>2. /\ Head(m_rx) \in Change /\ Head(m_rx) = m_rx[1] /\ 1 \in DOMAIN m_rx
      /\ \A i \in DOMAIN m_rx' : i \in Nat \ {0} /\ i + 1 \in DOMAIN m_rx /\ m_rx'[i] = m_rx[i + 1]
      /\ \A i \in DOMAIN m_rx : i \in Nat \ {0} /\ (i # 1 => i - 1 \in DOMAIN m_rx' /\ m_rx[i] = m_rx'[i - 1])
  BY <1>1, Shifted DEF TypeOK
<1>3. c \in Connect /\ Main(c) /\ conn[c] \in Waiting
  BY <1>2 DEF Told, ChangesOnce, Change
<1>4. conn'[c] = p /\ \A y \in Connect \ {c} : conn'[y] = conn[y]
  BY <1>1, <1>3 DEF TypeOK
<1>5. \A i \in DOMAIN m_rx' : m_rx'[i].from # c /\ Main(m_rx'[i].from)
  <2> TAKE i \in DOMAIN m_rx'
  <2>1. i + 1 \in DOMAIN m_rx /\ i + 1 # 1 /\ m_rx'[i] = m_rx[i + 1]
    BY <1>2
  <2>2. m_rx[i + 1].from # m_rx[1].from
    BY <1>2, <2>1 DEF Told, ChangesOnce
  <2>3. QED
    BY <1>2, <2>1, <2>2 DEF Told, ChangesOnce
<1>6. \A i, j \in DOMAIN m_rx' : m_rx'[i].from = m_rx'[j].from => i = j
  <2> TAKE i, j \in DOMAIN m_rx'
  <2> HAVE m_rx'[i].from = m_rx'[j].from
  <2>1. i + 1 = j + 1
    BY <1>2 DEF Told, ChangesOnce
  <2>2. QED
    BY <1>2, <2>1
<1>7. \A y \in Connect : conn'[y] \in Waiting <=> \E i \in DOMAIN m_rx' : m_rx'[i].from = y
  <2> TAKE y \in Connect
  <2>1. CASE y = c
    BY <2>1, <1>4, <1>5 DEF Waiting
  <2>2. CASE y # c
    <3>1. conn[y] \in Waiting <=> \E i \in DOMAIN m_rx : m_rx[i].from = y
      BY DEF Told, ChangesOnce
    <3>2. (\E i \in DOMAIN m_rx : m_rx[i].from = y) <=> \E i \in DOMAIN m_rx' : m_rx'[i].from = y
      BY <1>2, <2>2
    <3>3. QED
      BY <3>1, <3>2, <2>2, <1>4
  <2>3. QED
    BY <2>1, <2>2
<1>8. ChangesOnce'
  BY <1>5, <1>6, <1>7 DEF ChangesOnce, Main
<1>9. MaskBacked'
  BY <1>1, <1>3, <1>4 DEF MaskBacked, Main
<1>10. \A i \in DOMAIN m_rx' : conn'[m_rx'[i].from] = IF m_rx'[i].connect THEN "connecting" ELSE "leaving"
  <2> TAKE i \in DOMAIN m_rx'
  <2>1. i + 1 \in DOMAIN m_rx /\ m_rx'[i] = m_rx[i + 1] /\ m_rx'[i].from # c
    BY <1>2, <1>5
  <2>2. m_rx[i + 1].from \in Connect
    BY <2>1, ChangeFrom
  <2>3. QED
    BY <1>4, <2>1, <2>2 DEF Told, Fits
<1>11. QED
  BY <1>3, <1>8, <1>9, <1>10 DEF Told, Fits

LEMMA ToldLoop == ASSUME Tokens, Told, Loop PROVE Told'
<1> USE DEF Tokens
<1>1. CASE HandleConnect
  <2>1. PICK c \in Connect :
          /\ Takes(c)
          /\ UNCHANGED maskVars
          /\ Phase(c, "accepting") \/ Phase(c, "refused")
    BY <1>1, Zenon DEF HandleConnect
  <2>2. conn[c] = "queued"
    BY <2>1, TakenOnce
  <2>3. {"accepting", "refused"} \subseteq Phases \ Waiting
    BY DEF Phases, Waiting
  <2>4. QED
    BY <2>1, <2>2, <2>3, ToldStep DEF Waiting
<1>2. CASE Accept
  <2>1. accepting \in Connect /\ conn[accepting] = "accepting"
    BY <1>2 DEF Accept, AcceptHolds, TypeOK
  <2>2. PICK p \in {"meta", "start"} : Phase(accepting, p)
    BY <1>2 DEF Accept
  <2>3. UNCHANGED maskVars
    BY <1>2 DEF Accept
  <2>4. p \in Phases \ Waiting
    BY DEF Phases, Live, Waiting
  <2>5. QED
    BY <2>1, <2>2, <2>3, <2>4, ToldStep DEF Waiting
<1>3. CASE HandleShutdownMain
  BY <1>3, ToldFrame DEF HandleShutdownMain
<1>4. CASE HandleShutdownSub
  BY <1>4, ToldFrame DEF HandleShutdownSub
<1>5. QED
  BY <1>1, <1>2, <1>3, <1>4 DEF Loop

LEMMA ToldEnvironment == ASSUME Tokens, Told, Environment PROVE Told'
<1>1. CASE RegistryChanges
  BY <1>1, ToldFrame DEF RegistryChanges, Tokens
<1>2. ASSUME NEW c \in Connect, SendConnect(c) PROVE Told'
  <2>1. UNCHANGED maskVars /\ conn[c] = "none" /\ Phase(c, "queued")
    BY <1>2 DEF SendConnect
  <2>2. "queued" \in Phases \ Waiting
    BY DEF Phases, Waiting
  <2>3. QED
    BY <2>1, <2>2, ToldStep DEF Waiting, Tokens
<1>3. ASSUME NEW c \in Shutdown, SendShutdown(c) PROVE Told'
  BY <1>3, ToldFrame DEF SendShutdown, Tokens
<1>4. ASSUME NEW k \in Socket, Dial(k) PROVE Told'
  <2>1. UNCHANGED maskVars /\ UNCHANGED conn
    BY <1>4, Zenon DEF Dial
  <2>2. QED
    BY <2>1, ToldFrame DEF Tokens
<1>5. QED
  BY <1>1, <1>2, <1>3, <1>4 DEF Environment

\* A connection that leaves: a main one tells the mask, the others just end.
LEMMA ToldLeave == ASSUME TypeOK, Told, NEW c \in Connect, Leave(c) PROVE Told'
<1>1. conn[c] = "open" /\ Parted(c) /\ mask' = mask
  BY DEF Leave
<1>2. CASE Main(c)
  <2>1. Announce(c, FALSE) /\ Phase(c, "leaving")
    BY <1>1, <1>2 DEF Parted, Tells
  <2>2. QED
    BY <1>1, <1>2, <2>1, ToldAnnounce DEF Waiting
<1>3. CASE ~Main(c)
  <2>1. m_rx' = m_rx /\ Phase(c, "closed")
    BY <1>1, <1>3 DEF Parted, Tells
  <2>2. "closed" \in Phases \ Waiting
    BY DEF Phases, Waiting
  <2>3. QED
    BY <1>1, <1>3, <2>1, <2>2, ToldStep DEF Waiting, maskVars
<1>4. QED
  BY <1>2, <1>3

LEMMA ToldNetwork == ASSUME Tokens, Told, Network PROVE Told'
<1> USE DEF Tokens
<1>0. {"start", "closed"} \subseteq Phases \ Waiting
  BY DEF Phases, Live, Waiting
<1>1. CASE AcceptFails
  <2>1. accepting \in Connect /\ conn[accepting] = "accepting"
    BY <1>1 DEF AcceptFails, AcceptHolds, TypeOK
  <2>2. Phase(accepting, "closed") /\ UNCHANGED maskVars
    BY <1>1 DEF AcceptFails
  <2>3. QED
    BY <1>0, <2>1, <2>2, ToldStep DEF Waiting
<1>2. ASSUME NEW c \in Connect, MetaRead(c) \/ MetaFails(c) PROVE Told'
  <2>1. conn[c] = "meta" /\ UNCHANGED maskVars /\ (Phase(c, "start") \/ Phase(c, "closed"))
    BY <1>2 DEF MetaRead, MetaFails
  <2>2. QED
    BY <1>0, <2>1, ToldStep DEF Waiting
<1>3. ASSUME NEW c \in Connect, PeerCloses(c) PROVE Told'
  BY <1>3, ToldLeave DEF PeerCloses
<1>4. QED
  BY <1>1, <1>2, <1>3 DEF Network

LEMMA ToldTask == ASSUME Tokens, Told, NEW c \in Connect, Task(c) PROVE Told'
<1>1. CASE Start(c)
  <2>1. conn[c] = "start" /\ Started(c) /\ mask' = mask
    BY <1>1 DEF Start
  <2>2. CASE Main(c)
    <3>1. Announce(c, TRUE) /\ Phase(c, "connecting")
      BY <2>1, <2>2 DEF Started
    <3>2. QED
      BY <2>1, <2>2, <3>1, ToldAnnounce DEF Waiting, Tokens
  <2>3. CASE ~Main(c)
    <3>1. m_rx' = m_rx /\ Phase(c, "open")
      BY <2>1, <2>3 DEF Started
    <3>2. "open" \in Phases \ Waiting
      BY DEF Phases, Live, Waiting
    <3>3. QED
      BY <2>1, <2>3, <3>1, <3>2, ToldStep DEF Waiting, Tokens, maskVars
  <2>4. QED
    BY <2>2, <2>3
<1>2. CASE Cancelled(c)
  BY <1>2, ToldLeave DEF Cancelled, Tokens
<1>3. QED
  BY <1>1, <1>2 DEF Task

-----------------------------------------------------------------------------
(* The inductive invariant.                                                 *)

Inv == Tokens /\ Told

LEMMA InvInit == Init => Inv
<1> SUFFICES ASSUME Init PROVE Inv  OBVIOUS
<1>1. TypeOK
  BY TypeInit
<1>2. DOMAIN d_rx = {} /\ DOMAIN m_rx = {} /\ \A c \in Connect : conn[c] = "none"
  BY DEF Init
<1>3. Tokens
  BY <1>1, <1>2 DEF Init, Tokens, CommandsOnce, AcceptHolds, SubStoppable, Live, Waiting
<1>4. Told
  <2>1. ChangesOnce
    BY <1>2 DEF ChangesOnce, Waiting
  <2>2. MaskBacked /\ Fits(m_rx)
    BY <1>2 DEF Init, MaskBacked, Fits
  <2>3. QED
    BY <2>1, <2>2 DEF Told
<1>5. QED
  BY <1>3, <1>4 DEF Inv

LEMMA InvNext == ASSUME Inv, [Next]_vars PROVE Inv'
<1> USE DEF Inv
<1>1. TypeOK'
  BY TypeNext DEF Tokens
<1>2. CASE UNCHANGED vars
  <2>1. Tokens'
    BY <1>1, <1>2 DEF vars, loopVars, Tokens, CommandsOnce, AcceptHolds, SubStoppable
  <2>2. Told'
    BY <1>2, ToldFrame DEF vars, maskVars, Tokens
  <2>3. QED
    BY <2>1, <2>2
<1>3. CASE MaskHandles
  <2> DEFINE c == Head(m_rx).from
  <2>1. c \in Connect /\ conn[c] \in Waiting /\ Told'
    BY <1>3, ToldMask DEF Tokens
  <2>2. PICK p : Phase(c, p)
    BY <1>3 DEF MaskHandles
  <2>3. \A x \in Connect \ {c} : conn'[x] = conn[x]
    BY <2>1, <2>2 DEF Phase, Tokens, TypeOK
  <2>4. UNCHANGED loopVars /\ UNCHANGED cancelled
    BY <1>3 DEF MaskHandles
  <2>5. CommandsOnce' /\ AcceptHolds'
    BY <2>1, <2>3, <2>4, LoopFrame DEF Tokens, Waiting
  <2>6. SubStoppable'
    BY <2>1, <2>3, <2>4 DEF SubStoppable, loopVars, Tokens, Live
  <2>7. QED
    BY <1>1, <2>1, <2>5, <2>6 DEF Tokens
<1>4. ASSUME NEW c \in Connect, Task(c) PROVE Inv'
  BY <1>1, <1>4, TokensTask, ToldTask DEF Tokens
<1>5. CASE Environment
  BY <1>1, <1>5, TokensEnvironment, ToldEnvironment DEF Tokens
<1>6. CASE Loop
  BY <1>1, <1>6, TokensLoop, ToldLoop DEF Tokens
<1>7. CASE Network
  BY <1>1, <1>7, TokensNetwork, ToldNetwork DEF Tokens
<1>8. QED
  BY <1>2, <1>3, <1>4, <1>5, <1>6, <1>7 DEF Next

LEMMA InvHolds == Spec => []Inv
<1>1. QED
  BY InvInit, InvNext, PTL DEF Spec

\* A shutdown can reach every sub connection that is live, for any number of
\* sessions and commands: only the loop touches the tokens, the socket ids of
\* sub sessions differ, and a main shutdown cancels whatever it forgets.
THEOREM EverySubStoppable == Spec => []SubStoppable
<1>1. Inv => SubStoppable
  BY DEF Inv, Tokens
<1>2. QED
  BY <1>1, InvHolds, PTL

\* The mask never goes on showing a device when the last main connection it
\* was told of has ended, however the connections overlap.
THEOREM MaskIsBacked == Spec => []MaskBacked
<1>1. Inv => MaskBacked
  BY DEF Inv, Told
<1>2. QED
  BY <1>1, InvHolds, PTL

\* A connection waits for the mask exactly while one change of it is queued.
THEOREM OneAnswerOwed == Spec => []AnswerOwed
<1>1. ASSUME Inv PROVE AnswerOwed
  <2> SUFFICES ASSUME NEW c \in Connect
               PROVE  Cardinality({i \in DOMAIN m_rx : m_rx[i].from = c}) =
                        IF conn[c] \in Waiting THEN 1 ELSE 0
    BY DEF AnswerOwed
  <2> DEFINE P == {i \in DOMAIN m_rx : m_rx[i].from = c}
  <2>1. CASE conn[c] \in Waiting
    <3>1. PICK i \in DOMAIN m_rx : m_rx[i].from = c
      BY <1>1, <2>1 DEF Inv, Told, ChangesOnce
    <3>2. P = {i}
      BY <1>1, <3>1 DEF Inv, Told, ChangesOnce
    <3>3. Cardinality(P) = 1
      BY <3>2, FS_Singleton
    <3>4. QED
      BY <2>1, <3>3
  <2>2. CASE conn[c] \notin Waiting
    <3>1. P = {}
      BY <1>1, <2>2 DEF Inv, Told, ChangesOnce
    <3>2. Cardinality(P) = 0
      BY <3>1, FS_EmptySet
    <3>3. QED
      BY <2>2, <3>2
  <2>3. QED
    BY <2>1, <2>2
<1>2. QED
  BY <1>1, InvHolds, PTL

-----------------------------------------------------------------------------
(* The protocol with the mask.                                              *)

\* Where a connection stands with the mask, by its phase.
StandsAt(p) == IF p \in DOMAIN Standing THEN Standing[p] ELSE "away"
StandsAll   == [c \in MainConns |-> StandsAt(conn[c])]

LEMMA StandsKnown ==
  /\ StandsAt("connecting") = "telling" /\ StandsAt("open") = "on" /\ StandsAt("leaving") = "parting"
  /\ \A p : p \notin Waiting \cup {"open"} => StandsAt(p) = "away"
BY DEF StandsAt, Standing, Waiting

\* A step that moves one main connection moves it in the protocol.
LEMMA StandsMoves ==
  ASSUME TypeOK, NEW c \in MainConns, NEW p, Phase(c, p)
  PROVE  StandsAll' = [StandsAll EXCEPT ![c] = StandsAt(p)] /\ StandsAll[c] = StandsAt(conn[c])
BY DEF TypeOK, Phase, StandsAll, MainConns

\* A step the mask has no part in.
LEMMA ProtocolFrame ==
  ASSUME TypeOK, UNCHANGED maskVars,
         \A c \in Connect :
           \/ conn'[c] = conn[c]
           \/ conn[c] \notin Waiting /\ conn'[c] \notin Waiting /\ (Main(c) => "open" \notin {conn[c], conn'[c]})
  PROVE  UNCHANGED Protocol!vars
<1>1. \A c \in MainConns : StandsAt(conn'[c]) = StandsAt(conn[c])
  BY StandsKnown DEF MainConns
<1>2. StandsAll' = StandsAll /\ mask' = mask
  BY <1>1 DEF StandsAll, maskVars
<1>3. QED
  BY <1>2 DEF Protocol!vars, StandsAll, StandsAt

\* The step of one connection that is not served by then.
LEMMA ProtocolIdle ==
  ASSUME TypeOK, UNCHANGED maskVars, NEW c \in Connect, NEW p, Phase(c, p),
         conn[c] \notin Waiting, p \notin Waiting, Main(c) => "open" \notin {conn[c], p}
  PROVE  UNCHANGED Protocol!vars
<1>1. conn'[c] = p /\ \A x \in Connect \ {c} : conn'[x] = conn[x]
  BY DEF Phase, TypeOK
<1>2. QED
  BY <1>1, ProtocolFrame

\* The end of the select!: a main connection parts with the mask.
LEMMA ProtocolLeave ==
  ASSUME TypeOK, NEW c \in Connect, Leave(c)
  PROVE  [Protocol!Next]_(Protocol!vars)
<1>1. conn[c] = "open" /\ Parted(c) /\ mask' = mask
  BY DEF Leave
<1>2. CASE Main(c)
  <2>1. c \in MainConns /\ Phase(c, "leaving")
    BY <1>1, <1>2 DEF MainConns, Parted, Tells
  <2>2. StandsAll[c] = "on" /\ StandsAll' = [StandsAll EXCEPT ![c] = "parting"]
    BY <1>1, <2>1, StandsMoves, StandsKnown
  <2>3. Protocol!Parts(c)
    BY <1>1, <2>2 DEF Protocol!Parts, Protocol!Moves, StandsAll, StandsAt
  <2>4. QED
    BY <2>1, <2>3 DEF Protocol!Next
<1>3. CASE ~Main(c)
  <2>1. UNCHANGED maskVars /\ Phase(c, "closed")
    BY <1>1, <1>3 DEF Parted, Tells, maskVars
  <2>2. UNCHANGED Protocol!vars
    BY <1>1, <1>3, <2>1, ProtocolIdle DEF Waiting
  <2>3. QED
    BY <2>2
<1>4. QED
  BY <1>2, <1>3

\* The start of the task: a main connection tells the mask.
LEMMA ProtocolStart ==
  ASSUME TypeOK, NEW c \in Connect, Start(c)
  PROVE  [Protocol!Next]_(Protocol!vars)
<1>1. conn[c] = "start" /\ Started(c) /\ mask' = mask
  BY DEF Start
<1>2. CASE Main(c)
  <2>1. c \in MainConns /\ Phase(c, "connecting")
    BY <1>1, <1>2 DEF MainConns, Started
  <2>2. StandsAll[c] = "away" /\ StandsAll' = [StandsAll EXCEPT ![c] = "telling"]
    BY <1>1, <2>1, StandsMoves, StandsKnown DEF Waiting
  <2>3. Protocol!Tells(c)
    BY <1>1, <2>2 DEF Protocol!Tells, Protocol!Moves, StandsAll, StandsAt
  <2>4. QED
    BY <2>1, <2>3 DEF Protocol!Next
<1>3. CASE ~Main(c)
  <2>1. UNCHANGED maskVars /\ Phase(c, "open")
    BY <1>1, <1>3 DEF Started, maskVars
  <2>2. UNCHANGED Protocol!vars
    BY <1>1, <1>3, <2>1, ProtocolIdle DEF Waiting
  <2>3. QED
    BY <2>2
<1>4. QED
  BY <1>2, <1>3

\* The mask answers the connection that waits for just this change.
LEMMA ProtocolAnswer ==
  ASSUME TypeOK, Told, MaskHandles
  PROVE  Protocol!Next
<1>1. m_rx # <<>> /\ mask' = Head(m_rx).connect
      /\ Phase(Head(m_rx).from, IF Head(m_rx).connect THEN "open" ELSE "closed")
  BY DEF MaskHandles
<1>2. Head(m_rx) = m_rx[1] /\ 1 \in DOMAIN m_rx
  BY <1>1, Shifted DEF TypeOK
<1>3. /\ Head(m_rx).from \in MainConns /\ Head(m_rx).connect \in BOOLEAN
      /\ conn[Head(m_rx).from] = IF Head(m_rx).connect THEN "connecting" ELSE "leaving"
  BY <1>2, ChangeFrom DEF Told, ChangesOnce, Fits, MainConns
<1>4. PICK c \in MainConns, p \in {"open", "closed"} :
        /\ Phase(c, p)
        /\ p = "open" => conn[c] = "connecting" /\ mask' = TRUE
        /\ p = "closed" => conn[c] = "leaving" /\ mask' = FALSE
  BY <1>1, <1>3
<1>5. StandsAll' = [StandsAll EXCEPT ![c] = StandsAt(p)] /\ StandsAll[c] = StandsAt(conn[c])
  BY <1>1, <1>4, StandsMoves
<1>6. CASE p = "open"
  <2>1. StandsAll[c] = "telling" /\ StandsAll' = [StandsAll EXCEPT ![c] = "on"]
    BY <1>4, <1>5, <1>6, StandsKnown
  <2>2. Protocol!Connected(c)
    BY <1>4, <1>6, <2>1 DEF Protocol!Connected, Protocol!Moves, StandsAll, StandsAt
  <2>3. QED
    BY <1>4, <2>2 DEF Protocol!Next
<1>7. CASE p = "closed"
  <2>1. StandsAll[c] = "parting" /\ StandsAll' = [StandsAll EXCEPT ![c] = "away"]
    BY <1>4, <1>5, <1>7, StandsKnown DEF Waiting
  <2>2. Protocol!Disconnected(c)
    BY <1>4, <1>7, <2>1 DEF Protocol!Disconnected, Protocol!Moves, StandsAll, StandsAt
  <2>3. QED
    BY <1>4, <2>2 DEF Protocol!Next
<1>8. QED
  BY <1>6, <1>7

LEMMA ProtocolStep == ASSUME Inv, [Next]_vars PROVE [Protocol!Next]_(Protocol!vars)
<1> USE DEF Inv, Tokens
<1>1. CASE UNCHANGED vars
  BY <1>1, ProtocolFrame DEF vars, maskVars
<1>2. CASE MaskHandles
  BY <1>2, ProtocolAnswer
<1>3. ASSUME NEW c \in Connect, Task(c) PROVE [Protocol!Next]_(Protocol!vars)
  BY <1>3, ProtocolStart, ProtocolLeave DEF Task, Cancelled
<1>4. CASE Environment
  <2>1. UNCHANGED maskVars /\ (conn' = conn \/ \E c \in Connect : conn[c] = "none" /\ Phase(c, "queued"))
    BY <1>4, Zenon DEF Environment, RegistryChanges, SendConnect, SendShutdown, Dial
  <2>2. UNCHANGED Protocol!vars
    BY <2>1, ProtocolFrame, ProtocolIdle DEF Waiting
  <2>3. QED
    BY <2>2
<1>5. CASE Loop
  <2>1. UNCHANGED maskVars
    BY <1>5, Zenon DEF Loop, HandleConnect, Accept, HandleShutdownMain, HandleShutdownSub
  <2>2. \/ conn' = conn
        \/ \E c \in Connect, p \in {"accepting", "refused", "meta", "start"} :
             conn[c] \in {"queued", "accepting"} /\ Phase(c, p)
    <3>1. CASE HandleConnect
      <4>1. PICK c \in Connect : Takes(c) /\ (Phase(c, "accepting") \/ Phase(c, "refused"))
        BY <3>1, Zenon DEF HandleConnect
      <4>2. conn[c] = "queued"
        BY <4>1, TakenOnce
      <4>3. QED
        BY <4>1, <4>2
    <3>2. CASE Accept
      BY <3>2 DEF Accept, AcceptHolds, TypeOK
    <3>3. QED
      BY <1>5, <3>1, <3>2 DEF Loop, HandleShutdownMain, HandleShutdownSub
  <2>3. UNCHANGED Protocol!vars
    BY <2>1, <2>2, ProtocolFrame, ProtocolIdle DEF Waiting
  <2>4. QED
    BY <2>3
<1>6. CASE Network
  <2>1. ASSUME NEW c \in Connect, MetaRead(c) \/ MetaFails(c) PROVE UNCHANGED Protocol!vars
    <3>1. UNCHANGED maskVars /\ conn[c] = "meta" /\ (Phase(c, "start") \/ Phase(c, "closed"))
      BY <2>1 DEF MetaRead, MetaFails
    <3>2. QED
      BY <3>1, ProtocolIdle DEF Waiting
  <2>2. CASE AcceptFails
    <3>1. /\ UNCHANGED maskVars /\ accepting \in Connect
          /\ conn[accepting] = "accepting" /\ Phase(accepting, "closed")
      BY <2>2 DEF AcceptFails, AcceptHolds, TypeOK
    <3>2. UNCHANGED Protocol!vars
      BY <3>1, ProtocolIdle DEF Waiting
    <3>3. QED
      BY <3>2
  <2>3. QED
    BY <1>6, <2>1, <2>2, ProtocolLeave DEF Network, PeerCloses
<1>7. QED
  BY <1>1, <1>2, <1>3, <1>4, <1>5, <1>6 DEF Next

\* The connection server implements the protocol with the mask: a main control
\* connection is served between the answers to its two changes, never without,
\* and the mask shows what the change it answered last says, for any sessions.
THEOREM ProtocolKept == Spec => ImplementsProtocol
<1>1. Init => Protocol!Init
  BY DEF Init, Protocol!Init, Standing, MainConns
<1>2. QED
  BY <1>1, ProtocolStep, InvHolds, PTL DEF Spec, ImplementsProtocol, Protocol!Spec

=============================================================================
