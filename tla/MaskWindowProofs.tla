--------------------------- MODULE MaskWindowProofs ---------------------------
(***************************************************************************)
(* Theorems of MaskWindow: types, one window while connected, and the size *)
(* it is told, on each platform; that nobody who waits is forgotten; and   *)
(* that the mask keeps the protocol with the main control connections.     *)
(***************************************************************************)
EXTENDS MaskWindow, FiniteSetTheorems, TLAPS

-----------------------------------------------------------------------------
(* The queue.                                                               *)

\* A queue's connects are finitely many.
LEMMA ConnectsFinite ==
  ASSUME NEW q \in Seq(Command)
  PROVE  IsFiniteSet(Connects(q)) /\ Cardinality(Connects(q)) \in Nat
<1>1. Len(q) \in Nat /\ Connects(q) \in SUBSET (1..Len(q)) /\ IsFiniteSet(1..Len(q))
  BY FS_Interval DEF Connects
<1>2. IsFiniteSet(Connects(q))
  BY <1>1, FS_Subset
<1>3. QED
  BY <1>2, FS_CardinalityType

\* A command that is sent is one more connect or none.
LEMMA ConnectsAppend ==
  ASSUME NEW q \in Seq(Command), NEW c \in Command
  PROVE  /\ Append(q, c) \in Seq(Command)
         /\ Cardinality(Connects(Append(q, c))) =
              Cardinality(Connects(q)) + (IF c.what = "connect" THEN 1 ELSE 0)
<1>1. /\ Append(q, c) \in Seq(Command) /\ Len(q) \in Nat
      /\ DOMAIN q = 1..Len(q) /\ DOMAIN Append(q, c) = 1..(Len(q) + 1)
      /\ \A i \in 1..Len(q) : Append(q, c)[i] = q[i]
      /\ Append(q, c)[Len(q) + 1] = c
  OBVIOUS
<1>2. IsFiniteSet(Connects(q)) /\ Cardinality(Connects(q)) \in Nat
  BY ConnectsFinite
<1>3. CASE c.what = "connect"
  <2>1. Connects(Append(q, c)) = Connects(q) \cup {Len(q) + 1} /\ Len(q) + 1 \notin Connects(q)
    BY <1>1, <1>3 DEF Connects
  <2>2. QED
    BY <1>1, <1>2, <1>3, <2>1, FS_AddElement
<1>4. CASE c.what # "connect"
  <2>1. Connects(Append(q, c)) = Connects(q)
    BY <1>1, <1>4 DEF Connects
  <2>2. QED
    BY <1>1, <1>2, <1>4, <2>1
<1>5. QED
  BY <1>3, <1>4

\* A command that is taken was one of them or none.
LEMMA ConnectsTail ==
  ASSUME NEW q \in Seq(Command), q # <<>>
  PROVE  /\ Head(q) \in Command /\ Tail(q) \in Seq(Command)
         /\ Cardinality(Connects(q)) =
              Cardinality(Connects(Tail(q))) + (IF Head(q).what = "connect" THEN 1 ELSE 0)
<1> DEFINE rest  == Connects(q) \ {1}
           shift == [i \in Connects(Tail(q)) |-> i + 1]
<1>1. /\ Tail(q) \in Seq(Command) /\ Len(Tail(q)) = Len(q) - 1 /\ Len(q) \in Nat \ {0}
      /\ Head(q) = q[1] /\ DOMAIN q = 1..Len(q) /\ DOMAIN Tail(q) = 1..(Len(q) - 1)
      /\ \A i \in 1..(Len(q) - 1) : Tail(q)[i] = q[i + 1]
  OBVIOUS
<1>2. Head(q) \in Command
  BY <1>1
<1>3. /\ IsFiniteSet(Connects(q)) /\ Cardinality(Connects(q)) \in Nat
      /\ IsFiniteSet(Connects(Tail(q))) /\ Cardinality(Connects(Tail(q))) \in Nat
  BY <1>1, ConnectsFinite
<1>4. \A i \in Connects(Tail(q)) : i \in Nat /\ i + 1 \in rest
  BY <1>1 DEF Connects
<1>5. \A j \in rest : j - 1 \in Connects(Tail(q)) /\ j = (j - 1) + 1
  BY <1>1 DEF Connects
<1>6. shift \in Bijection(Connects(Tail(q)), rest)
  <2>1. shift \in [Connects(Tail(q)) -> rest]
    BY <1>4
  <2>2. \A i, j \in Connects(Tail(q)) : shift[i] = shift[j] => i = j
    BY <1>4
  <2>3. \A j \in rest : \E i \in Connects(Tail(q)) : shift[i] = j
    BY <1>5
  <2> HIDE DEF shift, rest
  <2>4. QED
    BY <2>1, <2>2, <2>3 DEF Bijection, Injection, Surjection, IsInjective
<1>7. Cardinality(rest) = Cardinality(Connects(Tail(q)))
  BY <1>3, <1>6, FS_Bijection DEF ExistsBijection
<1>8. Cardinality(rest) = IF 1 \in Connects(q) THEN Cardinality(Connects(q)) - 1 ELSE Cardinality(Connects(q))
  BY <1>3, FS_RemoveElement
<1>9. 1 \in Connects(q) <=> Head(q).what = "connect"
  BY <1>1 DEF Connects
<1>10. QED
  BY <1>1, <1>2, <1>3, <1>7, <1>8, <1>9

\* What the head of the queue is, by what it asks.
LEMMA HeadKind ==
  ASSUME NEW c \in Command
  PROVE  /\ c.what \in {"connect", "disconnect", "move", "level"}
         /\ c.what \in {"connect", "disconnect"} => c.from \in Conns
         /\ c.what = "move" => c.from \in Movers \cup Clients /\ c.size \in Sizes
         /\ c.what = "level" => c.from \in Clients
         /\ c.from \in Senders
BY DEF Command, Change, Move, Level, Senders

-----------------------------------------------------------------------------
(* The inductive invariant.                                                 *)

\* There is a window to spawn for every connect that is queued.
Room == platform = "linux" => Cardinality(Connects(m_rx)) <= Cardinality(Free)

\* On Linux: nothing is ever pending; the windows that stay are the one of the
\* last connect and the leaked ones; a window that is despawned in this frame
\* was there before any that is still to stay.
Linux ==
  platform = "linux" =>
    /\ pending = None
    /\ connected <=> entity # None
    /\ Live = leaked \cup ({entity} \ {None}) /\ entity \notin leaked
    /\ spawns \cap DOMAIN windows = {} /\ despawns \subseteq DOMAIN windows \cup spawns
    /\ despawns # {} => entity = None \/ entity \in spawns
    /\ connected /\ told /\ ~blind /\ leaked = {} =>
         entity \in DOMAIN windows /\ windows[entity] = [size |-> mask_size, visible |-> TRUE]

\* Elsewhere: one window for ever, shown while connected but for a pending
\* resize, which begins shown.
Elsewhere ==
  platform = "other" =>
    /\ spawns = {} /\ despawns = {} /\ entity = None /\ leaked = {}
    /\ \E w \in Windows : DOMAIN windows = {w}
    /\ pending = None => \A w \in DOMAIN windows : windows[w].visible <=> connected
    /\ pending # None => connected
    /\ pending # None => \A w \in DOMAIN windows : pending.shrunk => windows[w].size = pending.size
    /\ told /\ pending = None => \A w \in DOMAIN windows : windows[w].size = mask_size

Inv == TypeOK /\ Room /\ Linux /\ Elsewhere

LEMMA FirstIn == ASSUME NEW S, S # {} PROVE First(S) \in S
BY DEF First

LEMMA InvInit == Init => Inv
<1> SUFFICES ASSUME Init PROVE Inv  OBVIOUS
<1> USE DEF Init
<1>1. Connects(m_rx) = {} /\ Cardinality(Connects(m_rx)) = 0
  BY FS_EmptySet DEF Connects
<1>2. Free \in SUBSET Windows /\ IsFiniteSet(Free) /\ Cardinality(Free) \in Nat
  BY WindowsAssumption, FS_Subset, FS_CardinalityType DEF Free
<1>3. Room
  BY <1>1, <1>2 DEF Room
<1>4. First(Windows) \in Windows
  BY WindowsAssumption, FirstIn
<1>5. TypeOK
  <2>1. m_rx \in Seq(Command) /\ stage \in [Senders -> {"idle", "waiting", "on", "leaving", "gone"}]
    OBVIOUS
  <2>2. DOMAIN windows \subseteq Windows /\ windows \in [DOMAIN windows -> Window]
    BY <1>4 DEF Window, NewWindow
  <2>3. connected \in BOOLEAN /\ crashed \in BOOLEAN /\ told \in BOOLEAN /\ blind \in BOOLEAN
    BY Zenon
  <2>4. QED
    BY <2>1, <2>2, <2>3 DEF TypeOK
<1>6. Linux
  BY DEF Linux, Live
<1>7. Elsewhere
  BY <1>4 DEF Elsewhere, NewWindow
<1>8. QED
  BY <1>3, <1>5, <1>6, <1>7 DEF Inv

-----------------------------------------------------------------------------
(* The senders.                                                             *)

LEMMA InvSend ==
  ASSUME Inv, NEW c \in Command, NEW from, NEW to \in {"waiting", "leaving"}, Send(c, from, to),
         platform = "linux" /\ c.what = "connect" => Cardinality(Connects(m_rx)) < Cardinality(Free)
  PROVE  Inv'
<1>1. /\ m_rx' = Append(m_rx, c) /\ stage' = [stage EXCEPT ![c.from] = to]
      /\ UNCHANGED <<platform, connected, entity, windows, spawns, despawns, pending, mask_size,
                     crashed, leaked, told, blind>>
  BY DEF Send, windowVars, history
<1>2. /\ m_rx' \in Seq(Command)
      /\ Cardinality(Connects(m_rx')) = Cardinality(Connects(m_rx)) + (IF c.what = "connect" THEN 1 ELSE 0)
      /\ Cardinality(Connects(m_rx)) \in Nat
  BY <1>1, ConnectsAppend, ConnectsFinite DEF Inv, TypeOK
<1>3. Cardinality(Free) \in Nat /\ Free' = Free
  <2>1. Free \in SUBSET Windows
    BY DEF Free
  <2>2. QED
    BY <1>1, <2>1, WindowsAssumption, FS_Subset, FS_CardinalityType DEF Free
<1>4. Room'
  <2>1. Connects(m_rx') = Connects(m_rx)'
    BY DEF Connects
  <2>2. QED
    BY <1>1, <1>2, <1>3, <2>1 DEF Inv, Room
<1>5. TypeOK'
  BY <1>1, <1>2 DEF Inv, TypeOK, Live
<1>6. Linux' /\ Elsewhere'
  BY <1>1 DEF Inv, Linux, Elsewhere, Live
<1>7. QED
  BY <1>4, <1>5, <1>6 DEF Inv

\* A client that leaves changes no more than where it stands.
LEMMA InvGone ==
  ASSUME Inv, NEW s \in Clients, ClientGone(s)
  PROVE  Inv'
<1>1. /\ stage' = [stage EXCEPT ![s] = "gone"]
      /\ UNCHANGED <<platform, m_rx, connected, entity, windows, spawns, despawns, pending, mask_size,
                     crashed, leaked, told, blind>>
  BY DEF ClientGone, windowVars, history
<1>2. TypeOK'
  BY <1>1 DEF Inv, TypeOK, Live
<1>3. Connects(m_rx)' = Connects(m_rx) /\ Free' = Free
  BY <1>1 DEF Connects, Free
<1>4. Room' /\ Linux' /\ Elsewhere'
  BY <1>1, <1>3 DEF Inv, Room, Linux, Elsewhere, Live
<1>5. QED
  BY <1>2, <1>4 DEF Inv

-----------------------------------------------------------------------------
(* A frame takes a command, answers it and changes the window.              *)

LEMMA Took ==
  ASSUME Inv, NEW what, Takes(what)
  PROVE  /\ platform' = platform /\ pending = None
         /\ Head(m_rx) \in Command /\ Head(m_rx).what = what
         /\ m_rx' \in Seq(Command)
         /\ Cardinality(Connects(m_rx)') \in Nat
         /\ Cardinality(Connects(m_rx)) = Cardinality(Connects(m_rx)') + (IF what = "connect" THEN 1 ELSE 0)
<1>1. /\ platform' = platform /\ pending = None /\ m_rx \in Seq(Command) /\ m_rx # <<>>
      /\ Head(m_rx).what = what /\ m_rx' = Tail(m_rx)
  BY DEF Takes, Inv, TypeOK
<1>2. /\ Head(m_rx) \in Command /\ Tail(m_rx) \in Seq(Command)
      /\ Cardinality(Connects(m_rx)) =
           Cardinality(Connects(Tail(m_rx))) + (IF Head(m_rx).what = "connect" THEN 1 ELSE 0)
  BY <1>1, ConnectsTail
<1>3. Cardinality(Connects(Tail(m_rx))) \in Nat
  BY <1>2, ConnectsFinite
<1>4. Connects(m_rx)' = Connects(Tail(m_rx))
  BY <1>1 DEF Connects
<1>5. QED
  BY <1>1, <1>2, <1>3, <1>4

LEMMA AnswerTyped ==
  ASSUME TypeOK, NEW s \in Senders, Answer(s)
  PROVE  stage' \in [Senders -> {"idle", "waiting", "on", "leaving", "gone"}]
BY DEF TypeOK, Answer, Answered

LEMMA FreeCount == ASSUME NEW S \in SUBSET Windows PROVE IsFiniteSet(S) /\ Cardinality(S) \in Nat
BY WindowsAssumption, FS_Subset, FS_CardinalityType

\* Unless a window is spawned there is room for the connects as before.
LEMMA RoomKept ==
  ASSUME Inv, NEW what, Takes(what), DOMAIN windows' = DOMAIN windows, spawns' = spawns
  PROVE  Room'
<1>1. Free' = Free /\ Cardinality(Free) \in Nat
  BY FreeCount DEF Free
<1>2. QED
  BY <1>1, Took DEF Inv, Room

\* What single_mut does to the windows.
LEMMA Adjusted ==
  ASSUME TypeOK, NEW size \in Sizes \cup {"default"}, NEW visible \in BOOLEAN, Adjust(size, visible)
  PROVE  /\ DOMAIN windows' = DOMAIN windows
         /\ windows' \in [DOMAIN windows -> Window]
         /\ \A w \in DOMAIN windows : windows'[w] = [size |-> size, visible |-> visible]
BY DEF Adjust, Window

\* Elsewhere there is one window.
LEMMA OnlyOne ==
  ASSUME Inv, platform = "other"
  PROVE  DOMAIN windows = {Only} /\ Only \in Windows /\ windows[Only] \in Window
<1>1. PICK w \in Windows : DOMAIN windows = {w}
  BY DEF Inv, Elsewhere
<1>2. Only = w
  BY <1>1 DEF Only
<1>3. QED
  BY <1>1, <1>2 DEF Inv, TypeOK

LEMMA InvConnectLinux == ASSUME Inv, ConnectLinux PROVE Inv'
<1> DEFINE f == First(Free)
<1>1. /\ platform = "linux" /\ Takes("connect") /\ Answer(Head(m_rx).from)
      /\ connected' = TRUE /\ spawns' = spawns \cup {f} /\ entity' = f
      /\ leaked' = leaked \cup ({entity} \ {None}) /\ told' = FALSE /\ blind' = FALSE
      /\ UNCHANGED <<windows, despawns, pending, mask_size, crashed>>
  BY DEF ConnectLinux, Stored, Replaces
<1>2. Cardinality(Free) \in Nat /\ IsFiniteSet(Free)
  BY FreeCount DEF Free
<1>3. /\ platform' = platform /\ pending = None /\ m_rx' \in Seq(Command)
      /\ Head(m_rx) \in Command /\ Head(m_rx).from \in Senders
      /\ Cardinality(Connects(m_rx)') \in Nat
      /\ Cardinality(Connects(m_rx)) = Cardinality(Connects(m_rx)') + 1
  BY <1>1, Took, HeadKind
<1>4. Free # {}
  BY <1>1, <1>2, <1>3, FS_EmptySet DEF Inv, Room
<1>5. f \in Free
  BY <1>4, FirstIn
<1>6. f \in Windows /\ f \notin DOMAIN windows /\ f \notin spawns /\ f # None
  BY <1>5, WindowsAssumption DEF Free
<1> HIDE DEF f
<1>7. Room'
  <2>1. Free' = Free \ {f}
    BY <1>1 DEF Free
  <2>2. Cardinality(Free \ {f}) = Cardinality(Free) - 1
    BY <1>2, <1>5, FS_RemoveElement
  <2>3. QED
    BY <1>1, <1>2, <1>3, <2>1, <2>2 DEF Inv, Room
<1>8. f \notin despawns /\ f \notin Live /\ Live' = Live \cup {f} /\ leaked' = Live
  BY <1>1, <1>6 DEF Inv, Linux, Live
<1>9. TypeOK'
  <2>1. stage' \in [Senders -> {"idle", "waiting", "on", "leaving", "gone"}]
    BY <1>1, <1>3, AnswerTyped DEF Inv
  <2>2. QED
    BY <1>1, <1>3, <1>6, <1>8, <2>1 DEF Inv, TypeOK
<1>10. Linux'
  BY <1>1, <1>3, <1>6, <1>8 DEF Inv, Linux
<1>11. Elsewhere'
  BY <1>1, <1>3 DEF Elsewhere
<1>12. QED
  BY <1>7, <1>9, <1>10, <1>11 DEF Inv

LEMMA InvDisconnectLinux == ASSUME Inv, DisconnectLinux PROVE Inv'
<1>1. /\ platform = "linux" /\ Takes("disconnect") /\ Answer(Head(m_rx).from)
      /\ connected' = FALSE /\ despawns' = despawns \cup ({entity} \ {None}) /\ entity' = None
      /\ UNCHANGED <<windows, spawns, pending, mask_size, crashed, leaked, told, blind>>
  BY DEF DisconnectLinux, Taken, Flag, history
<1>2. /\ platform' = platform /\ pending = None /\ m_rx' \in Seq(Command)
      /\ Head(m_rx).from \in Senders
  BY <1>1, Took, HeadKind
<1>3. Room'
  BY <1>1, RoomKept
<1>4. stage' \in [Senders -> {"idle", "waiting", "on", "leaving", "gone"}]
  BY <1>1, <1>2, AnswerTyped DEF Inv
<1>5. Live' = leaked /\ ({entity} \ {None}) \subseteq DOMAIN windows \cup spawns
  BY <1>1 DEF Inv, Linux, Live
<1>6. TypeOK'
  BY <1>1, <1>2, <1>4, <1>5 DEF Inv, TypeOK
<1>7. Linux'
  <2>1. None \notin leaked
    BY WindowsAssumption DEF Inv, TypeOK, Live
  <2>2. QED
    BY <1>1, <1>2, <1>5, <2>1 DEF Inv, Linux
<1>8. Elsewhere'
  BY <1>1, <1>2 DEF Elsewhere
<1>9. QED
  BY <1>3, <1>6, <1>7, <1>8 DEF Inv

LEMMA InvMoveDiscarded == ASSUME Inv, MoveDiscarded PROVE Inv'
<1>1. /\ Takes("move") /\ Answer(Head(m_rx).from)
      /\ UNCHANGED <<connected, entity, windows, spawns, despawns, pending, mask_size, crashed,
                     leaked, told, blind>>
  BY DEF MoveDiscarded, windowVars, history
<1>2. platform' = platform /\ m_rx' \in Seq(Command) /\ Head(m_rx).from \in Senders
  BY <1>1, Took, HeadKind
<1>3. Room'
  BY <1>1, RoomKept
<1>4. stage' \in [Senders -> {"idle", "waiting", "on", "leaving", "gone"}]
  BY <1>1, <1>2, AnswerTyped DEF Inv
<1>5. TypeOK' /\ Linux' /\ Elsewhere'
  BY <1>1, <1>2, <1>4 DEF Inv, TypeOK, Linux, Elsewhere, Live
<1>6. QED
  BY <1>3, <1>5 DEF Inv

LEMMA InvMoveLinux == ASSUME Inv, MoveLinux PROVE Inv'
<1> DEFINE size == Head(m_rx).size
<1>1. /\ platform = "linux" /\ connected /\ Takes("move") /\ Answer(Head(m_rx).from)
      /\ Adjust(size, TRUE) /\ mask_size' = size
      /\ told' = TRUE /\ blind' = (entity \in spawns)
      /\ UNCHANGED <<connected, entity, spawns, despawns, pending, crashed, leaked>>
  BY DEF MoveLinux
<1>2. /\ platform' = platform /\ m_rx' \in Seq(Command) /\ Head(m_rx).from \in Senders
      /\ size \in Sizes
  BY <1>1, Took, HeadKind
<1> HIDE DEF size
<1>3. /\ DOMAIN windows' = DOMAIN windows /\ windows' \in [DOMAIN windows -> Window]
      /\ \A w \in DOMAIN windows : windows'[w] = [size |-> size, visible |-> TRUE]
  BY <1>1, <1>2, Adjusted DEF Inv
<1>4. Room'
  BY <1>1, <1>3, RoomKept
<1>5. stage' \in [Senders -> {"idle", "waiting", "on", "leaving", "gone"}]
  BY <1>1, <1>2, AnswerTyped DEF Inv
<1>6. Live' = Live
  BY <1>1, <1>3 DEF Live
<1>7. TypeOK'
  <2>1. blind' \in BOOLEAN
    BY ONLY <1>1
  <2>2. QED
    BY <1>1, <1>2, <1>3, <1>5, <1>6, <2>1 DEF Inv, TypeOK
<1>8. Linux'
  <2>1. connected' /\ ~blind' /\ leaked' = {} => entity \in DOMAIN windows
    BY <1>1 DEF Inv, Linux, Live
  <2>2. QED
    BY <1>1, <1>2, <1>3, <1>6, <2>1 DEF Inv, Linux
<1>9. Elsewhere'
  BY <1>1, <1>2 DEF Elsewhere
<1>10. QED
  BY <1>4, <1>7, <1>8, <1>9 DEF Inv

\* With a window of its own the mask is seen when it is the only one: were it
\* not spawned in this frame, it would be.
LEMMA InvMoveUnseen == ASSUME Inv, MoveUnseen PROVE Inv'
<1> DEFINE size == Head(m_rx).size
<1>1. /\ platform = "linux" /\ connected /\ ~Single /\ Takes("move") /\ Answer(Head(m_rx).from)
      /\ mask_size' = size
      /\ told' = TRUE /\ blind' = (entity \in spawns)
      /\ UNCHANGED <<connected, entity, windows, spawns, despawns, pending, crashed, leaked>>
  BY DEF MoveUnseen, windowVars
<1>2. /\ platform' = platform /\ m_rx' \in Seq(Command) /\ Head(m_rx).from \in Senders
      /\ size \in Sizes
  BY <1>1, Took, HeadKind
<1> HIDE DEF size
<1>3. Room'
  BY <1>1, RoomKept
<1>4. stage' \in [Senders -> {"idle", "waiting", "on", "leaving", "gone"}]
  BY <1>1, <1>2, AnswerTyped DEF Inv
<1>5. Live' = Live
  BY <1>1 DEF Live
<1>6. TypeOK'
  <2>1. blind' \in BOOLEAN
    BY ONLY <1>1
  <2>2. QED
    BY <1>1, <1>2, <1>4, <1>5, <2>1 DEF Inv, TypeOK
<1>7. entity \in spawns \/ leaked # {}
  <2> SUFFICES ASSUME entity \notin spawns, leaked = {} PROVE FALSE
    OBVIOUS
  <2>1. entity # None /\ despawns = {} /\ Live = {entity} /\ entity \in DOMAIN windows
    BY <1>1 DEF Inv, Linux, Live
  <2>2. DOMAIN windows = {entity}
    BY <2>1 DEF Live
  <2>3. QED
    BY <1>1, <2>2, FS_Singleton DEF Single
<1>8. Linux'
  BY <1>1, <1>2, <1>5, <1>7 DEF Inv, Linux
<1>9. Elsewhere'
  BY <1>1, <1>2 DEF Elsewhere
<1>10. QED
  BY <1>3, <1>6, <1>8, <1>9 DEF Inv

\* At the end of a frame the windows there are are those that stay.
LEMMA InvEndFrame == ASSUME Inv, EndFrame PROVE Inv'
<1>1. /\ m_rx = <<>> /\ spawns \cup despawns # {}
      /\ windows' = [w \in Live |-> IF w \in DOMAIN windows THEN windows[w] ELSE NewWindow]
      /\ spawns' = {} /\ despawns' = {}
      /\ UNCHANGED <<platform, m_rx, stage, connected, entity, pending, mask_size, crashed,
                     leaked, told, blind>>
  BY DEF EndFrame, queueVars, history
<1>2. platform = "linux"
  BY <1>1 DEF Inv, Elsewhere, TypeOK
<1>3. DOMAIN windows' = Live /\ Live' = Live
  BY <1>1 DEF Live
<1>4. \A w \in Live : windows'[w] \in Window
  BY <1>1 DEF Inv, TypeOK, Window, NewWindow
<1>5. windows' \in [Live -> Window] /\ Live \subseteq Windows
  <2>1. windows' \in [Live -> Window]
    BY <1>1, <1>4
  <2>2. QED
    BY <2>1 DEF Inv, TypeOK, Live
<1>6. TypeOK'
  BY <1>1, <1>3, <1>5 DEF Inv, TypeOK
<1>7. Room'
  <2>1. Connects(m_rx)' = {}
    BY <1>1 DEF Connects
  <2>2. Free' \in SUBSET Windows
    BY DEF Free
  <2>3. Cardinality(Free') \in Nat
    BY <2>2, FreeCount
  <2>4. Cardinality(Connects(m_rx)') = 0
    BY <2>1, FS_EmptySet
  <2>5. QED
    BY <2>3, <2>4 DEF Room
<1>8. Linux'
  <2>1. connected /\ told /\ ~blind /\ leaked = {} =>
          entity \in DOMAIN windows' /\ windows'[entity] = windows[entity]
    BY <1>1, <1>2, <1>3 DEF Inv, Linux
  <2>2. QED
    BY <1>1, <1>2, <1>3, <2>1 DEF Inv, Linux
<1>9. Elsewhere'
  BY <1>1, <1>2 DEF Elsewhere
<1>10. QED
  BY <1>6, <1>7, <1>8, <1>9 DEF Inv

-----------------------------------------------------------------------------
(* Elsewhere.                                                               *)

\* A change of the device shows or hides the window.
LEMMA InvChangeOther == ASSUME Inv, ConnectOther \/ DisconnectOther PROVE Inv'
<1>1. PICK what \in {"connect", "disconnect"}, to \in BOOLEAN :
        /\ platform = "other" /\ Takes(what) /\ Answer(Head(m_rx).from)
        /\ connected' = to /\ Adjust(windows[Only].size, to)
        /\ UNCHANGED <<entity, spawns, despawns, pending, mask_size, crashed, leaked, told, blind>>
  BY DEF ConnectOther, DisconnectOther, Flag, history
<1>2. /\ platform' = platform /\ pending = None /\ m_rx' \in Seq(Command)
      /\ Head(m_rx).from \in Senders
  BY <1>1, Took, HeadKind
<1>3. DOMAIN windows = {Only} /\ windows[Only] \in Window
  BY <1>1, OnlyOne
<1>4. windows[Only].size \in Sizes \cup {"default"}
  BY <1>3 DEF Window
<1>5. /\ DOMAIN windows' = DOMAIN windows /\ windows' \in [DOMAIN windows -> Window]
      /\ \A w \in DOMAIN windows : windows'[w] = [size |-> windows[Only].size, visible |-> to]
  BY <1>1, <1>4, Adjusted DEF Inv
<1>6. stage' \in [Senders -> {"idle", "waiting", "on", "leaving", "gone"}]
  BY <1>1, <1>2, AnswerTyped DEF Inv
<1>7. Room'
  BY <1>1, <1>5, RoomKept
<1>8. Live' = Live
  BY <1>1, <1>5 DEF Live
<1>9. TypeOK'
  BY <1>1, <1>2, <1>5, <1>6, <1>8 DEF Inv, TypeOK
<1>10. Linux'
  BY <1>1, <1>2 DEF Linux
<1>11. Elsewhere'
  BY <1>1, <1>2, <1>3, <1>5 DEF Inv, Elsewhere
<1>12. QED
  BY <1>7, <1>9, <1>10, <1>11 DEF Inv

\* A hidden window is moved at once.
LEMMA InvMoveHidden == ASSUME Inv, MoveHidden PROVE Inv'
<1> DEFINE size == Head(m_rx).size
<1>1. /\ platform = "other" /\ ~windows[Only].visible
      /\ Takes("move") /\ Answer(Head(m_rx).from)
      /\ Adjust(size, FALSE) /\ mask_size' = size /\ told' = TRUE
      /\ UNCHANGED <<connected, entity, spawns, despawns, pending, crashed, leaked, blind>>
  BY DEF MoveHidden
<1>2. /\ platform' = platform /\ pending = None /\ m_rx' \in Seq(Command)
      /\ Head(m_rx).from \in Senders /\ size \in Sizes
  BY <1>1, Took, HeadKind
<1> HIDE DEF size
<1>3. DOMAIN windows = {Only} /\ windows[Only] \in Window
  BY <1>1, OnlyOne
<1>4. /\ DOMAIN windows' = DOMAIN windows /\ windows' \in [DOMAIN windows -> Window]
      /\ \A w \in DOMAIN windows : windows'[w] = [size |-> size, visible |-> FALSE]
  BY <1>1, <1>2, Adjusted DEF Inv
<1>5. stage' \in [Senders -> {"idle", "waiting", "on", "leaving", "gone"}]
  BY <1>1, <1>2, AnswerTyped DEF Inv
<1>6. Room'
  BY <1>1, <1>4, RoomKept
<1>7. Live' = Live
  BY <1>1, <1>4 DEF Live
<1>8. TypeOK'
  BY <1>1, <1>2, <1>4, <1>5, <1>7 DEF Inv, TypeOK
<1>9. Linux'
  BY <1>1, <1>2 DEF Linux
<1>10. Elsewhere'
  BY <1>1, <1>2, <1>3, <1>4 DEF Inv, Elsewhere
<1>11. QED
  BY <1>6, <1>8, <1>9, <1>10 DEF Inv

\* One that is shown, so of a connected mask, is hidden first.
LEMMA InvMoveShown == ASSUME Inv, MoveShown PROVE Inv'
<1> DEFINE new == [size |-> Head(m_rx).size, from |-> Head(m_rx).from, shrunk |-> FALSE]
<1>1. /\ platform = "other" /\ windows[Only].visible /\ Takes("move")
      /\ pending' = new /\ Adjust(windows[Only].size, FALSE)
      /\ UNCHANGED <<stage, connected, entity, spawns, despawns, mask_size, crashed, leaked, told, blind>>
  BY DEF MoveShown, history
<1>2. /\ platform' = platform /\ pending = None /\ m_rx' \in Seq(Command)
      /\ Head(m_rx).from \in Movers \cup Clients /\ Head(m_rx).size \in Sizes
  BY <1>1, Took, HeadKind
<1>3. new \in Pending /\ new # None /\ ~new.shrunk
  <2>1. new \in Pending /\ ~new.shrunk
    BY <1>2 DEF Pending
  <2>2. QED
    BY <2>1, SizesAssumption DEF Pending
<1> HIDE DEF new
<1>4. DOMAIN windows = {Only} /\ windows[Only] \in Window
  BY <1>1, OnlyOne
<1>5. windows[Only].size \in Sizes \cup {"default"}
  BY <1>4 DEF Window
<1>6. DOMAIN windows' = DOMAIN windows /\ windows' \in [DOMAIN windows -> Window]
  BY <1>1, <1>5, Adjusted DEF Inv
<1>7. Room'
  BY <1>1, <1>6, RoomKept
<1>8. Live' = Live
  BY <1>1, <1>6 DEF Live
<1>9. TypeOK'
  BY <1>1, <1>2, <1>3, <1>6, <1>8 DEF Inv, TypeOK
<1>10. Linux'
  BY <1>1, <1>2 DEF Linux
<1>11. connected
  BY <1>1, <1>2, <1>4 DEF Inv, Elsewhere
<1>12. Elsewhere'
  BY <1>1, <1>2, <1>3, <1>6, <1>11 DEF Inv, Elsewhere
<1>13. QED
  BY <1>7, <1>9, <1>10, <1>12 DEF Inv

\* In the next frame it gets its size, in the one after it is shown.
LEMMA InvResizing == ASSUME Inv, Resizing PROVE Inv'
<1>1. /\ pending # None /\ Adjust(pending.size, FALSE)
      /\ pending' = [pending EXCEPT !.shrunk = TRUE]
      /\ UNCHANGED <<platform, m_rx, stage, connected, entity, spawns, despawns, mask_size, crashed,
                     leaked, told, blind>>
  BY DEF Resizing, queueVars, history
<1>2. platform = "other" /\ pending \in Pending
  BY <1>1 DEF Inv, TypeOK, Linux
<1>3. pending' \in Pending /\ pending' # None /\ pending'.size = pending.size /\ pending.size \in Sizes
  BY <1>1, <1>2, SizesAssumption DEF Pending
<1>4. /\ DOMAIN windows' = DOMAIN windows /\ windows' \in [DOMAIN windows -> Window]
      /\ \A w \in DOMAIN windows : windows'[w] = [size |-> pending.size, visible |-> FALSE]
  BY <1>1, <1>3, Adjusted DEF Inv
<1>5. Live' = Live /\ Free' = Free /\ Connects(m_rx)' = Connects(m_rx)
  BY <1>1, <1>4 DEF Live, Free, Connects
<1>6. TypeOK'
  BY <1>1, <1>3, <1>4, <1>5 DEF Inv, TypeOK
<1>7. Room' /\ Linux'
  BY <1>1, <1>2, <1>5 DEF Inv, Room, Linux
<1>8. Elsewhere'
  <2>1. \A w \in DOMAIN windows : windows'[w].size = pending'.size
    BY <1>3, <1>4
  <2>2. /\ UNCHANGED <<connected, entity, spawns, despawns, leaked>>
        /\ connected /\ spawns = {} /\ despawns = {} /\ entity = None /\ leaked = {}
        /\ \E w \in Windows : DOMAIN windows' = {w}
    BY <1>1, <1>2, <1>4 DEF Inv, Elsewhere
  <2>3. QED
    BY <1>3, <1>4, <2>1, <2>2 DEF Elsewhere
<1>9. QED
  BY <1>6, <1>7, <1>8 DEF Inv

LEMMA InvShowing == ASSUME Inv, Showing PROVE Inv'
<1>1. /\ pending # None /\ pending.shrunk /\ Adjust(windows[Only].size, TRUE)
      /\ mask_size' = windows[Only].size /\ Answer(pending.from)
      /\ pending' = None /\ told' = TRUE
      /\ UNCHANGED <<platform, m_rx, connected, entity, spawns, despawns, crashed, leaked, blind>>
  BY DEF Showing, Shown
<1>2. platform = "other" /\ pending \in Pending
  BY <1>1 DEF Inv, TypeOK, Linux
<1>3. DOMAIN windows = {Only}
  BY <1>2, OnlyOne
<1>4. connected /\ windows[Only].size = pending.size /\ pending.size \in Sizes /\ pending.from \in Senders
  BY <1>1, <1>2, <1>3 DEF Inv, Elsewhere, Pending, Senders
<1>5. /\ DOMAIN windows' = DOMAIN windows /\ windows' \in [DOMAIN windows -> Window]
      /\ \A w \in DOMAIN windows : windows'[w] = [size |-> pending.size, visible |-> TRUE]
  BY <1>1, <1>4, Adjusted DEF Inv
<1>6. Live' = Live /\ Free' = Free /\ Connects(m_rx)' = Connects(m_rx)
  BY <1>1, <1>5 DEF Live, Free, Connects
<1>7. stage' \in [Senders -> {"idle", "waiting", "on", "leaving", "gone"}]
  BY <1>1, <1>4, AnswerTyped DEF Inv
<1>8. TypeOK'
  BY <1>1, <1>4, <1>5, <1>6, <1>7 DEF Inv, TypeOK
<1>9. Room' /\ Linux'
  BY <1>1, <1>2, <1>6 DEF Inv, Room, Linux
<1>10. Elsewhere'
  BY <1>1, <1>2, <1>3, <1>4, <1>5 DEF Inv, Elsewhere
<1>11. QED
  BY <1>8, <1>9, <1>10 DEF Inv

LEMMA InvLevel == ASSUME Inv, LevelChanges PROVE Inv'
<1>1. /\ Takes("level") /\ Answer(Head(m_rx).from)
      /\ crashed' = (stage[Head(m_rx).from] = "gone")
      /\ UNCHANGED <<connected, entity, windows, spawns, despawns, pending, mask_size,
                     leaked, told, blind>>
  BY DEF LevelChanges, windowVars, history
<1>2. platform' = platform /\ m_rx' \in Seq(Command) /\ Head(m_rx).from \in Senders
  BY <1>1, Took, HeadKind
<1>3. Room'
  BY <1>1, RoomKept
<1>4. stage' \in [Senders -> {"idle", "waiting", "on", "leaving", "gone"}]
  BY <1>1, <1>2, AnswerTyped DEF Inv
<1>5. crashed' \in BOOLEAN
  BY <1>1, Zenon
<1>6. TypeOK' /\ Linux' /\ Elsewhere'
  BY <1>1, <1>2, <1>4, <1>5 DEF Inv, TypeOK, Linux, Elsewhere, Live
<1>7. QED
  BY <1>3, <1>6 DEF Inv

-----------------------------------------------------------------------------
(* Theorems.                                                                *)

LEMMA InvNext == Inv /\ [Next]_vars => Inv'
<1> SUFFICES ASSUME Inv, [Next]_vars PROVE Inv'
  OBVIOUS
<1>1. CASE Frame
  BY <1>1, InvConnectLinux, InvDisconnectLinux, InvMoveDiscarded, InvMoveLinux, InvMoveUnseen,
     InvEndFrame, InvChangeOther, InvMoveHidden, InvMoveShown, InvResizing, InvShowing, InvLevel DEF Frame
<1>2. ASSUME NEW k \in Conns, ConnectSent(k) PROVE Inv'
  <2>1. [what |-> "connect", from |-> k] \in Command
    BY DEF Command, Change
  <2>2. QED
    BY <1>2, <2>1, InvSend DEF ConnectSent
<1>3. ASSUME NEW k \in Conns, DisconnectSent(k) PROVE Inv'
  <2>1. [what |-> "disconnect", from |-> k] \in Command
    BY DEF Command, Change
  <2>2. QED
    BY <1>3, <2>1, InvSend DEF DisconnectSent
<1>4. ASSUME NEW s \in Movers \cup Clients, MoveSent(s) PROVE Inv'
  <2>1. PICK size \in Sizes : Send([what |-> "move", from |-> s, size |-> size], "idle", "waiting")
    BY <1>4 DEF MoveSent
  <2>2. [what |-> "move", from |-> s, size |-> size] \in Command
    BY DEF Command, Move
  <2>3. QED
    BY <2>1, <2>2, InvSend
<1>5. ASSUME NEW s \in Clients, LevelSent(s) PROVE Inv'
  <2>1. [what |-> "level", from |-> s] \in Command
    BY DEF Command, Level
  <2>2. QED
    BY <1>5, <2>1, InvSend DEF LevelSent
<1>6. ASSUME NEW s \in Clients, ClientGone(s) PROVE Inv'
  BY <1>6, InvGone
<1>7. CASE UNCHANGED vars
  <2>1. UNCHANGED <<platform, m_rx, stage, connected, entity, windows, spawns, despawns, pending,
                   mask_size, crashed, leaked, told, blind>>
    BY <1>7 DEF vars, queueVars, windowVars, history
  <2>2. Live' = Live /\ Free' = Free /\ Connects(m_rx)' = Connects(m_rx)
    BY <2>1 DEF Live, Free, Connects
  <2>3. QED
    BY <2>1, <2>2 DEF Inv, TypeOK, Room, Linux, Elsewhere
<1>8. QED
  BY <1>1, <1>2, <1>3, <1>4, <1>5, <1>6, <1>7 DEF Next

THEOREM Invariance == Spec => []Inv
<1>1. Init => Inv
  BY InvInit
<1>2. Inv /\ [Next]_vars => Inv'
  BY InvNext
<1>3. QED
  BY <1>1, <1>2, PTL DEF Spec

\* The types, and that the entity the mask remembers is a window that is there
\* or is spawned in this frame (mask_command.rs:262, :279).
THEOREM TypeCorrect == Spec => []TypeOK
<1>1. Inv => TypeOK
  BY DEF Inv
<1>2. QED
  BY <1>1, Invariance, PTL

\* Between frames there is a window to see exactly while a main device is
\* connected (main.rs:71, mask_command.rs:244-290), on every platform and for
\* any number of overlapping connections.
THEOREM WindowIsThere == Spec => []WindowFollows
<1>1. Inv => WindowFollows
  <2> SUFFICES ASSUME Inv, Rest PROVE WindowFollows
    BY DEF WindowFollows
  <2>1. CASE platform = "linux"
    <3>1. Live = DOMAIN windows
      BY DEF Rest, Live
    <3>2. DOMAIN windows \ leaked = {entity} \ {None} /\ (connected <=> entity # None)
      BY <2>1, <3>1 DEF Inv, Linux
    <3>3. QED
      BY <2>1, <3>2 DEF WindowFollows
  <2>2. CASE platform = "other"
    BY <2>2 DEF Inv, Elsewhere, Rest, WindowFollows
  <2>3. QED
    BY <2>1, <2>2 DEF Inv, TypeOK
<1>2. QED
  BY <1>1, Invariance, PTL

\* A connected mask that has been told a size is seen and has the size the
\* mappings scale with (mask_command.rs:133-170, :203-241), unless it was told
\* before its window was there, or a window was leaked.
THEOREM SizeIsShown == Spec => []ShownAsTold
<1>1. Inv => ShownAsTold
  <2> SUFFICES ASSUME Inv, Rest, connected, told, ~blind, leaked = {},
                      NEW w \in DOMAIN windows
               PROVE  windows[w] = [size |-> mask_size, visible |-> TRUE]
    BY DEF ShownAsTold
  <2>1. CASE platform = "linux"
    <3>1. DOMAIN windows = {entity}
      BY <2>1 DEF Inv, Linux, Rest, Live
    <3>2. QED
      BY <2>1, <3>1 DEF Inv, Linux
  <2>2. CASE platform = "other"
    <3>1. windows[w].size = mask_size /\ windows[w].visible = TRUE /\ windows[w] \in Window
      BY <2>2 DEF Inv, TypeOK, Elsewhere, Rest, Window
    <3>2. QED
      BY <3>1 DEF Window
  <2>3. QED
    BY <2>1, <2>2 DEF Inv, TypeOK
<1>2. QED
  BY <1>1, Invariance, PTL

-----------------------------------------------------------------------------
(* Everybody who waits.                                                     *)

\* Who waits for an answer, or has left without it.
Waits == {"waiting", "leaving", "gone"}

\* They are just those with a command in the channel or a resize pending, and
\* each has one.
Served ==
  /\ \A i \in DOMAIN m_rx : stage[m_rx[i].from] \in Waits
  /\ \A i, j \in DOMAIN m_rx : m_rx[i].from = m_rx[j].from => i = j
  /\ pending # None => stage[pending.from] \in Waits /\ \A i \in DOMAIN m_rx : m_rx[i].from # pending.from
  /\ \A s \in Senders : stage[s] \in Waits => \/ \E i \in DOMAIN m_rx : m_rx[i].from = s
                                              \/ pending # None /\ pending.from = s

\* What a command that is sent leaves of the channel, and where it is.
LEMMA Sent ==
  ASSUME Inv, NEW c \in Command, NEW from \in {"idle", "on"}, NEW to, Send(c, from, to)
  PROVE  /\ stage' = [stage EXCEPT ![c.from] = to] /\ stage[c.from] = from /\ c.from \in Senders
         /\ stage \in [Senders -> {"idle", "waiting", "on", "leaving", "gone"}]
         /\ pending' = pending /\ connected' = connected
         /\ Len(m_rx) + 1 \in DOMAIN m_rx' /\ m_rx'[Len(m_rx) + 1] = c
         /\ \A i \in DOMAIN m_rx' : i \in DOMAIN m_rx \/ i = Len(m_rx) + 1
         /\ \A i \in DOMAIN m_rx :
              /\ i \in DOMAIN m_rx' /\ i # Len(m_rx) + 1
              /\ m_rx'[i] = m_rx[i] /\ m_rx[i] \in Command /\ m_rx[i].from \in Senders
<1>1. /\ m_rx' = Append(m_rx, c) /\ stage' = [stage EXCEPT ![c.from] = to] /\ stage[c.from] = from
      /\ m_rx \in Seq(Command) /\ stage \in [Senders -> {"idle", "waiting", "on", "leaving", "gone"}]
      /\ pending' = pending /\ connected' = connected
  BY DEF Send, Inv, TypeOK, windowVars
<1>2. /\ DOMAIN m_rx = 1..Len(m_rx) /\ DOMAIN m_rx' = 1..(Len(m_rx) + 1) /\ Len(m_rx) \in Nat
      /\ m_rx'[Len(m_rx) + 1] = c /\ \A i \in DOMAIN m_rx : m_rx'[i] = m_rx[i] /\ m_rx[i] \in Command
  BY <1>1
<1>3. c.from \in Senders /\ \A i \in DOMAIN m_rx : m_rx[i].from \in Senders
  BY <1>2, HeadKind
<1>4. QED
  BY <1>1, <1>2, <1>3

\* What the frame that takes the head leaves.
LEMMA TookHead ==
  ASSUME Inv, NEW what, Takes(what)
  PROVE  /\ 1 \in DOMAIN m_rx /\ Head(m_rx) = m_rx[1] /\ Head(m_rx).from \in Senders
         /\ \A i \in DOMAIN m_rx' :
              /\ i + 1 \in DOMAIN m_rx \ {1} /\ m_rx'[i] = m_rx[i + 1]
              /\ m_rx[i + 1] \in Command /\ m_rx[i + 1].from \in Senders
         /\ \A i \in DOMAIN m_rx \ {1} : \E j \in DOMAIN m_rx' : i = j + 1 /\ m_rx'[j] = m_rx[i]
         /\ \A i, j \in DOMAIN m_rx' : i + 1 = j + 1 => i = j
<1>1. m_rx \in Seq(Command) /\ m_rx # <<>> /\ m_rx' = Tail(m_rx)
  BY DEF Takes, Inv, TypeOK
<1>2. /\ DOMAIN m_rx = 1..Len(m_rx) /\ DOMAIN m_rx' = 1..(Len(m_rx) - 1) /\ Len(m_rx) \in Nat \ {0}
      /\ Head(m_rx) = m_rx[1] /\ m_rx[1] \in Command
      /\ \A i \in DOMAIN m_rx' : m_rx'[i] = m_rx[i + 1] /\ m_rx[i + 1] \in Command
  BY <1>1
<1>3. m_rx[1].from \in Senders /\ \A i \in DOMAIN m_rx' : m_rx[i + 1].from \in Senders
  BY <1>2, HeadKind
<1>4. \A i \in DOMAIN m_rx \ {1} : \E j \in DOMAIN m_rx' : i = j + 1 /\ m_rx'[j] = m_rx[i]
  <2> SUFFICES ASSUME NEW i \in DOMAIN m_rx \ {1}
               PROVE  \E j \in DOMAIN m_rx' : i = j + 1 /\ m_rx'[j] = m_rx[i]
    OBVIOUS
  <2>1. i - 1 \in DOMAIN m_rx' /\ i = (i - 1) + 1
    BY <1>2
  <2>2. m_rx'[i - 1] = m_rx[i]
    BY <1>2, <2>1
  <2>3. QED
    BY <2>1, <2>2
<1>5. QED
  BY <1>2, <1>3, <1>4

\* Who sends was owed nothing, and so had no command anywhere.
LEMMA ServedSend ==
  ASSUME Inv, Served, NEW c \in Command, NEW from \in {"idle", "on"},
         NEW to \in {"waiting", "leaving"}, Send(c, from, to)
  PROVE  Served'
<1>1. /\ stage'[c.from] \in Waits /\ stage[c.from] \notin Waits /\ c.from \in Senders
      /\ \A s \in Senders \ {c.from} : stage'[s] = stage[s]
  BY Sent DEF Waits
<1>2. \A i \in DOMAIN m_rx : m_rx[i].from # c.from
  BY <1>1 DEF Served
<1>3. pending # None => pending.from # c.from /\ pending.from \in Senders
  BY <1>1 DEF Served, Inv, TypeOK, Pending, Senders
<1>4. \A i \in DOMAIN m_rx' : stage'[m_rx'[i].from] \in Waits
  BY <1>1, <1>2, Sent DEF Served
<1>5. \A i, j \in DOMAIN m_rx' : m_rx'[i].from = m_rx'[j].from => i = j
  BY <1>2, Sent DEF Served
<1>6. pending' # None => stage'[pending'.from] \in Waits /\ \A i \in DOMAIN m_rx' : m_rx'[i].from # pending'.from
  BY <1>1, <1>3, Sent DEF Served
<1>7. \A s \in Senders : stage'[s] \in Waits => \/ \E i \in DOMAIN m_rx' : m_rx'[i].from = s
                                                \/ pending' # None /\ pending'.from = s
  BY <1>1, Sent DEF Served
<1>8. QED
  BY <1>4, <1>5, <1>6, <1>7 DEF Served

\* The command that is taken is answered, or becomes the pending resize.
LEMMA ServedTake ==
  ASSUME Inv, Served, NEW what, Takes(what),
         \/ pending' = None /\ Answer(Head(m_rx).from)
         \/ pending' # None /\ pending'.from = Head(m_rx).from /\ stage' = stage
  PROVE  Served'
<1> DEFINE h == Head(m_rx).from
<1>1. pending = None /\ h \in Senders /\ h = m_rx[1].from /\ 1 \in DOMAIN m_rx
  BY Took, TookHead
<1>2. \A i \in DOMAIN m_rx \ {1} : m_rx[i].from # h
  BY <1>1 DEF Served
<1>3. /\ \A s \in Senders \ {h} : stage'[s] = stage[s]
      /\ pending' = None => stage'[h] \notin Waits
      /\ pending' # None => pending'.from = h /\ stage'[h] \in Waits
  <2>1. CASE pending' = None /\ Answer(h)
    <3>1. stage' = [stage EXCEPT ![h] = Answered(h)] /\ Answered(h) \in {"on", "idle"}
      BY <2>1 DEF Answer, Answered
    <3>2. QED
      BY <1>1, <2>1, <3>1 DEF Inv, TypeOK, Waits
  <2>2. CASE pending' # None /\ pending'.from = h /\ stage' = stage
    BY <1>1, <2>2 DEF Served
  <2>3. QED
    BY <2>1, <2>2
<1> HIDE DEF h
<1>4. \A i \in DOMAIN m_rx' : m_rx'[i].from # h /\ m_rx'[i].from \in Senders
  BY <1>2, TookHead
<1>5. \A i \in DOMAIN m_rx' : stage'[m_rx'[i].from] \in Waits
  <2> SUFFICES ASSUME NEW i \in DOMAIN m_rx' PROVE stage'[m_rx'[i].from] \in Waits
    OBVIOUS
  <2>1. i + 1 \in DOMAIN m_rx /\ m_rx'[i] = m_rx[i + 1]
    BY TookHead
  <2>2. stage[m_rx'[i].from] \in Waits
    BY <2>1 DEF Served
  <2>3. QED
    BY <1>3, <1>4, <2>2
<1>6. \A i, j \in DOMAIN m_rx' : m_rx'[i].from = m_rx'[j].from => i = j
  BY TookHead DEF Served
<1>7. pending' # None => stage'[pending'.from] \in Waits /\ \A i \in DOMAIN m_rx' : m_rx'[i].from # pending'.from
  BY <1>3, <1>4
<1>8. \A s \in Senders : stage'[s] \in Waits => \/ \E i \in DOMAIN m_rx' : m_rx'[i].from = s
                                                \/ pending' # None /\ pending'.from = s
  <2> SUFFICES ASSUME NEW s \in Senders, stage'[s] \in Waits
               PROVE  \/ \E i \in DOMAIN m_rx' : m_rx'[i].from = s
                      \/ pending' # None /\ pending'.from = s
    OBVIOUS
  <2>1. CASE s = h
    BY <1>3, <2>1
  <2>2. CASE s # h
    <3>1. PICK i \in DOMAIN m_rx : m_rx[i].from = s
      BY <1>1, <1>3, <2>2 DEF Served
    <3>2. i # 1
      BY <1>1, <2>2, <3>1
    <3>3. QED
      BY <3>1, <3>2, TookHead
  <2>3. QED
    BY <2>1, <2>2
<1>9. QED
  BY <1>5, <1>6, <1>7, <1>8 DEF Served

\* Where the channel stays as it is, and who waits too.
LEMMA ServedFrame ==
  ASSUME Inv, Served, m_rx' = m_rx, \A s \in Senders : stage'[s] \in Waits <=> stage[s] \in Waits,
         pending' = pending \/ (pending # None /\ pending' # None /\ pending'.from = pending.from)
  PROVE  Served'
<1>1. /\ \A i \in DOMAIN m_rx : m_rx[i].from \in Senders
      /\ pending # None => pending.from \in Senders
  BY HeadKind DEF Inv, TypeOK, Pending, Senders
<1>2. QED
  BY <1>1 DEF Served

\* The pending resize is over, and answered.
LEMMA ServedShowing == ASSUME Inv, Served, Showing PROVE Served'
<1> DEFINE p == pending.from
<1>1. /\ m_rx' = m_rx /\ pending # None /\ pending' = None
      /\ stage' = [stage EXCEPT ![p] = Answered(p)] /\ Answered(p) \in {"on", "idle"}
  BY DEF Showing, Shown, Answer, Answered
<1>2. p \in Senders /\ \A i \in DOMAIN m_rx : m_rx[i].from # p /\ m_rx[i].from \in Senders
  BY <1>1, HeadKind DEF Served, Inv, TypeOK, Pending, Senders
<1>3. stage'[p] \notin Waits /\ \A s \in Senders \ {p} : stage'[s] = stage[s]
  BY <1>1, <1>2 DEF Inv, TypeOK, Waits
<1> HIDE DEF p
<1>4. \A s \in Senders : stage'[s] \in Waits => \E i \in DOMAIN m_rx : m_rx[i].from = s
  BY <1>3 DEF Served, p
<1>5. QED
  BY <1>1, <1>2, <1>3, <1>4 DEF Served

LEMMA ServedNext == ASSUME Inv, Served, [Next]_vars PROVE Served'
<1>1. CASE ConnectLinux \/ ConnectOther \/ DisconnectLinux \/ DisconnectOther
  BY <1>1, ServedTake, Took
     DEF ConnectLinux, ConnectOther, DisconnectLinux, DisconnectOther
<1>2. CASE MoveDiscarded \/ MoveLinux \/ MoveUnseen \/ MoveHidden \/ LevelChanges
  BY <1>2, ServedTake, Took
     DEF MoveDiscarded, MoveLinux, MoveUnseen, MoveHidden, LevelChanges
<1>3. CASE MoveShown
  <2> DEFINE new == [size |-> Head(m_rx).size, from |-> Head(m_rx).from, shrunk |-> FALSE]
  <2>1. Takes("move") /\ pending' = new /\ stage' = stage /\ new.from = Head(m_rx).from
    BY <1>3 DEF MoveShown
  <2>2. Head(m_rx).from \in Movers \cup Clients /\ Head(m_rx).size \in Sizes
    BY <2>1, Took, HeadKind
  <2>3. new # None
    <3>1. new \in [size : Sizes, from : Movers \cup Clients, shrunk : BOOLEAN]
      BY <2>2
    <3>2. QED
      BY <3>1, SizesAssumption
  <2> HIDE DEF new
  <2>4. QED
    BY <2>1, <2>3, ServedTake
<1>4. CASE Resizing
  <2>1. /\ m_rx' = m_rx /\ stage' = stage /\ pending # None
        /\ pending' = [pending EXCEPT !.shrunk = TRUE]
    BY <1>4 DEF Resizing, queueVars
  <2>2. pending' \in Pending /\ pending'.from = pending.from
    BY <2>1 DEF Inv, TypeOK, Pending
  <2>3. pending' # None
    BY <2>2, SizesAssumption DEF Pending
  <2>4. QED
    BY <2>1, <2>2, <2>3, ServedFrame
<1>5. CASE Showing
  BY <1>5, ServedShowing
<1>6. CASE EndFrame \/ UNCHANGED vars
  <2>1. m_rx' = m_rx /\ stage' = stage /\ pending' = pending
    BY <1>6 DEF EndFrame, queueVars, vars
  <2>2. QED
    BY <2>1, ServedFrame
<1>7. ASSUME NEW k \in Conns, ConnectSent(k) \/ DisconnectSent(k) PROVE Served'
  <2>1. [what |-> "connect", from |-> k] \in Command /\ [what |-> "disconnect", from |-> k] \in Command
    BY DEF Command, Change
  <2>2. QED
    BY <1>7, <2>1, ServedSend DEF ConnectSent, DisconnectSent
<1>8. ASSUME NEW s \in Movers \cup Clients, MoveSent(s) PROVE Served'
  <2>1. PICK size \in Sizes : Send([what |-> "move", from |-> s, size |-> size], "idle", "waiting")
    BY <1>8 DEF MoveSent
  <2>2. [what |-> "move", from |-> s, size |-> size] \in Command
    BY DEF Command, Move
  <2>3. QED
    BY <2>1, <2>2, ServedSend
<1>9. ASSUME NEW s \in Clients, LevelSent(s) PROVE Served'
  <2>1. [what |-> "level", from |-> s] \in Command
    BY DEF Command, Level
  <2>2. QED
    BY <1>9, <2>1, ServedSend DEF LevelSent
<1>10. ASSUME NEW s \in Clients, ClientGone(s) PROVE Served'
  <2>1. /\ m_rx' = m_rx /\ pending' = pending
        /\ \A x \in Senders : stage'[x] \in Waits <=> stage[x] \in Waits
    BY <1>10 DEF ClientGone, Inv, TypeOK, Senders, Waits
  <2>2. QED
    BY <2>1, ServedFrame
<1>11. QED
  BY <1>1, <1>2, <1>3, <1>4, <1>5, <1>6, <1>7, <1>8, <1>9, <1>10 DEF Next, Frame

\* Everybody who waits for the mask has exactly one command it has yet to
\* answer, in the channel or as the pending resize, and nobody else has any: no
\* answer is lost, and none is sent twice (mask_command.rs:116-120, :94-113).
THEOREM NobodyForgotten == Spec => []Served
<1>1. Init => Served
  BY DEF Init, Served, Waits, Senders
<1>2. QED
  BY <1>1, ServedNext, Invariance, PTL DEF Spec

-----------------------------------------------------------------------------
(* The protocol with the connections.                                       *)

IsChange(c) == c.what \in {"connect", "disconnect"}
Awaits      == [connect |-> "waiting", disconnect |-> "leaving"]

\* A change that is queued is the one its sender waits for, and a connection
\* does not leave without its answer as a client does.
Owed ==
  /\ \A k \in Conns : stage[k] # "gone"
  /\ \A i \in DOMAIN m_rx : IsChange(m_rx[i]) => stage[m_rx[i].from] = Awaits[m_rx[i].what]

\* A connection is never a mover or a client.
LEMMA FromConns ==
  ASSUME NEW c \in Command
  PROVE  c.from \in Senders /\ (IsChange(c) <=> c.from \in Conns)
BY SendersAssumption DEF Command, Change, Move, Level, Senders, IsChange

LEMMA OwedSend ==
  ASSUME Inv, Served, Owed, NEW c \in Command, NEW from \in {"idle", "on"},
         NEW to \in {"waiting", "leaving"}, Send(c, from, to), IsChange(c) => to = Awaits[c.what]
  PROVE  Owed'
<1>1. \A i \in DOMAIN m_rx : m_rx[i].from # c.from
  BY Sent DEF Served, Waits
<1>2. \A s \in Senders \ {c.from} : stage'[s] = stage[s]
  BY Sent
<1>3. stage'[c.from] = to
  BY Sent
<1>4. \A i \in DOMAIN m_rx' : IsChange(m_rx'[i]) => stage'[m_rx'[i].from] = Awaits[m_rx'[i].what]
  BY <1>1, <1>2, <1>3, Sent DEF Owed
<1>5. \A k \in Conns : stage'[k] # "gone"
  BY <1>2, <1>3 DEF Owed, Senders
<1>6. QED
  BY <1>4, <1>5 DEF Owed

\* The command that is taken may be answered, or one that is no change.
LEMMA OwedTake ==
  ASSUME Inv, Served, Owed, NEW what, Takes(what),
         \A k \in Conns : \/ stage'[k] = stage[k]
                          \/ k = Head(m_rx).from /\ stage'[k] # "gone"
  PROVE  Owed'
<1>1. ASSUME NEW i \in DOMAIN m_rx', IsChange(m_rx'[i])
      PROVE  stage'[m_rx'[i].from] = Awaits[m_rx'[i].what]
  <2>1. /\ i + 1 \in DOMAIN m_rx /\ i + 1 # 1 /\ 1 \in DOMAIN m_rx /\ Head(m_rx) = m_rx[1]
        /\ m_rx[i + 1] \in Command /\ m_rx'[i] = m_rx[i + 1]
    BY TookHead
  <2>2. m_rx[1].from # m_rx[i + 1].from
    BY <2>1 DEF Served
  <2>3. m_rx[i + 1].from \in Conns
    BY <1>1, <2>1, FromConns
  <2>4. stage'[m_rx[i + 1].from] = stage[m_rx[i + 1].from]
    BY <2>1, <2>2, <2>3
  <2>5. QED
    BY <1>1, <2>1, <2>4 DEF Owed
<1>2. \A k \in Conns : stage'[k] # "gone"
  BY DEF Owed
<1>3. QED
  BY <1>1, <1>2 DEF Owed

StandsAll == [k \in Conns |-> Standing[stage[k]]]

LEMMA StandsKnown ==
  /\ Standing["idle"] = "away" /\ Standing["waiting"] = "telling"
  /\ Standing["on"] = "on" /\ Standing["leaving"] = "parting"
BY DEF Standing

\* A step that moves one connection moves it in the protocol.
LEMMA StandsMoves ==
  ASSUME TypeOK, NEW k \in Conns, NEW to \in {"idle", "waiting", "on", "leaving"},
         stage' = [stage EXCEPT ![k] = to]
  PROVE  StandsAll' = [StandsAll EXCEPT ![k] = Standing[to]] /\ StandsAll[k] = Standing[stage[k]]
BY DEF TypeOK, StandsAll, Senders

\* One that moves none, and leaves the mask as it is, is none of the protocol.
LEMMA ProtocolFrame ==
  ASSUME connected' = connected, \A k \in Conns : stage'[k] = stage[k]
  PROVE  UNCHANGED Protocol!vars
BY DEF Protocol!vars

\* An answer to a mover or a client is not seen by the connections.
LEMMA AnswerElsewhere ==
  ASSUME TypeOK, NEW s \in Senders, Answer(s), s \notin Conns
  PROVE  \A k \in Conns : stage'[k] = stage[k]
BY DEF TypeOK, Answer

\* The mask takes a change: its sender waits for it, and is answered.
LEMMA TakesChange ==
  ASSUME Inv, Served, Owed, NEW what \in {"connect", "disconnect"}, Takes(what), Answer(Head(m_rx).from)
  PROVE  /\ Owed' /\ Head(m_rx).from \in Conns /\ stage[Head(m_rx).from] = Awaits[what]
         /\ stage' = [stage EXCEPT ![Head(m_rx).from] = IF what = "connect" THEN "on" ELSE "idle"]
<1>1. Head(m_rx) \in Command /\ Head(m_rx).what = what /\ IsChange(Head(m_rx))
  BY Took DEF IsChange
<1>2. Head(m_rx).from \in Conns
  BY <1>1, FromConns
<1>3. Head(m_rx) = m_rx[1] /\ 1 \in DOMAIN m_rx
  <2>1. m_rx \in Seq(Command) /\ m_rx # <<>>
    BY DEF Takes, Inv, TypeOK
  <2>2. QED
    BY <2>1
<1>4. stage[Head(m_rx).from] = Awaits[what]
  BY <1>1, <1>3 DEF Owed
<1>5. stage' = [stage EXCEPT ![Head(m_rx).from] = IF what = "connect" THEN "on" ELSE "idle"]
  <2>1. Answered(Head(m_rx).from) = IF stage[Head(m_rx).from] = "waiting" THEN "on" ELSE "idle"
    BY <1>2 DEF Answered
  <2>2. Awaits[what] = "waiting" <=> what = "connect"
    BY DEF Awaits
  <2>3. Answered(Head(m_rx).from) = IF what = "connect" THEN "on" ELSE "idle"
    BY <1>4, <2>1, <2>2
  <2>4. QED
    BY <2>3 DEF Answer
<1>6. \A k \in Conns : \/ stage'[k] = stage[k]
                       \/ k = Head(m_rx).from /\ stage'[k] # "gone"
  <2>1. stage \in [Senders -> {"idle", "waiting", "on", "leaving", "gone"}] /\ Conns \subseteq Senders
    BY DEF Inv, TypeOK, Senders
  <2> DEFINE s == Head(m_rx).from
  <2>2. stage'[s] # "gone" /\ \A k \in Conns \ {s} : stage'[k] = stage[k]
    BY <1>2, <1>5, <2>1
  <2>3. QED
    BY <1>1, <2>2
<1>7. QED
  BY <1>2, <1>4, <1>5, <1>6, OwedTake

LEMMA ProtocolConnect ==
  ASSUME Inv, Served, Owed, ConnectLinux \/ ConnectOther
  PROVE  Owed' /\ Protocol!Next
<1>1. Takes("connect") /\ Answer(Head(m_rx).from) /\ connected' = TRUE
  BY DEF ConnectLinux, ConnectOther
<1>2. PICK k \in Conns : stage[k] = "waiting" /\ stage' = [stage EXCEPT ![k] = "on"]
  BY <1>1, TakesChange DEF Awaits
<1>3. StandsAll[k] = "telling" /\ StandsAll' = [StandsAll EXCEPT ![k] = "on"]
  BY <1>2, StandsMoves, StandsKnown DEF Inv
<1>4. Protocol!Connected(k)
  BY <1>1, <1>3 DEF Protocol!Connected, Protocol!Moves, StandsAll
<1>5. QED
  BY <1>1, <1>4, TakesChange DEF Protocol!Next

LEMMA ProtocolDisconnect ==
  ASSUME Inv, Served, Owed, DisconnectLinux \/ DisconnectOther
  PROVE  Owed' /\ Protocol!Next
<1>1. Takes("disconnect") /\ Answer(Head(m_rx).from) /\ connected' = FALSE
  BY DEF DisconnectLinux, DisconnectOther, Flag
<1>2. PICK k \in Conns : stage[k] = "leaving" /\ stage' = [stage EXCEPT ![k] = "idle"]
  BY <1>1, TakesChange DEF Awaits
<1>3. StandsAll[k] = "parting" /\ StandsAll' = [StandsAll EXCEPT ![k] = "away"]
  BY <1>2, StandsMoves, StandsKnown DEF Inv
<1>4. Protocol!Disconnected(k)
  BY <1>1, <1>3 DEF Protocol!Disconnected, Protocol!Moves, StandsAll
<1>5. QED
  BY <1>1, <1>4, TakesChange DEF Protocol!Next

\* A WinMove or a level is answered, now or frames later, to one who is no
\* connection, and does not touch what the mask shows.
LEMMA ProtocolOther ==
  ASSUME Inv, Served, Owed, NEW what \in {"move", "level"}, Takes(what), connected' = connected,
         stage' = stage \/ Answer(Head(m_rx).from)
  PROVE  Owed' /\ UNCHANGED Protocol!vars
<1>1. Head(m_rx) \in Command /\ ~IsChange(Head(m_rx))
  BY Took DEF IsChange
<1>2. Head(m_rx).from \in Senders \ Conns
  BY <1>1, FromConns
<1>3. \A k \in Conns : stage'[k] = stage[k]
  BY <1>2, AnswerElsewhere DEF Inv
<1>4. Owed'
  BY <1>3, OwedTake
<1>5. QED
  BY <1>3, <1>4, ProtocolFrame

LEMMA OwedFrame ==
  ASSUME Inv, Owed, m_rx' = m_rx, \A k \in Conns : stage'[k] = stage[k]
  PROVE  Owed'
<1>1. \A i \in DOMAIN m_rx : m_rx[i] \in Command
  BY DEF Inv, TypeOK
<1>2. \A i \in DOMAIN m_rx : IsChange(m_rx[i]) => stage'[m_rx[i].from] = Awaits[m_rx[i].what]
  BY <1>1, FromConns DEF Owed
<1>3. QED
  BY <1>2 DEF Owed

\* A step of the mask's frame.
LEMMA FrameStep == ASSUME Inv, Served, Owed, Frame PROVE Owed' /\ [Protocol!Next]_(Protocol!vars)
<1>1. CASE ConnectLinux \/ ConnectOther
  BY <1>1, ProtocolConnect
<1>2. CASE DisconnectLinux \/ DisconnectOther
  BY <1>2, ProtocolDisconnect
<1>3. CASE MoveDiscarded \/ MoveLinux \/ MoveUnseen \/ MoveHidden \/ MoveShown
  <2>1. Takes("move") /\ connected' = connected /\ (stage' = stage \/ Answer(Head(m_rx).from))
    BY <1>3 DEF MoveDiscarded, MoveLinux, MoveUnseen, MoveHidden, MoveShown, windowVars
  <2>2. QED
    BY <2>1, ProtocolOther
<1>4. CASE LevelChanges
  <2>1. Takes("level") /\ connected' = connected /\ Answer(Head(m_rx).from)
    BY <1>4 DEF LevelChanges, windowVars
  <2>2. QED
    BY <2>1, ProtocolOther
<1>5. CASE Showing
  <2>1. m_rx' = m_rx /\ connected' = connected /\ pending # None /\ Answer(pending.from)
    BY <1>5 DEF Showing
  <2>2. pending.from \in Senders \ Conns
    BY <2>1, SendersAssumption DEF Inv, TypeOK, Pending, Senders
  <2>3. \A k \in Conns : stage'[k] = stage[k]
    BY <2>1, <2>2, AnswerElsewhere DEF Inv
  <2>4. QED
    BY <2>1, <2>3, OwedFrame, ProtocolFrame
<1>6. CASE Resizing \/ EndFrame
  <2>1. m_rx' = m_rx /\ stage' = stage /\ connected' = connected
    BY <1>6 DEF Resizing, EndFrame, queueVars
  <2>2. QED
    BY <2>1, OwedFrame, ProtocolFrame
<1>7. QED
  BY <1>1, <1>2, <1>3, <1>4, <1>5, <1>6 DEF Frame

\* A step of those who send.
LEMMA SendStep ==
  ASSUME Inv, Served, Owed, NEW c \in Command, NEW from \in {"idle", "on"}, NEW to \in {"waiting", "leaving"},
         Send(c, from, to),
         IF IsChange(c) THEN to = Awaits[c.what] /\ (from = "idle" <=> c.what = "connect") ELSE TRUE
  PROVE  Owed' /\ [Protocol!Next]_(Protocol!vars)
<1>1. Owed'
  BY OwedSend
<1>2. /\ connected' = connected /\ stage[c.from] = from /\ stage' = [stage EXCEPT ![c.from] = to]
      /\ stage \in [Senders -> {"idle", "waiting", "on", "leaving", "gone"}]
  BY DEF Send, windowVars, Inv, TypeOK
<1>3. CASE IsChange(c)
  <2>1. PICK k \in Conns : c.from = k
    BY <1>3, FromConns
  <2>2. StandsAll' = [StandsAll EXCEPT ![k] = Standing[to]] /\ StandsAll[k] = Standing[from]
    BY <1>2, <2>1, StandsMoves DEF Inv
  <2>3. CASE from = "idle"
    <3>1. to = "waiting"
      BY <1>3, <2>3 DEF Awaits
    <3>2. Protocol!Tells(k)
      BY <1>2, <2>2, <2>3, <3>1 DEF Protocol!Tells, Protocol!Moves, StandsAll, Standing
    <3>3. QED
      BY <1>1, <3>2 DEF Protocol!Next
  <2>4. CASE from = "on"
    <3>1. to = "leaving"
      BY <1>3, <2>4 DEF IsChange, Awaits
    <3>2. Protocol!Parts(k)
      BY <1>2, <2>2, <2>4, <3>1 DEF Protocol!Parts, Protocol!Moves, StandsAll, Standing
    <3>3. QED
      BY <1>1, <3>2 DEF Protocol!Next
  <2>5. QED
    BY <2>3, <2>4
<1>4. CASE ~IsChange(c)
  <2>1. \A k \in Conns : stage'[k] = stage[k]
    BY <1>2, <1>4, FromConns
  <2>2. QED
    BY <1>1, <1>2, <2>1, ProtocolFrame
<1>5. QED
  BY <1>3, <1>4

LEMMA ProtocolStep == ASSUME Inv, Served, Owed, [Next]_vars PROVE Owed' /\ [Protocol!Next]_(Protocol!vars)
<1>1. CASE Frame
  BY <1>1, FrameStep
<1>2. ASSUME NEW k \in Conns, ConnectSent(k) \/ DisconnectSent(k)
      PROVE  Owed' /\ [Protocol!Next]_(Protocol!vars)
  <2>1. [what |-> "connect", from |-> k] \in Command /\ [what |-> "disconnect", from |-> k] \in Command
    BY DEF Command, Change
  <2>2. QED
    BY <1>2, <2>1, SendStep DEF ConnectSent, DisconnectSent, Awaits
<1>3. ASSUME NEW s \in Movers \cup Clients, MoveSent(s)
      PROVE  Owed' /\ [Protocol!Next]_(Protocol!vars)
  <2>1. PICK size \in Sizes : Send([what |-> "move", from |-> s, size |-> size], "idle", "waiting")
    BY <1>3 DEF MoveSent
  <2>2. [what |-> "move", from |-> s, size |-> size] \in Command
    BY DEF Command, Move
  <2>3. QED
    BY <2>1, <2>2, SendStep DEF IsChange
<1>4. ASSUME NEW s \in Clients, LevelSent(s)
      PROVE  Owed' /\ [Protocol!Next]_(Protocol!vars)
  <2>1. [what |-> "level", from |-> s] \in Command
    BY DEF Command, Level
  <2>2. QED
    BY <1>4, <2>1, SendStep DEF LevelSent, IsChange
<1>5. ASSUME NEW s \in Clients, ClientGone(s)
      PROVE  Owed' /\ [Protocol!Next]_(Protocol!vars)
  <2>1. m_rx' = m_rx /\ connected' = connected /\ \A k \in Conns : stage'[k] = stage[k]
    BY <1>5, SendersAssumption DEF ClientGone, windowVars, Inv, TypeOK, Senders
  <2>2. QED
    BY <2>1, OwedFrame, ProtocolFrame
<1>6. CASE UNCHANGED vars
  <2>1. m_rx' = m_rx /\ stage' = stage /\ connected' = connected
    BY <1>6 DEF vars, queueVars, windowVars
  <2>2. QED
    BY <2>1, OwedFrame, ProtocolFrame
<1>7. QED
  BY <1>1, <1>2, <1>3, <1>4, <1>5, <1>6 DEF Next

\* A change of the device is one its sender waits for until the mask answers
\* it, whatever else is queued (connection.rs:291-321).
THEOREM ChangesOwed == Spec => []Owed
<1>1. Init => Owed
  BY DEF Init, Owed, Senders
<1>2. QED
  BY <1>1, ProtocolStep, Invariance, NobodyForgotten, PTL DEF Spec

\* The mask implements its side of the protocol with the main connections: it
\* answers each change once, in a state where its sender waits for just that,
\* and shows what the change it answered last says, for any senders and sizes,
\* whatever moves, resizes and frames come in between (mask_command.rs:224-293).
THEOREM ProtocolKept == Spec => ImplementsProtocol
<1>1. Init => Protocol!Init
  BY DEF Init, Protocol!Init, Standing, Senders
<1>2. QED
  BY <1>1, ProtocolStep, Invariance, NobodyForgotten, ChangesOwed, PTL DEF Spec, ImplementsProtocol, Protocol!Spec

\* The mask shows a device only while a main connection is served or has yet to
\* have its end answered: an overlapping one that ends first turns it off, and
\* never leaves it on behind the last (mask_command.rs:271-293).
ShownBacked == connected => \E k \in Conns : stage[k] \in {"on", "leaving"}

THEOREM ShownIsBacked == Spec => []ShownBacked
<1>1. Init => ShownBacked
  BY DEF Init, ShownBacked
<1>2. ASSUME Inv, Served, Owed, ShownBacked, [Next]_vars PROVE ShownBacked'
  <2>1. /\ \A k \in Conns : stage[k] \in {"on", "leaving"} <=> StandsAll[k] \in {"on", "parting"}
        /\ \A k \in Conns : stage'[k] \in {"on", "leaving"} <=> StandsAll'[k] \in {"on", "parting"}
    <3>1. \A k \in Conns : {stage[k], stage'[k]} \subseteq {"idle", "waiting", "on", "leaving"}
      BY <1>2, InvNext, ProtocolStep DEF Inv, TypeOK, Owed, Senders
    <3>2. QED
      BY <3>1, StandsKnown DEF StandsAll
  <2>2. (connected => \E k \in Conns : StandsAll[k] \in {"on", "parting"})
    BY <1>2, <2>1 DEF ShownBacked
  <2>3. CASE UNCHANGED Protocol!vars
    <3>1. connected' = connected /\ StandsAll' = StandsAll
      BY <2>3 DEF Protocol!vars, StandsAll
    <3>2. QED
      BY <2>1, <2>2, <3>1 DEF ShownBacked
  <2>4. ASSUME NEW k \in Conns, Protocol!Tells(k) \/ Protocol!Parts(k) \/ Protocol!Connected(k)
        PROVE  ShownBacked'
    <3>1. PICK from \in {"away", "on", "telling"}, to \in {"telling", "parting", "on"} :
            /\ StandsAll[k] = from /\ StandsAll' = [StandsAll EXCEPT ![k] = to]
            /\ to = "telling" => from = "away" /\ connected' = connected
            /\ to = "parting" => connected' = connected
      BY <2>4 DEF Protocol!Tells, Protocol!Parts, Protocol!Connected, Protocol!Moves, StandsAll
    <3>2. StandsAll'[k] = to /\ \A x \in Conns \ {k} : StandsAll'[x] = StandsAll[x]
      BY <3>1 DEF StandsAll
    <3>3. CASE to = "telling"
      BY <2>1, <2>2, <3>1, <3>2, <3>3 DEF ShownBacked
    <3>4. CASE to \in {"on", "parting"}
      BY <2>1, <3>2, <3>4 DEF ShownBacked
    <3>5. QED
      BY <3>1, <3>3, <3>4
  <2>5. ASSUME NEW k \in Conns, Protocol!Disconnected(k) PROVE ShownBacked'
    BY <2>5 DEF Protocol!Disconnected, ShownBacked
  <2>6. QED
    BY <1>2, <2>3, <2>4, <2>5, ProtocolStep DEF Protocol!Next
<1>3. QED
  BY <1>1, <1>2, Invariance, NobodyForgotten, ChangesOwed, PTL DEF Spec

=============================================================================
