---------------------------- MODULE MappingFilesProofs ------------------------
(***************************************************************************)
(* Theorems of MappingFiles: types, the mapping in use and its file, the   *)
(* configuration and the active mapping, config.json and the               *)
(* configuration, what a restart keeps, and the commands that are queued.  *)
(***************************************************************************)
EXTENDS MappingFiles, TLAPS

-----------------------------------------------------------------------------
(* Types.                                                                   *)

\* First yields a step.
LEMMA FirstType == ASSUME NEW op \in Handlers PROVE First(op) \in Steps
BY DEF First, Handlers, Steps, Asking

\* What an overlapping write leaves in a mapping file, or in config.json.
LEMMA WrittenType == ASSUME NEW old, NEW new PROVE Written(old, new) \subseteq {new, Broken}
BY DEF Written

LEMMA TypeInit == Init => TypeOK
<1> SUFFICES ASSUME Init PROVE TypeOK  OBVIOUS
<1> USE OpsAssumption, NamesAssumption, ContentAssumption
<1>1. files \in [Names -> Content] /\ active \in Names /\ loaded \in Content \ Bad
  <2>1. \A n \in Names : n \in Content \ Bad
    BY DEF Content
  <2>2. Absent \in Content
    BY DEF Content, Bad
  <2>3. QED
    BY <2>1, <2>2 DEF Init
<1>2. config \in Config /\ saved \in Config \cup Bad
  BY <1>1 DEF Init, Config
<1>3. job \in [Requests -> [op : Handlers, file : Names, to : Names]]
  BY <1>1 DEF Init, Handlers
<1>4. data \in [Requests -> Content \ {Absent}]
  BY DEF Init, Content, Bad
<1>5. /\ pc \in [Requests -> Steps] /\ at \in [Requests -> Names \cup {None}]
      /\ snap \in [Requests -> Config] /\ queue \in Seq(Requests)
  BY <1>2 DEF Init, Steps
<1>6. stale \in BOOLEAN /\ raced \in BOOLEAN /\ mixed \in BOOLEAN
  BY Zenon DEF Init
<1>7. restarts \in 0..MaxRestarts
  BY DEF Init
<1>8. QED
  BY <1>1, <1>2, <1>3, <1>4, <1>5, <1>6, <1>7 DEF TypeOK

LEMMA TypeArrive ==
  ASSUME TypeOK, NEW r \in Requests, Arrive(r) PROVE TypeOK'
<1> USE OpsAssumption
<1>1. PICK op \in Ops, f \in Names, t \in Names :
        /\ job' = [job EXCEPT ![r] = [op |-> op, file |-> f, to |-> t]]
        /\ Go(r, First(op))
  BY DEF Arrive
<1>2. First(op) \in Steps
  BY FirstType
<1>3. QED
  BY <1>1, <1>2 DEF Arrive, TypeOK, Go, diskVars, mainVars, confVars, writeVars

LEMMA TypeHandler ==
  ASSUME TypeOK, NEW r \in Requests, Handler(r) PROVE TypeOK'
<1> USE ContentAssumption
<1> USE DEF TypeOK, Go, diskVars, mainVars, confVars, writeVars
<1>1. CASE Check(r)
  BY <1>1 DEF Check, Steps, Asking
<1>2. CASE Ask(r)
  BY <1>2 DEF Ask
<1>3. CASE Read(r)
  BY <1>3 DEF Read, Steps, Asking
<1>4. CASE Create(r)
  <2>1. CASE Source(r) = Absent
    BY <1>4, <2>1 DEF Create, Steps
  <2>2. CASE Source(r) # Absent
    <3>1. Empty \in Content /\ Source(r) \in Content /\ Target(r) \in Names
      BY DEF Source, Target, File, Op, Content, Bad
    <3>2. /\ files' = [files EXCEPT ![Target(r)] = Empty]
          /\ at' = [at EXCEPT ![r] = Target(r)]
          /\ data' = [data EXCEPT ![r] = Source(r)]
      BY <1>4, <2>2 DEF Create
    <3>3. pc' \in [Requests -> Steps] /\ stale' \in BOOLEAN
      BY <1>4, <2>2 DEF Create, Steps, Blind
    <3>4. data' \in [Requests -> Content \ {Absent}]
      BY <2>2, <3>1, <3>2
    <3>5. QED
      BY <1>4, <3>1, <3>2, <3>3, <3>4 DEF Create
  <2>3. QED
    BY <2>1, <2>2
<1>5. CASE Write(r)
  <2>1. CASE at[r] = None
    BY <1>5, <2>1 DEF Write, Steps, Asking
  <2>2. CASE at[r] # None
    <3>1. PICK c \in Written(files[at[r]], data[r]) : files' = [files EXCEPT ![at[r]] = c]
      BY <1>5, <2>2 DEF Write
    <3>2. c \in Content
      BY <3>1, WrittenType DEF Content, Bad
    <3>3. QED
      BY <1>5, <2>2, <3>1, <3>2 DEF Write, Steps, Asking, Blind
  <2>3. QED
    BY <2>1, <2>2
<1>6. CASE Move(r)
  <2>1. CASE files[File(r)] = Absent
    BY <1>6, <2>1 DEF Move, Steps
  <2>2. CASE files[File(r)] # Absent
    <3>1. Absent \in Content /\ File(r) \in Names /\ Target(r) \in Names
      BY DEF Target, File, Content, Bad
    <3>2. files' \in [Names -> Content]
      BY <1>6, <2>2, <3>1 DEF Move
    <3>3. at' \in [Requests -> Names \cup {None}]
      BY <1>6, <2>2, <3>1 DEF Move
    <3>4. pc' \in [Requests -> Steps] /\ stale' \in BOOLEAN
      BY <1>6, <2>2 DEF Move, Steps, Asking, Blind
    <3>5. QED
      BY <1>6, <3>2, <3>3, <3>4 DEF Move
  <2>3. QED
    BY <2>1, <2>2
<1>7. CASE Remove(r)
  BY <1>7 DEF Remove, File, Content, Bad, Steps, Blind
<1>8. CASE Set(r)
  BY <1>8 DEF Set, Stored, Target, Config, Steps
<1>9. CASE Snapshot(r)
  BY <1>9 DEF Snapshot, Steps
<1>10. CASE Truncate(r)
  BY <1>10 DEF Truncate, Bad, Steps
<1>11. CASE Flush(r)
  <2>1. saved' \in Config \cup Bad
    BY <1>11, WrittenType DEF Flush, Bad
  <2>2. QED
    BY <1>11, <2>1 DEF Flush, Steps
<1>12. QED
  BY <1>1, <1>2, <1>3, <1>4, <1>5, <1>6, <1>7, <1>8, <1>9, <1>10, <1>11 DEF Handler

LEMMA TypeAnswer ==
  ASSUME TypeOK, NEW r \in Requests, Answer(r) PROVE TypeOK'
<1> USE DEF TypeOK, Go, mainVars, confVars, writeVars
<1>1. queue # <<>> /\ queue' = Tail(queue)
  BY DEF Answer, Validate, GetActive, LoadAndActivate, LoadFails, Command
<1> HIDE DEF TypeOK
<1>7. queue' \in Seq(Requests)
  BY <1>1 DEF TypeOK
<1> USE DEF TypeOK
<1>2. CASE Validate(r)
  BY <1>7, <1>2 DEF Validate, Command, Steps
<1>3. CASE GetActive(r)
  BY <1>7, <1>3 DEF GetActive, Command, Steps, Asking
<1>4. CASE LoadAndActivate(r)
  BY <1>7, <1>4 DEF LoadAndActivate, Command, Target, Steps
<1>5. CASE LoadFails(r)
  BY <1>7, <1>5 DEF LoadFails, Command, Reloading, Steps
<1>6. QED
  BY <1>2, <1>3, <1>4, <1>5 DEF Answer

LEMMA TypeRestart ==
  ASSUME TypeOK, Restart PROVE TypeOK'
<1> USE NamesAssumption, ContentAssumption
<1>1. Loaded \in Config
  BY DEF TypeOK, Loaded, Config
<1>2. Default \in Content \ Bad
  BY DEF Content
<1>3. files' \in [Names -> Content] /\ active' \in Names
  BY <1>1, <1>2 DEF TypeOK, Restart, Config
<1>4. loaded' \in Content \ Bad
  BY <1>1, <1>2, <1>3 DEF TypeOK, Restart, Config, Fallback
<1>5. config' \in Config /\ saved' \in Config
  BY <1>1, <1>3 DEF Restart, Config
<1>6. pc' \in [Requests -> Steps] /\ at' \in [Requests -> Names \cup {None}] /\ queue' \in Seq(Requests)
  BY DEF Restart, Steps
<1>7. restarts' \in 0..MaxRestarts
  BY DEF TypeOK, Restart
<1>8. QED
  BY <1>3, <1>4, <1>5, <1>6, <1>7 DEF TypeOK, Restart

LEMMA TypeGone ==
  ASSUME TypeOK, NEW r \in Requests, ClientGone(r) PROVE TypeOK'
<1>1. stale' \in BOOLEAN /\ raced' \in BOOLEAN
  BY Zenon DEF TypeOK, ClientGone, Reloading, Unstored
<1>2. QED
  BY <1>1 DEF TypeOK, ClientGone, Go, Steps, confVars, writeVars

LEMMA TypeStep == TypeOK /\ [Next]_vars => TypeOK'
<1> SUFFICES ASSUME TypeOK, [Next]_vars PROVE TypeOK'  OBVIOUS
<1>1. CASE UNCHANGED vars
  BY <1>1 DEF TypeOK, vars, diskVars, mainVars, confVars, writeVars
<1>2. CASE Next
  BY <1>1, <1>2, TypeArrive, TypeHandler, TypeAnswer, TypeGone, TypeRestart DEF Next, Done
<1>3. QED
  BY <1>1, <1>2

\* Every variable keeps its type.
THEOREM TypeCorrect == Spec => []TypeOK
BY TypeInit, TypeStep, PTL DEF Spec

-----------------------------------------------------------------------------
(* A step of one request leaves the others where they are.                  *)

LEMMA Others ==
  ASSUME TypeOK, NEW r \in Requests, Arrive(r) \/ Handler(r) \/ Answer(r) \/ ClientGone(r)
  PROVE  \A q \in Requests \ {r} : pc'[q] = pc[q] /\ job'[q] = job[q]
<1> USE DEF TypeOK, Go
<1>1. CASE Arrive(r)
  BY <1>1 DEF Arrive
<1>2. CASE Handler(r)
  BY <1>2 DEF Handler, Check, Ask, Read, Create, Write, Move, Remove, Set, Snapshot, Truncate, Flush
<1>3. CASE Answer(r)
  BY <1>3 DEF Answer, Validate, GetActive, LoadAndActivate, LoadFails, Command
<1>4. CASE ClientGone(r)
  BY <1>4 DEF ClientGone
<1>5. QED
  BY <1>1, <1>2, <1>3, <1>4

\* The first step sets nothing but a setting.
LEMMA FirstSets ==
  ASSUME NEW op \in Handlers
  PROVE  /\ First(op) \notin {"snapshot", "truncate", "flush", "write"}
         /\ First(op) = "set" => op = "setting"
         /\ First(op) \in {"get", "load"} => op \notin {"update", "rename"}
BY DEF First, Handlers

LEMMA Arrival ==
  ASSUME TypeOK, NEW r \in Requests, Arrive(r)
  PROVE  /\ At(r, "idle") /\ Op(r)' \in Handlers /\ pc'[r] = First(Op(r)')
         /\ UNCHANGED <<diskVars, mainVars, confVars>>
<1>1. PICK op \in Ops, f \in Names, t \in Names :
        /\ job' = [job EXCEPT ![r] = [op |-> op, file |-> f, to |-> t]]
        /\ pc' = [pc EXCEPT ![r] = First(op)]
  BY DEF Arrive, Go
<1>2. QED
  BY <1>1, OpsAssumption DEF Arrive, TypeOK, Op

-----------------------------------------------------------------------------
(* The configuration and the active mapping.                                *)

\* A setting touches no mapping; only a rename moves and only a delete removes.
SettingSteps == {"idle", "set", "snapshot", "truncate", "flush", "done"}

StepsInv == \A r \in Requests :
  /\ Op(r) = "setting" => pc[r] \in SettingSteps
  /\ At(r, "move") => Op(r) = "rename"
  /\ At(r, "remove") => Op(r) = "delete"

LEMMA StepsStep == TypeOK /\ StepsInv /\ [Next]_vars => StepsInv'
<1> SUFFICES ASSUME TypeOK, StepsInv, [Next]_vars PROVE StepsInv'  OBVIOUS
<1> USE DEF StepsInv, SettingSteps, Op, At
<1>1. CASE UNCHANGED vars
  BY <1>1 DEF vars
<1>2. CASE Restart
  BY <1>2 DEF Restart
<1>3. ASSUME NEW r \in Requests, Arrive(r) PROVE StepsInv'
  BY <1>3, Others, Arrival DEF First
<1>4. ASSUME NEW r \in Requests, Handler(r) \/ Answer(r) PROVE StepsInv'
  <2>1. job' = job
    BY <1>4 DEF Handler, Check, Ask, Read, Create, Write, Move, Remove, Set, Snapshot, Truncate, Flush,
         Answer, Validate, GetActive, LoadAndActivate, LoadFails, Command
  <2>2. /\ Op(r) = "setting" => pc'[r] \in SettingSteps
        /\ pc'[r] = "move" => Op(r) = "rename"
        /\ pc'[r] = "remove" => Op(r) = "delete"
    <3>1. CASE Handler(r)
      BY <3>1 DEF Handler, Check, Ask, Read, Create, Write, Move, Remove, Set, Snapshot, Truncate, Flush,
           Go, TypeOK, Asking
    <3>2. CASE Answer(r)
      BY <3>2 DEF Answer, Validate, GetActive, LoadAndActivate, LoadFails, Command, Go, TypeOK
    <3>3. QED
      BY <1>4, <3>1, <3>2
  <2>3. QED
    BY <1>4, <2>1, <2>2, Others
<1>5. ASSUME NEW r \in Requests, ClientGone(r) PROVE StepsInv'
  BY <1>5, Others DEF ClientGone, Go, TypeOK
<1>6. QED
  BY <1>1, <1>2, <1>3, <1>4, <1>5 DEF Next, Done

\* Unless an activation overtook another or lost its client, the last one is
\* the only one that has yet to be stored.
StoreInv ==
  ~raced => /\ \A r \in Requests : Unstored(r) => Target(r) = active
            /\ (\A r \in Requests : ~Unstored(r)) => config.active = active

LEMMA StoreStep == TypeOK /\ StepsInv /\ StoreInv /\ [Next]_vars => StoreInv'
<1> SUFFICES ASSUME TypeOK, StepsInv, StoreInv, [Next]_vars PROVE StoreInv'  OBVIOUS
<1>1. CASE UNCHANGED vars
  BY <1>1 DEF StoreInv, Unstored, At, Op, Target, vars, mainVars, confVars
<1>2. CASE Restart
  <2>1. \A r \in Requests : ~Unstored(r)'
    BY <1>2 DEF Restart, Unstored, At
  <2>2. config'.active = active'
    <3>1. Loaded \in Config
      BY NamesAssumption DEF Loaded, Config, TypeOK
    <3>2. QED
      BY <1>2, <3>1 DEF Restart, Config
  <2>3. QED
    BY <2>1, <2>2 DEF StoreInv
<1>3. ASSUME NEW r \in Requests, Arrive(r) \/ Handler(r) \/ Answer(r) PROVE StoreInv'
  <2>1. \A q \in Requests \ {r} : Unstored(q)' = Unstored(q) /\ Target(q)' = Target(q)
    BY <1>3, Others DEF Unstored, At, Op, Target
  <2>2. CASE LoadAndActivate(r)
    <3>1. active' = Target(r) /\ Target(r)' = Target(r) /\ raced' = \E q \in Requests : Unstored(q)
      BY <2>2 DEF LoadAndActivate, Command, Target
    <3>2. Unstored(r)'
      BY <2>2 DEF LoadAndActivate, Command, Unstored, At, Op, Go, TypeOK, StepsInv, SettingSteps
    <3>3. QED
      BY <2>1, <3>1, <3>2 DEF StoreInv
  <2>3. CASE Set(r)
    <3>1. ~Unstored(r)' /\ UNCHANGED <<active, raced>>
      BY <2>3 DEF Set, Unstored, At, Go, TypeOK, mainVars
    <3>2. CASE Op(r) = "setting"
      <4>1. config'.active = config.active /\ ~Unstored(r)
        BY <2>3, <3>2 DEF Set, Stored, Unstored, TypeOK, Config
      <4>2. QED
        BY <2>1, <3>1, <4>1 DEF StoreInv
    <3>3. CASE Op(r) # "setting"
      <4>1. config'.active = Target(r) /\ Unstored(r)
        BY <2>3, <3>3 DEF Set, Stored, Unstored, TypeOK, Config
      <4>2. QED
        BY <2>1, <3>1, <4>1 DEF StoreInv
    <3>4. QED
      BY <3>2, <3>3
  <2>4. CASE ~LoadAndActivate(r) /\ ~Set(r)
    <3>1. UNCHANGED <<active, raced, config>>
      BY <1>3, <2>4 DEF Arrive, Handler, Answer, Check, Ask, Read, Create, Write, Move, Remove, Snapshot,
           Truncate, Flush, Validate, GetActive, LoadFails, Command, mainVars, confVars
    <3>2. ~Unstored(r) /\ ~Unstored(r)'
      <4>1. CASE Arrive(r)
        BY <4>1, Arrival, FirstSets DEF Unstored, At
      <4>2. CASE Handler(r)
        BY <2>4, <4>2 DEF Handler, Check, Ask, Read, Create, Write, Move, Remove, Snapshot, Truncate, Flush,
             Unstored, At, Go, TypeOK, Asking
      <4>3. CASE Answer(r)
        BY <2>4, <4>3 DEF Answer, Validate, GetActive, LoadFails, Command, Unstored, At, Go, TypeOK
      <4>4. QED
        BY <1>3, <4>1, <4>2, <4>3
    <3>3. QED
      BY <2>1, <3>1, <3>2 DEF StoreInv
  <2>5. QED
    BY <2>2, <2>3, <2>4
<1>4. ASSUME NEW r \in Requests, ClientGone(r) PROVE StoreInv'
  <2>1. \A q \in Requests \ {r} : Unstored(q)' = Unstored(q) /\ Target(q)' = Target(q)
    BY <1>4, Others DEF Unstored, At, Op, Target
  <2>2. UNCHANGED <<active, config>> /\ ~Unstored(r)' /\ raced' = (raced \/ Unstored(r))
    BY <1>4 DEF ClientGone, Unstored, At, Go, TypeOK, confVars
  <2>3. QED
    BY <2>1, <2>2 DEF StoreInv
<1>5. QED
  BY <1>1, <1>2, <1>3, <1>4 DEF Next, Done

\* When no activation has yet to be stored, the configuration names the active
\* mapping, unless an activation came before an older one was stored, or its
\* client left before it was.
THEOREM ConfigIsActive == Spec => []ConfigFollows
<1>1. Init => StoreInv
  BY DEF Init, StoreInv, Unstored, At
<1>2. Init => StepsInv
  BY DEF Init, StepsInv, SettingSteps, Op, At
<1>3. StoreInv => ConfigFollows
  BY DEF StoreInv, ConfigFollows
<1>4. QED
  BY TypeInit, TypeStep, StepsStep, StoreStep, <1>1, <1>2, <1>3, PTL DEF Spec

-----------------------------------------------------------------------------
(* config.json and the configuration.                                       *)

\* Unless a setting overtook the writing of an older snapshot, every snapshot
\* is the configuration, and config.json holds it, or is about to.
SaveInv ==
  ~mixed => /\ \A r \in Requests : HasSnapshot(r) => snap[r] = config
            /\ \/ saved = config
               \/ \E r \in Requests : At(r, "snapshot") \/ At(r, "truncate")
               \/ saved = Empty /\ \E r \in Requests : At(r, "flush")

LEMMA SaveStep == TypeOK /\ SaveInv /\ [Next]_vars => SaveInv'
<1> SUFFICES ASSUME TypeOK, SaveInv, [Next]_vars PROVE SaveInv'  OBVIOUS
<1> USE DEF HasSnapshot, At
<1>1. CASE UNCHANGED vars
  BY <1>1 DEF SaveInv, vars, confVars
<1>2. CASE Restart
  BY <1>2 DEF Restart, SaveInv
<1>3. ASSUME NEW r \in Requests, Arrive(r) \/ Handler(r) \/ Answer(r) PROVE SaveInv'
  <2>1. \A q \in Requests \ {r} : pc'[q] = pc[q]
    BY <1>3, Others
  <2>2. CASE Set(r)
    <3>1. /\ mixed' = \E q \in Requests : HasSnapshot(q)
          /\ pc'[r] = "snapshot" /\ pc[r] = "set"
      BY <2>2 DEF Set, Go, TypeOK
    <3>2. QED
      BY <2>1, <3>1 DEF SaveInv
  <2>3. CASE Snapshot(r)
    <3>1. pc'[r] = "truncate" /\ snap'[r] = config' /\ \A q \in Requests \ {r} : snap'[q] = snap[q]
      BY <2>3 DEF Snapshot, Go, TypeOK
    <3>2. UNCHANGED <<mixed, config>>
      BY <2>3 DEF Snapshot
    <3>3. QED
      BY <2>1, <3>1, <3>2 DEF SaveInv
  <2>4. CASE Truncate(r)
    <3>1. pc'[r] = "flush" /\ pc[r] = "truncate" /\ saved' = Empty /\ UNCHANGED <<mixed, config, snap>>
      BY <2>4 DEF Truncate, Go, TypeOK
    <3>2. QED
      BY <2>1, <3>1 DEF SaveInv
  <2>5. CASE Flush(r)
    <3>1. pc'[r] = "done" /\ pc[r] = "flush" /\ UNCHANGED <<mixed, config, snap>>
          /\ saved' \in Written(saved, snap[r])
      BY <2>5 DEF Flush, Go, TypeOK
    <3>2. CASE \E q \in Requests : At(q, "snapshot") \/ At(q, "truncate")
      BY <2>1, <3>1, <3>2 DEF SaveInv
    <3>3. CASE ~\E q \in Requests : At(q, "snapshot") \/ At(q, "truncate")
      <4>1. ~mixed => saved \in {Empty, config} /\ snap[r] = config
        BY <3>1, <3>3 DEF SaveInv
      <4>2. ~mixed => saved' = config
        BY <3>1, <4>1 DEF Written
      <4>3. QED
        BY <2>1, <3>1, <4>2 DEF SaveInv
    <3>4. QED
      BY <3>2, <3>3
  <2>6. CASE ~Set(r) /\ ~Snapshot(r) /\ ~Truncate(r) /\ ~Flush(r)
    <3>1. UNCHANGED confVars
      BY <1>3, <2>6 DEF Arrive, Handler, Answer, Check, Ask, Read, Create, Write, Move, Remove,
           Validate, GetActive, LoadAndActivate, LoadFails, Command
    <3>2. {pc[r], pc'[r]} \cap {"snapshot", "truncate", "flush"} = {}
      <4>1. CASE Arrive(r)
        BY <4>1, Arrival, FirstSets
      <4>2. CASE Handler(r)
        BY <2>6, <4>2 DEF Handler, Check, Ask, Read, Create, Write, Move, Remove, Go, TypeOK, Asking
      <4>3. CASE Answer(r)
        BY <4>3 DEF Answer, Validate, GetActive, LoadAndActivate, LoadFails, Command, Go, TypeOK
      <4>4. QED
        BY <1>3, <4>1, <4>2, <4>3
    <3>3. QED
      BY <2>1, <3>1, <3>2 DEF SaveInv, confVars
  <2>7. QED
    BY <2>2, <2>3, <2>4, <2>5, <2>6
<1>4. ASSUME NEW r \in Requests, ClientGone(r) PROVE SaveInv'
  <2>1. \A q \in Requests \ {r} : pc'[q] = pc[q]
    BY <1>4, Others
  <2>2. pc'[r] = "done" /\ pc[r] \notin {"snapshot", "truncate", "flush"} /\ UNCHANGED confVars
    BY <1>4 DEF ClientGone, Unseen, Unstored, Go, TypeOK
  <2>3. QED
    BY <2>1, <2>2 DEF SaveInv, confVars
<1>5. QED
  BY <1>1, <1>2, <1>3, <1>4 DEF Next, Done

\* While no setter runs, config.json holds the configuration, unless a setting
\* was made before an older snapshot had been written.
THEOREM ConfigIsSaved == Spec => []SavedFollows
<1>1. Init => SaveInv
  BY DEF Init, SaveInv, HasSnapshot, At
<1>2. SaveInv => SavedFollows
  BY DEF SaveInv, SavedFollows, Saving, HasSnapshot
<1>3. QED
  BY TypeInit, TypeStep, SaveStep, <1>1, <1>2, PTL DEF Spec

-----------------------------------------------------------------------------
(* The mapping in use and its file.                                         *)

LEMMA FreshStep == TypeOK /\ StepsInv /\ ActiveFresh /\ [Next]_vars => ActiveFresh'
<1> SUFFICES ASSUME TypeOK, StepsInv, ActiveFresh, [Next]_vars PROVE ActiveFresh'  OBVIOUS
<1> USE DEF At
<1>1. CASE UNCHANGED vars
  BY <1>1 DEF ActiveFresh, Reloading, File, Op, vars, diskVars, mainVars
<1>2. CASE Restart
  BY <1>2 DEF Restart, ActiveFresh
<1>3. ASSUME NEW r \in Requests, Arrive(r) \/ Handler(r) \/ Answer(r) \/ ClientGone(r) PROVE ActiveFresh'
  <2>1. \A q \in Requests \ {r} : active' = active => Reloading(q)' = Reloading(q)
    BY <1>3, Others DEF Reloading, File, Op
  <2>2. CASE LoadAndActivate(r)
    BY <2>2 DEF LoadAndActivate, Command, ActiveFresh
  <2>3. CASE Arrive(r)
    <3>1. UNCHANGED <<diskVars, mainVars>> /\ ~Reloading(r)
      BY <2>3, Arrival DEF Reloading
    <3>2. QED
      BY <2>1, <3>1 DEF ActiveFresh, diskVars, mainVars
  <2>4. ASSUME Handler(r) \/ Answer(r), ~LoadAndActivate(r) PROVE job' = job /\ UNCHANGED <<active, loaded>>
    BY <2>4 DEF Handler, Check, Ask, Read, Create, Write, Move, Remove, Set, Snapshot, Truncate, Flush,
         Answer, Validate, GetActive, LoadFails, Command, mainVars
  <2>5. CASE LoadFails(r)
    <3>1. files' = files /\ stale' = (stale \/ Reloading(r)) /\ UNCHANGED <<active, loaded>>
      BY <2>5 DEF LoadFails, Command, mainVars
    <3>2. QED
      BY <2>1, <3>1 DEF ActiveFresh
  <2>6. CASE GetActive(r)
    <3>1. UNCHANGED <<files, stale, active, loaded, job>>
      BY <2>6 DEF GetActive, Command, mainVars
    <3>2. Reloading(r) => Reloading(r)'
      BY <2>6, <3>1 DEF GetActive, Command, Go, Reloading, Op, File, TypeOK
    <3>3. QED
      BY <2>1, <3>1, <3>2 DEF ActiveFresh
  <2>7. CASE Create(r)
    <3>1. UNCHANGED <<active, loaded, job>> /\ ~Reloading(r)
      BY <2>7 DEF Create, Reloading, mainVars
    <3>2. CASE Source(r) = Absent
      BY <2>1, <2>7, <3>1, <3>2 DEF Create, ActiveFresh, diskVars
    <3>3. CASE Source(r) # Absent
      <4>1. /\ files' = [files EXCEPT ![Target(r)] = Empty] /\ stale' = (stale \/ Blind(r, Target(r)))
            /\ pc'[r] = "write"
        BY <2>7, <3>3 DEF Create, Go, TypeOK
      <4>2. CASE Target(r) = active
        BY <3>1, <4>1, <4>2 DEF ActiveFresh, Blind, Reloading, Op, File
      <4>3. CASE Target(r) # active
        BY <2>1, <3>1, <4>1, <4>3 DEF ActiveFresh, TypeOK
      <4>4. QED
        BY <4>2, <4>3
    <3>4. QED
      BY <3>2, <3>3
  <2>8. CASE Write(r)
    <3>1. UNCHANGED <<active, loaded, job>> /\ pc[r] = "write"
          /\ pc'[r] = IF Op(r) = "update" THEN "get" ELSE "done"
      BY <2>8 DEF Write, Go, mainVars, TypeOK
    <3>2. Reloading(r) => Reloading(r)'
      BY <3>1 DEF Reloading, Op, File
    <3>3. CASE at[r] = None
      BY <2>1, <2>8, <3>1, <3>2, <3>3 DEF Write, ActiveFresh, diskVars
    <3>4. CASE at[r] # None
      <4>1. PICK c \in Written(files[at[r]], data[r]) : files' = [files EXCEPT ![at[r]] = c]
        BY <2>8, <3>4 DEF Write
      <4>2. stale' = (stale \/ Blind(r, at[r]))
        BY <2>8, <3>4 DEF Write
      <4>3. CASE at[r] = active
        BY <3>1, <4>1, <4>2, <4>3 DEF ActiveFresh, Blind, Reloading, Op, File
      <4>4. CASE at[r] # active
        BY <2>1, <3>1, <3>2, <4>1, <4>2, <4>4 DEF ActiveFresh, TypeOK
      <4>5. QED
        BY <4>3, <4>4
    <3>5. QED
      BY <3>3, <3>4
  <2>9. CASE Move(r)
    <3>1. UNCHANGED <<active, loaded, job>> /\ Op(r) = "rename" /\ ~Reloading(r)
      BY <2>9 DEF Move, StepsInv, mainVars, Reloading
    <3>2. CASE files[File(r)] = Absent
      BY <2>1, <2>9, <3>1, <3>2 DEF Move, ActiveFresh, diskVars
    <3>3. CASE files[File(r)] # Absent
      <4>1. /\ files' = [files EXCEPT ![Target(r)] = files[File(r)], ![File(r)] = Absent]
            /\ stale' = (stale \/ Blind(r, Target(r))) /\ pc'[r] = "get"
        BY <2>9, <3>3 DEF Move, Go, TypeOK
      <4>2. CASE File(r) = active
        BY <3>1, <4>1, <4>2 DEF ActiveFresh, Reloading, Op, File
      <4>3. CASE Target(r) = active
        BY <3>1, <4>1, <4>3 DEF ActiveFresh, Blind
      <4>4. CASE File(r) # active /\ Target(r) # active
        BY <2>1, <3>1, <4>1, <4>4 DEF ActiveFresh, TypeOK
      <4>5. QED
        BY <4>2, <4>3, <4>4
    <3>4. QED
      BY <3>2, <3>3
  <2>10. CASE Remove(r)
    <3>1. UNCHANGED <<active, loaded, job>> /\ Op(r) = "delete" /\ ~Reloading(r)
      BY <2>10 DEF Remove, StepsInv, mainVars, Reloading
    <3>2. files' = [files EXCEPT ![File(r)] = Absent] /\ stale' = (stale \/ Blind(r, File(r)))
      BY <2>10 DEF Remove
    <3>3. QED
      BY <2>1, <3>1, <3>2 DEF ActiveFresh, Blind, TypeOK
  <2>11. CASE Ask(r)
    BY <2>11 DEF Ask, ActiveFresh, Reloading, Op, File, diskVars, mainVars
  <2>12. CASE Check(r) \/ Read(r) \/ Validate(r) \/ Set(r) \/ Snapshot(r) \/ Truncate(r) \/ Flush(r)
    <3>1. UNCHANGED <<files, stale, active, loaded>> /\ ~Reloading(r)
      BY <2>12 DEF Check, Read, Validate, Command, Set, Snapshot, Truncate, Flush, Reloading, diskVars, mainVars
    <3>2. QED
      BY <2>1, <3>1 DEF ActiveFresh
  <2>13. CASE ClientGone(r)
    <3>1. UNCHANGED <<files, active, loaded>> /\ stale' = (stale \/ Reloading(r))
      BY <2>13 DEF ClientGone
    <3>2. QED
      BY <2>1, <3>1 DEF ActiveFresh
  <2>14. QED
    BY <1>3, <2>2, <2>3, <2>5, <2>6, <2>7, <2>8, <2>9, <2>10, <2>11, <2>12, <2>13 DEF Handler, Answer
<1>4. QED
  BY <1>1, <1>2, <1>3 DEF Next, Done

\* The mapping in use is what its file says, or a request will load it again,
\* but for the faults that Blind, LoadFails and ClientGone record.
THEOREM ActiveIsFresh == Spec => []ActiveFresh
<1>1. Init => StepsInv /\ ActiveFresh
  BY DEF Init, StepsInv, ActiveFresh, Op, At
<1>2. QED
  BY TypeInit, TypeStep, StepsStep, FreshStep, <1>1, PTL DEF Spec

-----------------------------------------------------------------------------
(* A restart.                                                               *)

\* A program stopped in the middle of its requests, without one of the faults
\* and with no change of the mapping or the configuration under way, starts
\* again with the same mapping and the same configuration, and overwrites no
\* file.
THEOREM RestartIsNoChange == Spec => RestartKeeps
<1> DEFINE Inv == TypeOK /\ ActiveFresh /\ ConfigFollows /\ SavedFollows
           Rest == restarts' # restarts /\ (\A r \in Requests : ~Underway(r)) /\ ~stale /\ ~raced /\ ~mixed
           Kept == UNCHANGED <<files, active, loaded, config, saved>>
<1>1. Inv /\ [Next]_vars => [Rest => Kept]_vars
  <2> SUFFICES ASSUME Inv, Next, Rest PROVE Kept  OBVIOUS
  <2>1. Restart
    BY DEF Next, Arrive, Handler, Check, Ask, Read, Create, Write, Move, Remove, Set, Snapshot, Truncate,
         Flush, Answer, Validate, GetActive, LoadAndActivate, LoadFails, Command, ClientGone, Done, vars
  <2>2. files[active] = loaded /\ config.active = active /\ saved = config
    BY DEF Underway, ActiveFresh, ConfigFollows, SavedFollows
  <2>3. Loaded = config /\ ~Fallback
    BY <2>2, ContentAssumption DEF TypeOK, Loaded, Fallback
  <2>4. [config EXCEPT !.active = active] = config
    BY <2>2 DEF TypeOK, Config
  <2>5. QED
    BY <2>1, <2>2, <2>3, <2>4 DEF Restart
<1>2. QED
  BY <1>1, TypeCorrect, ActiveIsFresh, ConfigIsActive, ConfigIsSaved, PTL DEF Spec, RestartKeeps

-----------------------------------------------------------------------------
(* The commands of the main thread.                                         *)

\* A queued command is one its handler waits for, and its only one.
Awaited ==
  /\ \A i \in DOMAIN queue : pc[queue[i]] \in Asking
  /\ \A i, j \in DOMAIN queue : queue[i] = queue[j] => i = j

\* Whoever has a command queued moves on only by its answer.
LEMMA AwaitedKept ==
  ASSUME TypeOK, Awaited, queue' = queue, NEW r \in Requests,
         \A q \in Requests \ {r} : pc'[q] = pc[q], pc[r] \notin Asking
  PROVE  Awaited'
<1>1. \A i \in DOMAIN queue : queue[i] \in Requests \ {r}
  BY DEF TypeOK, Awaited
<1>2. QED
  BY <1>1 DEF Awaited

LEMMA AwaitedAsk == ASSUME TypeOK, Awaited, NEW r \in Requests, Ask(r) PROVE Awaited'
<1>1. /\ queue' = Append(queue, r) /\ pc' = pc /\ pc[r] \in Asking /\ queue \in Seq(Requests)
      /\ \A i \in DOMAIN queue : queue[i] # r
  BY DEF Ask, Asked, TypeOK
<1>2. /\ Len(queue) \in Nat /\ DOMAIN queue = 1..Len(queue) /\ DOMAIN queue' = 1..(Len(queue) + 1)
      /\ queue'[Len(queue) + 1] = r /\ \A i \in DOMAIN queue : queue'[i] = queue[i]
  BY <1>1
<1>3. \A i \in DOMAIN queue' : IF i \in DOMAIN queue THEN queue'[i] = queue[i] ELSE queue'[i] = r /\ i = Len(queue) + 1
  BY <1>2
<1>4. QED
  BY <1>1, <1>3 DEF Awaited

\* The answer goes to the head, which has no second command behind it.
LEMMA AwaitedAnswer == ASSUME TypeOK, Awaited, NEW r \in Requests, Answer(r) PROVE Awaited'
<1>1. queue # <<>> /\ Head(queue) = r /\ queue' = Tail(queue) /\ queue \in Seq(Requests)
  BY DEF Answer, Validate, GetActive, LoadAndActivate, LoadFails, Command, TypeOK
<1>2. /\ Len(queue) \in Nat \ {0} /\ DOMAIN queue = 1..Len(queue) /\ DOMAIN queue' = 1..(Len(queue) - 1)
      /\ queue[1] = r /\ \A i \in DOMAIN queue' : queue'[i] = queue[i + 1] /\ queue[i + 1] \in Requests
  BY <1>1
<1>3. \A i \in DOMAIN queue' : i + 1 \in DOMAIN queue \ {1} /\ 1 \in DOMAIN queue
  BY <1>2
<1>4. \A i \in DOMAIN queue' : queue'[i] \in Requests \ {r} /\ pc'[queue'[i]] \in Asking
  <2> SUFFICES ASSUME NEW i \in DOMAIN queue'
               PROVE  queue'[i] \in Requests \ {r} /\ pc'[queue'[i]] \in Asking
    OBVIOUS
  <2>1. queue'[i] \in Requests \ {r}
    BY <1>2, <1>3 DEF Awaited
  <2>2. pc[queue'[i]] \in Asking
    BY <1>2, <1>3 DEF Awaited
  <2>3. QED
    BY <2>1, <2>2, Others
<1>5. \A i, j \in DOMAIN queue' : queue'[i] = queue'[j] => i = j
  <2> SUFFICES ASSUME NEW i \in DOMAIN queue', NEW j \in DOMAIN queue', queue'[i] = queue'[j]
               PROVE  i = j
    OBVIOUS
  <2>1. i + 1 = j + 1
    BY <1>2, <1>3 DEF Awaited
  <2>2. QED
    BY <1>2, <2>1
<1>6. QED
  BY <1>4, <1>5 DEF Awaited

\* Who leaves has no command there: its last one has been answered.
LEMMA AwaitedGone == ASSUME TypeOK, Awaited, NEW r \in Requests, ClientGone(r) PROVE Awaited'
<1>1. queue' = queue /\ \A q \in Requests \ {r} : pc'[q] = pc[q]
  BY Others DEF ClientGone
<1>2. \A i \in DOMAIN queue : queue[i] \in Requests \ {r}
  BY DEF ClientGone, Unseen, Unstored, At, Asked, Asking, TypeOK, Awaited
<1>3. QED
  BY <1>1, <1>2 DEF Awaited

LEMMA AwaitedStep == TypeOK /\ Awaited /\ [Next]_vars => Awaited'
<1> SUFFICES ASSUME TypeOK, Awaited, [Next]_vars PROVE Awaited'  OBVIOUS
<1>1. CASE UNCHANGED vars
  BY <1>1 DEF vars, Awaited
<1>2. CASE Restart
  <2>1. queue' = <<>>
    BY <1>2 DEF Restart
  <2>2. DOMAIN queue' = {}
    BY <2>1
  <2>3. QED
    BY <2>2 DEF Awaited
<1>3. ASSUME NEW r \in Requests, Arrive(r) PROVE Awaited'
  <2>1. queue' = queue /\ pc[r] \notin Asking
    BY <1>3 DEF Arrive, At, Asking
  <2>2. QED
    BY <1>3, <2>1, Others, AwaitedKept
<1>4. ASSUME NEW r \in Requests, Handler(r) PROVE Awaited'
  <2>1. CASE Ask(r)
    BY <2>1, AwaitedAsk
  <2>2. CASE ~Ask(r)
    <3>1. queue' = queue /\ pc[r] \notin Asking
      BY <1>4, <2>2 DEF Handler, Check, Read, Create, Write, Move, Remove, Set, Snapshot, Truncate, Flush,
           At, Asking
    <3>2. QED
      BY <1>4, <3>1, Others, AwaitedKept
  <2>3. QED
    BY <2>1, <2>2
<1>5. ASSUME NEW r \in Requests, Answer(r) PROVE Awaited'
  BY <1>5, AwaitedAnswer
<1>6. ASSUME NEW r \in Requests, ClientGone(r) PROVE Awaited'
  BY <1>6, AwaitedGone
<1>7. QED
  BY <1>1, <1>2, <1>3, <1>4, <1>5, <1>6 DEF Next, Done

\* A command in the channel of the main thread is one its handler still waits
\* for, in the step it sent it from, and a handler has never two there: the
\* head is always answered, and nobody gets the answer to an older question
\* (web/mapping.rs awaits each oneshot before it goes on), unless the program
\* is stopped, which empties the channel.
THEOREM CommandsAwaited == Spec => []Awaited
<1>1. Init => Awaited
  BY DEF Init, Awaited
<1>2. QED
  BY <1>1, AwaitedStep, TypeCorrect, PTL DEF Spec
=============================================================================
