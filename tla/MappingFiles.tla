------------------------------ MODULE MappingFiles ----------------------------
(***************************************************************************)
(* The mapping files and the local configuration: the handlers of          *)
(* src/src/web/mapping.rs, which the threads of the web server run in      *)
(* parallel, the commands the main thread answers (mask_command.rs), the   *)
(* setters of src/src/config.rs, and the start of the program, which may   *)
(* have been stopped anywhere.                                             *)
(*                                                                         *)
(* A handler is a walk through the steps below; pc names the next one.  A  *)
(* step is one access to what is shared: a file, the configuration or the  *)
(* queue of the main thread.  The contents of a file are who wrote them.   *)
(* Reading handlers (list, read) change nothing and are left out.          *)
(***************************************************************************)
EXTENDS Naturals, Sequences

CONSTANTS
  Requests,    \* the requests of the browser, each served once (a bound)
  Ops,         \* the handlers they may call
  Names,       \* the names of mapping files
  Default,     \* default.json
  MaxRestarts, \* how often the program is stopped and started (a bound)
  Absent,      \* no such file
  Empty,       \* a file truncated by File::create
  Broken,      \* what two overlapping writes left
  None

Handlers == {"change", "create", "delete", "rename", "duplicate", "update", "migrate", "setting"}
Renaming == {"rename", "duplicate", "migrate"}
Bad      == {Absent, Empty, Broken}
Content  == Requests \cup Names \cup {Default} \cup Bad
Config   == [active : Names, other : Requests \cup {None}]

ASSUME OpsAssumption     == Ops \subseteq Handlers
ASSUME NamesAssumption   == Default \in Names /\ MaxRestarts \in Nat
ASSUME ContentAssumption ==
  /\ Bad \cap (Requests \cup Names \cup Config) = {} /\ Requests \cap Names = {}
  /\ Absent # Empty /\ Absent # Broken /\ Empty # Broken
  /\ None \notin Names \cup Requests \cup Content

VARIABLES
  files,       \* the directory of mappings
  active,      \* ActiveMappingConfig: the name of the mapping in use,
  loaded,      \* and what it was when it was loaded
  config,      \* CONFIG, in memory
  saved,       \* config.json
  queue,       \* m_rx: the requests whose command the main thread has yet to take
  job,         \* what each request asks for
  pc,          \* its next step
  at,          \* the name its open file has now
  data,        \* what it will write
  snap,        \* the configuration it will save
  stale,       \* history: a fault named below has hit the active file
  raced,       \* history: an activation came before an older one was stored,
               \* or was never stored
  mixed,       \* history: a setting came before an older snapshot was saved
  restarts

diskVars  == <<files, stale>>
mainVars  == <<active, loaded, raced>>
confVars  == <<config, saved, snap, mixed>>
writeVars == <<at, data>>
vars      == <<diskVars, mainVars, confVars, writeVars, queue, job, pc, restarts>>

Asking == {"validate", "get", "load"}
Steps  == Asking \cup {"idle", "check", "read", "create", "write", "move", "remove",
                       "set", "snapshot", "truncate", "flush", "done"}

TypeOK ==
  /\ files \in [Names -> Content] /\ active \in Names /\ loaded \in Content \ Bad
  /\ config \in Config /\ saved \in Config \cup Bad
  /\ queue \in Seq(Requests)
  /\ job \in [Requests -> [op : Handlers, file : Names, to : Names]]
  /\ pc \in [Requests -> Steps]
  /\ at \in [Requests -> Names \cup {None}]
  /\ data \in [Requests -> Content \ {Absent}]
  /\ snap \in [Requests -> Config]
  /\ stale \in BOOLEAN /\ raced \in BOOLEAN /\ mixed \in BOOLEAN
  /\ restarts \in 0..MaxRestarts

Init ==
  /\ files \in [Names -> Names \cup {Absent}]
  /\ \A n \in Names : files[n] \in {n, Absent}
  /\ active \in {n \in Names : files[n] = n} /\ loaded = active
  /\ config = [active |-> active, other |-> None] /\ saved = config
  /\ queue = <<>>
  /\ job = [r \in Requests |-> [op |-> "change", file |-> active, to |-> active]]
  /\ pc = [r \in Requests |-> "idle"]
  /\ at = [r \in Requests |-> None]
  /\ data = [r \in Requests |-> r]
  /\ snap = [r \in Requests |-> config]
  /\ stale = FALSE /\ raced = FALSE /\ mixed = FALSE /\ restarts = 0

-----------------------------------------------------------------------------
(* Requests.                                                                *)

Op(r)     == job[r].op
File(r)   == job[r].file
Target(r) == job[r].to

First(op) ==
  CASE op = "change"  -> "load"
    [] op = "delete"  -> "get"
    [] op = "update"  -> "validate"
    [] op = "setting" -> "set"
    [] OTHER          -> "check"

At(r, step) == pc[r] = step
Go(r, step) == pc' = [pc EXCEPT ![r] = step]

Arrive(r) ==
  /\ At(r, "idle")
  /\ \E op \in Ops : \E f, t \in Names :
       /\ op \in Renaming \/ t = f
       /\ job' = [job EXCEPT ![r] = [op |-> op, file |-> f, to |-> t]]
       /\ Go(r, First(op))
  /\ UNCHANGED <<diskVars, mainVars, confVars, writeVars, queue, restarts>>

\* Two exists(), or one for a new mapping.
Free(r) == files[Target(r)] = Absent /\ (Op(r) = "create" \/ files[File(r)] # Absent)

Check(r) ==
  /\ At(r, "check")
  /\ Go(r, IF ~Free(r) THEN "done"
           ELSE CASE Op(r) = "create" -> "validate"
                  [] Op(r) = "rename" -> "move"
                  [] Op(r) = "migrate" -> "read"
                  [] OTHER -> "create")
  /\ UNCHANGED <<diskVars, mainVars, confVars, writeVars, queue, job, restarts>>

-----------------------------------------------------------------------------
(* Files.                                                                   *)

\* The step changes the file in use, and nobody will load it again.
Blind(r, n) == n = active /\ (Op(r) # "update" \/ n # File(r))

\* migrate_mapping reads what it scales.
Read(r) ==
  /\ At(r, "read")
  /\ Go(r, IF files[File(r)] \in Bad THEN "done" ELSE "create")
  /\ UNCHANGED <<diskVars, mainVars, confVars, writeVars, queue, job, restarts>>

\* File::create truncates the file; fs::copy has opened the source by then.
Source(r)  == IF Op(r) = "duplicate" THEN files[File(r)] ELSE r

Create(r) ==
  /\ At(r, "create")
  /\ IF Source(r) = Absent
     THEN Go(r, "done") /\ UNCHANGED <<diskVars, writeVars>>
     ELSE /\ files' = [files EXCEPT ![Target(r)] = Empty]
          /\ at' = [at EXCEPT ![r] = Target(r)]
          /\ data' = [data EXCEPT ![r] = Source(r)]
          /\ stale' = (stale \/ Blind(r, Target(r)))
          /\ Go(r, "write")
  /\ UNCHANGED <<mainVars, confVars, queue, job, restarts>>

\* write_all over what another has written meanwhile: a longer text leaves a
\* tail behind a shorter one.
Written(old, new) == IF old \in {Empty, new} THEN {new} ELSE {new, Broken}

Write(r) ==
  /\ At(r, "write")
  /\ IF at[r] = None THEN UNCHANGED diskVars
     ELSE /\ \E c \in Written(files[at[r]], data[r]) : files' = [files EXCEPT ![at[r]] = c]
          /\ stale' = (stale \/ Blind(r, at[r]))
  /\ at' = [at EXCEPT ![r] = None]
  /\ Go(r, IF Op(r) = "update" THEN "get" ELSE "done")
  /\ UNCHANGED <<mainVars, confVars, data, queue, job, restarts>>

\* An open file follows its name, or has none any more.
Move(r) ==
  /\ At(r, "move")
  /\ IF files[File(r)] = Absent
     THEN Go(r, "done") /\ UNCHANGED <<diskVars, at>>
     ELSE /\ files' = [files EXCEPT ![Target(r)] = files[File(r)], ![File(r)] = Absent]
          /\ at' = [q \in Requests |-> CASE at[q] = File(r)   -> Target(r)
                                         [] at[q] = Target(r) -> None
                                         [] OTHER             -> at[q]]
          /\ stale' = (stale \/ Blind(r, Target(r)))
          /\ Go(r, "get")
  /\ UNCHANGED <<mainVars, confVars, data, queue, job, restarts>>

Remove(r) ==
  /\ At(r, "remove")
  /\ files' = [files EXCEPT ![File(r)] = Absent]
  /\ at' = [q \in Requests |-> IF at[q] = File(r) THEN None ELSE at[q]]
  /\ stale' = (stale \/ Blind(r, File(r)))
  /\ Go(r, "done")
  /\ UNCHANGED <<mainVars, confVars, data, queue, job, restarts>>

-----------------------------------------------------------------------------
(* The main thread.                                                         *)

Asked(r) == \E i \in DOMAIN queue : queue[i] = r

Ask(r) ==
  /\ pc[r] \in Asking /\ ~Asked(r)
  /\ queue' = Append(queue, r)
  /\ UNCHANGED <<diskVars, mainVars, confVars, writeVars, job, pc, restarts>>

\* The main thread takes the next command and answers it; what the handler
\* does with the answer before its next step is its own affair.
Command(r, cmd) ==
  /\ At(r, cmd) /\ queue # <<>> /\ Head(queue) = r
  /\ queue' = Tail(queue)
  /\ UNCHANGED <<files, confVars, writeVars, job, restarts>>

Validate(r) ==
  /\ Command(r, "validate")
  /\ Go(r, "create") \/ Go(r, "done")
  /\ UNCHANGED <<mainVars, stale>>

GetActive(r) ==
  /\ Command(r, "get")
  /\ Go(r, IF Op(r) = "delete" THEN (IF active = File(r) THEN "done" ELSE "remove")
                               ELSE (IF active = File(r) THEN "load" ELSE "done"))
  /\ UNCHANGED <<mainVars, stale>>

\* The request will load the file in use again.
Reloading(r) ==
  /\ File(r) = active
  /\ \/ Op(r) = "update" /\ pc[r] \in {"write", "get", "load"}
     \/ Op(r) = "rename" /\ pc[r] \in {"get", "load"}

\* Activated, and not yet stored in the configuration.
Unstored(q) == At(q, "set") /\ Op(q) # "setting"

\* (variant) the new name with the mapping loaded before.
ActivateOnly(r) ==
  /\ Command(r, "load")
  /\ files[Target(r)] \notin Bad
  /\ active' = Target(r)
  /\ stale' = FALSE
  /\ raced' = \E q \in Requests : Unstored(q)
  /\ Go(r, "set")
  /\ UNCHANGED loaded

LoadAndActivate(r) ==
  /\ Command(r, "load")
  /\ files[Target(r)] \notin Bad
  /\ active' = Target(r) /\ loaded' = files[Target(r)]
  /\ stale' = FALSE
  /\ raced' = \E q \in Requests : Unstored(q)
  /\ Go(r, "set")

\* (variant) the error is not sent.
FailsSilently(r) ==
  /\ Command(r, "load")
  /\ files[Target(r)] \in Bad
  /\ stale' = (stale \/ Reloading(r))
  /\ UNCHANGED <<mainVars, pc>>

\* The fault of an update or a rename that cannot load what it has saved.
LoadFails(r) ==
  /\ Command(r, "load")
  /\ files[Target(r)] \in Bad
  /\ stale' = (stale \/ Reloading(r))
  /\ Go(r, "done")
  /\ UNCHANGED mainVars

-----------------------------------------------------------------------------
(* The configuration: LocalConfig::set_..., and save.                       *)

HasSnapshot(q) == At(q, "truncate") \/ At(q, "flush")

\* (variant) a rename stores the name the file had.
StoredOld(r) == IF Op(r) = "setting" THEN [config EXCEPT !.other = r]
                                     ELSE [config EXCEPT !.active = File(r)]

Stored(r) == IF Op(r) = "setting" THEN [config EXCEPT !.other = r]
                                  ELSE [config EXCEPT !.active = Target(r)]

\* (variant) the setter does not save.
SetOnly(r) ==
  /\ At(r, "set")
  /\ config' = Stored(r)
  /\ mixed' = \E q \in Requests : HasSnapshot(q)
  /\ Go(r, "done")
  /\ UNCHANGED <<diskVars, mainVars, saved, snap, writeVars, queue, job, restarts>>

Set(r) ==
  /\ At(r, "set")
  /\ config' = Stored(r)
  /\ mixed' = \E q \in Requests : HasSnapshot(q)
  /\ Go(r, "snapshot")
  /\ UNCHANGED <<diskVars, mainVars, saved, snap, writeVars, queue, job, restarts>>

Snapshot(r) ==
  /\ At(r, "snapshot")
  /\ snap' = [snap EXCEPT ![r] = config]
  /\ Go(r, "truncate")
  /\ UNCHANGED <<diskVars, mainVars, config, saved, mixed, writeVars, queue, job, restarts>>

Truncate(r) ==
  /\ At(r, "truncate")
  /\ saved' = Empty
  /\ Go(r, "flush")
  /\ UNCHANGED <<diskVars, mainVars, config, snap, mixed, writeVars, queue, job, restarts>>

Flush(r) ==
  /\ At(r, "flush")
  /\ saved' \in Written(saved, snap[r])
  /\ Go(r, "done")
  /\ UNCHANGED <<diskVars, mainVars, config, snap, mixed, writeVars, queue, job, restarts>>

-----------------------------------------------------------------------------
(* The client leaves, and its handler is dropped at the await of an answer  *)
(* that has come and that it has not seen.  A client that leaves before the *)
(* answer takes the main thread with it, which unwraps the send: that is a  *)
(* stop of the program, below.                                              *)

\* The next step follows an answer; any other follows a step of the handler's
\* own.
Unseen(r) ==
  \/ At(r, "create") /\ Op(r) \in {"create", "update"}
  \/ At(r, "remove")
  \/ At(r, "load") /\ Op(r) # "change" /\ ~Asked(r)
  \/ Unstored(r)

ClientGone(r) ==
  /\ Unseen(r)
  /\ stale' = (stale \/ Reloading(r))
  /\ raced' = (raced \/ Unstored(r))
  /\ Go(r, "done")
  /\ UNCHANGED <<files, active, loaded, confVars, writeVars, queue, job, restarts>>

-----------------------------------------------------------------------------
(* The program is stopped anywhere, and started: main loads config.json, or *)
(* keeps the defaults, and saves it; init loads the active mapping, or      *)
(* writes default.json anew and makes that the active one.                  *)

\* (variants) config.json is not read; a mapping that cannot be loaded is used.
NotLoaded  == [active |-> Default, other |-> None]
NoFallback == FALSE

Loaded == IF saved \in Bad THEN [active |-> Default, other |-> None] ELSE saved
Fallback == files[Loaded.active] \in Bad

Restart ==
  /\ restarts < MaxRestarts /\ restarts' = restarts + 1
  /\ files' = IF Fallback THEN [files EXCEPT ![Default] = Default] ELSE files
  /\ active' = IF Fallback THEN Default ELSE Loaded.active
  /\ loaded' = files'[active']
  /\ config' = [Loaded EXCEPT !.active = active'] /\ saved' = config'
  /\ queue' = <<>>
  /\ pc' = [r \in Requests |-> IF At(r, "idle") THEN "idle" ELSE "done"]
  /\ at' = [r \in Requests |-> None]
  /\ stale' = FALSE /\ raced' = FALSE /\ mixed' = FALSE
  /\ UNCHANGED <<job, data, snap>>

Answer(r) == Validate(r) \/ GetActive(r) \/ LoadAndActivate(r) \/ LoadFails(r)

Handler(r) ==
  \/ Check(r) \/ Ask(r)
  \/ Read(r) \/ Create(r) \/ Write(r) \/ Move(r) \/ Remove(r)
  \/ Set(r) \/ Snapshot(r) \/ Truncate(r) \/ Flush(r)

Done == (\A r \in Requests : At(r, "done")) /\ UNCHANGED vars

Next ==
  \/ \E r \in Requests : Arrive(r) \/ Handler(r) \/ Answer(r) \/ ClientGone(r)
  \/ Restart \/ Done

Spec == Init /\ [][Next]_vars

\* The runtime polls every handler, and the main thread its queue.
Fairness == \A r \in Requests : WF_vars(Handler(r)) /\ WF_vars(Answer(r))

FairSpec == Spec /\ Fairness

-----------------------------------------------------------------------------
(* Properties.                                                              *)

\* The mapping in use is what its file says (web/mapping.rs:450, 300: an update
\* or a rename loads the active mapping again), but while the request that
\* changed the file has yet to load it again, and after one of these faults,
\* until the next activation: a delete, create, duplicate, migrate or rename
\* whose answer or check of the active name was out of date, an update or a
\* rename whose reload fails because another request is at the file, and one
\* whose client leaves before the reload is asked for.
ActiveFresh == ~stale => files[active] = loaded \/ \E r \in Requests : Reloading(r)

\* When no activation has yet to be stored, the configuration names the active
\* mapping (web/mapping.rs:71, 316, 466), unless an activation came before an
\* older one was stored, or its client left before it was.
ConfigFollows == (\A r \in Requests : ~Unstored(r)) /\ ~raced => config.active = active

\* While no setter runs, config.json holds the configuration (config.rs:110),
\* unless a setting was made before an older snapshot had been written.
Saving(r)    == At(r, "snapshot") \/ HasSnapshot(r)
SavedFollows == (\A r \in Requests : ~Saving(r)) /\ ~mixed => saved = config

\* A program that is stopped, in the middle of any request, without a fault
\* among those above, starts again with the same mapping and the same
\* configuration, and overwrites no file (mapping/mod.rs:130, main.rs:54).
\* Only three stops lose something: between the change of the active file and
\* its reload, between an activation and its setter, and before the setter
\* has saved.
Underway(r) == Reloading(r) \/ Unstored(r) \/ Saving(r)
RestartKeeps ==
  [][ restarts' # restarts /\ (\A r \in Requests : ~Underway(r)) /\ ~stale /\ ~raced /\ ~mixed
        => UNCHANGED <<files, active, loaded, config, saved>> ]_vars

\* Every request is answered, or its client leaves, or the program is stopped
\* before.
Answered == \A r \in Requests : ~At(r, "idle") ~> At(r, "done")
=============================================================================
