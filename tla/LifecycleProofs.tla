--------------------------- MODULE LifecycleProofs ---------------------------
(***************************************************************************)
(* Proofs about Lifecycle, for every value of its constants.               *)
(***************************************************************************)
EXTENDS Lifecycle, TLAPS

USE DEF NoTask, Task, Target

-----------------------------------------------------------------------------
(* Type correctness.                                                       *)

Types ==
    /\ mem \subseteq Target /\ disk \subseteq Target /\ clients \subseteq Target
    /\ handle \in [Target -> Task \cup {NoTask}]
    /\ lock \in [Kind -> {"free", "handler", "resume"}]
    /\ task \in [Task -> [of: Target, pc: AtAwait \cup {"leaving", "dead"}]]
    /\ resume \in [Target -> {"none", "check", "quitting", "look", "connecting",
                              "holding"}]
    /\ health \in [Target -> {"absent", "down", "up"}]
    /\ cmd \in [name: {"none", "login", "add", "on", "off", "disconnect", "logout"},
               on: Target]
    /\ phase \in {"idle", "connect", "deregister", "unclient", "unwatch", "adopt",
                  "holding", "remove"}
    /\ cur \subseteq Target /\ todo \subseteq Target /\ unwritten \subseteq Target
    /\ commands \in 0..MaxCommands /\ restarts \in 0..MaxRestarts

LEMMA Kinds ==
    /\ \A t \in Target : KindOf(t) \in Kind /\ t \in KindOf(t)
    /\ \A k \in Kind : \A t \in Target : t \in k <=> KindOf(t) = k
    /\ \A k \in Kind : k \subseteq Target
  BY TargetAssumption DEF KindOf, Kind

LEMMA NextIsUnused ==
    ASSUME Unused # {}
    PROVE  /\ NextTask \in Task /\ task[NextTask].pc = "dead"
           /\ \A t \in Target : handle[t] # NextTask
  <1>1. NextTask \in Unused
    BY DEF NextTask
  <1>2. QED
    BY <1>1 DEF Unused

LEMMA SetUpType ==
    ASSUME Types, NEW t \in Target, NEW who \in {"handler", "resume"}, Unused # {},
           SetUp(t, who)
    PROVE  /\ clients' \subseteq Target
           /\ handle' \in [Target -> Task \cup {NoTask}]
           /\ lock' \in [Kind -> {"free", "handler", "resume"}]
           /\ task' \in [Task -> [of: Target, pc: AtAwait \cup {"leaving", "dead"}]]
           /\ health' \in [Target -> {"absent", "down", "up"}]
  BY NextIsUnused, Kinds DEF Types, SetUp, AtAwait

LEMMA ReleaseType ==
    ASSUME Types, NEW t \in Target, Release(t)
    PROVE  /\ lock' \in [Kind -> {"free", "handler", "resume"}]
           /\ UNCHANGED <<clients, handle, task, health>>
  BY Kinds DEF Types, Release

LEMMA ResumeType ==
    ASSUME Types, NEW t \in Target, Resume(t)
    PROVE  Types'
  <1> USE DEF NotHandler, handler, registry, ResumeTo
  <1>1. CASE ResumeCheck(t)
    BY <1>1 DEF Types, ResumeCheck
  <1>2. CASE ResumeQuits(t)
    BY <1>2 DEF Types, ResumeQuits
  <1>3. CASE ResumeLook(t)
    BY <1>3 DEF Types, ResumeLook
  <1>4. CASE ResumeFails(t)
    BY <1>4 DEF Types, ResumeFails
  <1>5. CASE ResumeAdopts(t)
    <2>1. CASE UNCHANGED registry
      BY <1>5, <2>1 DEF Types, ResumeAdopts
    <2>2. CASE Unused # {} /\ SetUp(t, "resume")
      BY <1>5, <2>2, SetUpType DEF Types, ResumeAdopts
    <2>3. QED
      BY <1>5, <2>1, <2>2 DEF ResumeAdopts, Adopt
  <1>6. CASE ResumeDone(t)
    BY <1>6, ReleaseType DEF Types, ResumeDone
  <1>7. QED
    BY <1>1, <1>2, <1>3, <1>4, <1>5, <1>6 DEF Resume

LEMMA TaskType ==
    ASSUME Types, NEW w \in Task,
           NEW pc \in AtAwait \cup {"leaving", "dead"}, TaskTo(w, pc)
    PROVE  task' \in [Task -> [of: Target, pc: AtAwait \cup {"leaving", "dead"}]]
  <1> DEFINE new == IF pc = "dead" THEN Dead ELSE [task[w] EXCEPT !.pc = pc]
  <1>1. new \in [of: Target, pc: AtAwait \cup {"leaving", "dead"}]
    BY TargetAssumption DEF Types, Dead
  <1>2. task' = [task EXCEPT ![w] = new]
    BY DEF TaskTo
  <1> HIDE DEF new
  <1>3. QED
    BY <1>1, <1>2 DEF Types

LEMMA WatcherType ==
    ASSUME Types, NEW w \in Task, Watcher(w)
    PROVE  Types'
  <1> DEFINE Pcs == AtAwait \cup {"leaving", "dead"}
  <1>1. task[w].of \in Target /\ NextWait(w) \in Pcs
    BY DEF Types, NextWait, AtAwait
  <1>2. \E pc \in Pcs : TaskTo(w, pc)
    <2>1. {"dead", "backoff", "opening"} \subseteq Pcs
      BY DEF AtAwait
    <2>2. QED
      BY <1>1, <2>1 DEF Watcher, StreamOpens, Wakes, StreamFails, Retries, Leaves
  <1>3. task' \in [Task -> [of: Target, pc: Pcs]]
    BY <1>2, TaskType
  <1>4. health' \in [Target -> {"absent", "down", "up"}]
    BY <1>1 DEF Types, Watcher, StreamOpens, Wakes, StreamFails, Retries, Leaves, ShowHealth
  <1>5. QED
    BY <1>3, <1>4 DEF Types, Watcher, StreamOpens, Wakes, StreamFails, Retries, Leaves,
       WatcherFrame, NotHandler, handler

LEMMA CommandType ==
    ASSUME Types, Command
    PROVE  Types'
  <1>1. commands \in Nat /\ MaxCommands \in Nat
    BY BoundAssumption DEF Types
  <1>2. ASSUME NEW name \in {"login", "add", "on", "off", "disconnect", "logout"},
               NEW t \in Target, NEW first \in {"connect", "deregister"},
               Begin(name, t, first), cur' \subseteq Target
        PROVE  Types'
    BY <1>1, <1>2 DEF Types, Begin, registry, HandlerFrame
  <1>3. ASSUME NEW a \in Account, Login(a) \/ AddAccount(a) \/ Disconnect(a) PROVE Types'
    <2>1. cur' \subseteq Target
      BY <1>3 DEF Login, AddAccount, Disconnect, Types
    <2>2. \E name \in {"login", "add", "disconnect"}, first \in {"connect", "deregister"} :
             Begin(name, a, first)
      BY <1>3 DEF Login, AddAccount, Disconnect
    <2>3. QED
      BY <1>2, <2>1, <2>2
  <1>4. ASSUME NEW s \in Shared, OptIn(s) \/ OptOut(s) PROVE Types'
    <2>1. cur' \subseteq Target
      BY <1>4 DEF OptIn, OptOut, Types
    <2>2. \E name \in {"on", "off"}, first \in {"connect", "deregister"} :
             Begin(name, s, first)
      BY <1>4 DEF OptIn, OptOut
    <2>3. QED
      BY <1>2, <2>1, <2>2
  <1>5. CASE Logout
    BY <1>2, <1>5, TargetAssumption DEF Logout
  <1>6. ASSUME NEW t \in Target, CacheClient(t) PROVE Types'
    BY <1>1, <1>6 DEF Types, CacheClient, handler, HandlerFrame
  <1>7. QED
    BY <1>3, <1>4, <1>5, <1>6 DEF Command

LEMMA HandlerType ==
    ASSUME Types, HandlerStep
    PROVE  Types'
  <1> USE DEF HandlerFrame, registry
  <1>1. Idle \in [name: {"none", "login", "add", "on", "off", "disconnect", "logout"},
                 on: Target]
    BY TargetAssumption DEF Idle
  <1>2. CASE ConnectFails
    BY <1>1, <1>2 DEF Types, ConnectFails, Finish
  <1>3. CASE Connects
    BY <1>1, <1>3 DEF Types, Connects, Finish, AfterConnect
  <1>4. CASE Deregister
    BY <1>4 DEF Types, Deregister
  <1>5. CASE DropClients
    BY <1>5 DEF Types, DropClients
  <1>6. CASE Abort
    <2>1. handle' \in [Target -> Task \cup {NoTask}]
      BY <1>6 DEF Types, Abort
    <2>2. task' \in [Task -> [of: Target, pc: AtAwait \cup {"leaving", "dead"}]]
      BY <1>6, TargetAssumption DEF Types, Abort, Dead
    <2>3. /\ phase' \in {"adopt", "remove", "unclient", "deregister"}
          /\ cur' \subseteq Target /\ todo' \subseteq Target
      <3>1. PICK rest \in SUBSET Target : TearDownRest(rest)
        BY <1>6 DEF Abort, Types
      <3>2. QED
        BY <3>1 DEF TearDownRest
    <2>4. QED
      BY <1>6, <2>1, <2>2, <2>3 DEF Types, Abort
  <1>7. CASE HandlerAdopts
    <2>1. CASE UNCHANGED registry
      BY <1>1, <1>7, <2>1 DEF Types, HandlerAdopts, Finish
    <2>2. CASE Unused # {} /\ SetUp(cmd.on, "handler")
      BY <1>1, <1>7, <2>2, SetUpType DEF Types, HandlerAdopts, Finish
    <2>3. QED
      BY <1>7, <2>1, <2>2 DEF HandlerAdopts, Adopt
  <1>8. CASE HandlerReleases
    <2>1. cmd.on \in Target
      BY DEF Types
    <2>2. QED
      BY <1>1, <1>8, <2>1, ReleaseType DEF Types, HandlerReleases, Finish
  <1>9. CASE Remove
    BY <1>1, <1>9 DEF Types, Remove, Persist, Finish
  <1>10. QED
    BY <1>2, <1>3, <1>4, <1>5, <1>6, <1>7, <1>8, <1>9 DEF HandlerStep

LEMMA RestartType ==
    ASSUME Types, Restart
    PROVE  Types'
  <1>1. restarts' \in 0..MaxRestarts
    BY BoundAssumption DEF Types, Restart
  <1>2. QED
    BY <1>1, TargetAssumption DEF Types, Restart, Booted, Finish, Idle, Dead, Kind

LEMMA TypesStep == Types /\ [Next]_vars => Types'
  <1>1. Types /\ UNCHANGED vars => Types'
    BY DEF Types, vars, registry, handler
  <1>2. QED
    BY <1>1, ResumeType, WatcherType, CommandType, HandlerType, RestartType DEF Next

LEMMA TypesInit == Init => Types
  BY TargetAssumption, BoundAssumption DEF Init, Types, Idle, Dead, Kind

-----------------------------------------------------------------------------
(* The handler.                                                            *)

Tearing == {"deregister", "unclient", "unwatch"}

(* What each phase of a command knows of it. The accounts torn down are     *)
(* the one named, or all of them.                                          *)
HandlerInPlace ==
    /\ cmd.name \in {"login", "add", "disconnect"} => cmd.on \in Account
    /\ cmd.name \in {"on", "off"} => cmd.on \in Shared
    /\ phase = "connect" => cmd.name \in {"login", "add", "on"}
    /\ phase \in Tearing => cmd.name \in {"login", "off", "disconnect", "logout"}
    /\ phase \in {"adopt", "holding"} => cmd.name \in {"login", "add", "on"} /\ cmd.on \in mem
    /\ phase \in Tearing /\ cmd.name = "login" => cmd.on \in mem
    /\ phase = "remove" => cmd.name \in {"off", "disconnect", "logout"}
    /\ phase \in Tearing /\ cmd.name # "logout" => cur \subseteq Shared \/ cur = {cmd.on}
    /\ cmd.name # "logout" => todo \subseteq Shared
    /\ phase = "idle" => todo = {}

(* What a command begins with.                                             *)
Starts ==
    \/ \E a \in Account :
        \/ cmd' = [name |-> "login", on |-> a] /\ phase' = "connect"
        \/ /\ cmd' = [name |-> "add", on |-> a] /\ phase' = "connect"
           /\ handle[a] = NoTask /\ resume[a] = "none"
        \/ /\ cmd' = [name |-> "disconnect", on |-> a] /\ phase' = "deregister"
           /\ cur' = {a}
    \/ \E s \in Shared :
        \/ /\ cmd' = [name |-> "on", on |-> s] /\ phase' = "connect"
           /\ Parent[s] \in mem
        \/ /\ cmd' = [name |-> "off", on |-> s] /\ phase' = "deregister"
           /\ cur' = {s}
    \/ cmd' = [name |-> "logout", on |-> Default] /\ phase' = "deregister"

LEMMA CommandBegins ==
    ASSUME Types, Command
    PROVE  /\ UNCHANGED <<mem, disk, handle, lock, task, todo, unwritten, resume>>
           /\ UNCHANGED handler \/ (phase = "idle" /\ Starts)
  <1> USE DEF Begin, registry
  <1>1. ASSUME NEW a \in Account, Login(a) \/ AddAccount(a) \/ Disconnect(a)
        PROVE  phase = "idle" /\ Starts
    BY <1>1 DEF Login, AddAccount, Disconnect, Fresh, Starts
  <1>2. ASSUME NEW s \in Shared, OptIn(s) \/ OptOut(s)
        PROVE  phase = "idle" /\ Starts
    BY <1>2 DEF OptIn, OptOut, Starts
  <1>3. CASE Logout
    BY <1>3 DEF Logout, Starts, HandlerFrame
  <1>4. ASSUME NEW t \in Target, CacheClient(t)
        PROVE  UNCHANGED <<mem, disk, handle, lock, task, handler, unwritten, resume>>
    BY <1>4 DEF CacheClient, HandlerFrame
  <1>5. UNCHANGED <<mem, disk, handle, lock, task, todo, unwritten, resume>>
    BY <1>4 DEF Command, Login, AddAccount, Disconnect, OptIn, OptOut, Logout,
       HandlerFrame, handler
  <1>6. QED
    BY <1>1, <1>2, <1>3, <1>4, <1>5 DEF Command

(* Only the handler changes the record and where it stands itself.         *)
LEMMA OthersLeave ==
    ASSUME [Next]_vars, ~Command, ~HandlerStep, ~Restart
    PROVE  UNCHANGED <<mem, disk, handler, unwritten>>
  BY DEF Next, vars, Resume, ResumeCheck, ResumeQuits, ResumeLook, ResumeFails,
     ResumeAdopts, ResumeDone, Watcher, StreamOpens, Wakes, StreamFails, Retries,
     Leaves, WatcherFrame, NotHandler, handler

LEMMA PlaceStep == Types /\ HandlerInPlace /\ [Next]_vars => HandlerInPlace'
  <1> SUFFICES ASSUME Types, HandlerInPlace, [Next]_vars PROVE HandlerInPlace'
    OBVIOUS
  <1>1. CASE Command
    <2>1. CASE UNCHANGED handler
      BY <1>1, <2>1, CommandBegins DEF HandlerInPlace, handler, Tearing
    <2>2. CASE phase = "idle" /\ Starts
      <3>1. todo' = {}
        BY <1>1, <2>2, CommandBegins DEF HandlerInPlace
      <3>2. \/ /\ phase' = "connect" /\ cmd'.name \in {"login", "add"} /\ cmd'.on \in Account
            \/ /\ phase' = "connect" /\ cmd'.name = "on" /\ cmd'.on \in Shared
            \/ /\ phase' = "deregister" /\ cmd'.name = "disconnect"
               /\ cmd'.on \in Account /\ cur' = {cmd'.on}
            \/ /\ phase' = "deregister" /\ cmd'.name = "off"
               /\ cmd'.on \in Shared /\ cur' = {cmd'.on}
            \/ /\ phase' = "deregister" /\ cmd'.name = "logout"
        BY <2>2 DEF Starts
      <3>3. QED
        BY <3>1, <3>2 DEF HandlerInPlace, Tearing
    <2>3. QED
      BY <1>1, <2>1, <2>2, CommandBegins
  <1>2. CASE HandlerStep
    <2> USE DEF HandlerInPlace, Tearing, Finish, Idle
    <2>1. CASE ConnectFails \/ HandlerReleases \/ Remove
      BY <2>1 DEF ConnectFails, HandlerReleases, Remove
    <2>2. CASE Connects
      BY <2>2 DEF Connects, AfterConnect
    <2>3. CASE Deregister
      BY <2>3 DEF Deregister
    <2>4. CASE DropClients
      BY <2>4 DEF DropClients
    <2>5. CASE Abort
      <3>1. mem \cap Children({cmd.on}) \subseteq Shared
        BY DEF Children
      <3>2. PICK rest : TearDownRest(rest) /\ (cmd.name # "logout" => rest \subseteq Shared)
        BY <2>5, <3>1 DEF Abort
      <3>3. QED
        BY <2>5, <3>2 DEF Abort, TearDownRest
    <2>6. CASE HandlerAdopts
      BY <2>6 DEF HandlerAdopts
    <2>7. QED
      BY <1>2, <2>1, <2>2, <2>3, <2>4, <2>5, <2>6 DEF HandlerStep
  <1>3. CASE Restart
    BY <1>3 DEF Restart, Finish, Idle, HandlerInPlace, Tearing
  <1>4. CASE UNCHANGED <<mem, disk, handler, unwritten>>
    BY <1>4 DEF HandlerInPlace, handler, Tearing
  <1>5. QED
    BY <1>1, <1>2, <1>3, <1>4, OthersLeave

-----------------------------------------------------------------------------
(* Shared mailboxes.                                                       *)

ParentsHeld ==
    /\ SharedHasParent
    /\ phase = "connect" /\ cmd.name = "on" => Parent[cmd.on] \in mem

(* A record that loses an account loses what is under it.                  *)
LEMMA ParentsStep == Types /\ HandlerInPlace /\ ParentsHeld /\ [Next]_vars => ParentsHeld'
  <1> SUFFICES ASSUME Types, HandlerInPlace, ParentsHeld, [Next]_vars PROVE ParentsHeld'
    OBVIOUS
  <1>1. CASE Command
    BY <1>1, CommandBegins DEF Starts, ParentsHeld, SharedHasParent, handler
  <1>2. CASE Connects
    BY <1>2, TargetAssumption
    DEF Connects, AfterConnect, Finish, HandlerInPlace, ParentsHeld, SharedHasParent, Idle
  <1>3. CASE Remove
    <2>1. SharedHasParent'
      <3>1. \A s \in Shared : s \in mem' => Parent[s] \in mem'
        BY <1>3, TargetAssumption
        DEF Remove, Removed, Children, HandlerInPlace, ParentsHeld, SharedHasParent
      <3>2. disk' = mem' \/ disk' = disk
        BY <1>3 DEF Remove, Persist
      <3>3. QED
        BY <3>1, <3>2 DEF ParentsHeld, SharedHasParent
    <2>2. QED
      BY <1>3, <2>1 DEF Remove, Finish, ParentsHeld
  <1>4. CASE HandlerStep /\ ~Connects /\ ~Remove
    <2>1. UNCHANGED <<mem, disk>> /\ phase' # "connect"
      BY <1>4 DEF HandlerStep, ConnectFails, Deregister, DropClients, Abort,
         TearDownRest, HandlerAdopts, HandlerReleases, Finish
    <2>2. QED
      BY <2>1 DEF ParentsHeld, SharedHasParent
  <1>5. CASE Restart
    BY <1>5 DEF Restart, Finish, ParentsHeld, SharedHasParent
  <1>6. CASE UNCHANGED <<mem, disk, handler, unwritten>>
    BY <1>6 DEF ParentsHeld, SharedHasParent, handler
  <1>7. QED
    BY <1>1, <1>2, <1>3, <1>4, <1>5, <1>6, OthersLeave

-----------------------------------------------------------------------------
(* Tasks and the maps.                                                     *)

(* A handle's task is of its target, unless it is dead; an alive task is in *)
(* the map.                                                                *)
HandleOwns ==
    \A t \in Target :
        handle[t] # NoTask /\ task[handle[t]].pc # "dead" => task[handle[t]].of = t

StartsTask(t) ==
    /\ handle[t] = NoTask /\ Unused # {}
    /\ handle' = [handle EXCEPT ![t] = NextTask]
    /\ task' = [task EXCEPT ![NextTask] = [of |-> t, pc |-> "opening"]]

LEMMA TaskMoves ==
    ASSUME Types, [Next]_vars
    PROVE  \/ UNCHANGED <<handle, task>>
           \/ \E t \in Target : StartsTask(t)
           \/ \E w \in Task : Watcher(w)
           \/ Abort \/ Restart
  <1> USE DEF registry
  <1>1. ASSUME NEW t \in Target, Resume(t)
        PROVE  UNCHANGED <<handle, task>> \/ StartsTask(t)
    BY <1>1 DEF Resume, ResumeCheck, ResumeQuits, ResumeLook, ResumeFails, ResumeAdopts,
       ResumeDone, Adopt, SetUp, Release, StartsTask
  <1>2. CASE Command
    BY <1>2, CommandBegins
  <1>3. CASE HandlerStep
    <2>1. cmd.on \in Target
      BY DEF Types
    <2>2. CASE HandlerAdopts
      BY <2>1, <2>2 DEF HandlerAdopts, Adopt, SetUp, StartsTask
    <2>3. QED
      BY <1>3, <2>2 DEF HandlerStep, ConnectFails, Connects, Deregister, DropClients,
         HandlerReleases, Release, Remove
  <1>4. CASE UNCHANGED vars
    BY <1>4 DEF vars
  <1>5. QED
    BY <1>1, <1>2, <1>3, <1>4 DEF Next

(* A watcher's step changes nothing but where it stands, and one that left  *)
(* does not come back.                                                     *)
LEMMA WatcherMoves ==
    ASSUME Types, NEW w \in Task, Watcher(w)
    PROVE  /\ handle' = handle /\ resume' = resume
           /\ DOMAIN task' = Task /\ \A v \in Task \ {w} : task'[v] = task[v]
           /\ task'[w].pc # "dead" => task'[w].of = task[w].of /\ task[w].pc # "dead"
           /\ task'[w].pc \in AtAwait => task[w].pc \in AtAwait
           /\ task[w].pc \in AtAwait /\ task[w].of \in mem => task'[w].pc \in AtAwait
  <1>1. task[w] \in [of: Target, pc: AtAwait \cup {"leaving", "dead"}]
    BY DEF Types
  <1>2. handle' = handle /\ resume' = resume
    BY DEF Watcher, StreamOpens, Wakes, StreamFails, Retries, Leaves, WatcherFrame
  <1>3. ASSUME NEW pc \in {"opening", "waiting", "backoff", "leaving"}, TaskTo(w, pc)
        PROVE  /\ DOMAIN task' = Task /\ \A v \in Task \ {w} : task'[v] = task[v]
               /\ task'[w].of = task[w].of /\ task'[w].pc = pc
    BY <1>1, <1>3 DEF Types, TaskTo
  <1>4. CASE StreamOpens(w) \/ Wakes(w)
    <2>1. /\ TaskTo(w, NextWait(w)) /\ task[w].pc \in AtAwait
          /\ NextWait(w) \in {"waiting", "leaving"}
          /\ task[w].of \in mem => NextWait(w) = "waiting"
      BY <1>4 DEF StreamOpens, Wakes, NextWait, AtAwait
    <2>2. QED
      BY <1>2, <1>3, <2>1 DEF AtAwait
  <1>5. CASE StreamFails(w) \/ Retries(w)
    <2>1. /\ TaskTo(w, "backoff") \/ TaskTo(w, "opening")
          /\ task[w].pc \in AtAwait
      BY <1>5 DEF StreamFails, Retries, AtAwait
    <2>2. QED
      BY <1>2, <1>3, <2>1 DEF AtAwait
  <1>6. CASE Leaves(w)
    <2>1. task' = [task EXCEPT ![w] = Dead] /\ task[w].pc = "leaving"
      BY <1>6 DEF Leaves, TaskTo
    <2>2. /\ DOMAIN task' = Task /\ \A v \in Task \ {w} : task'[v] = task[v]
          /\ task'[w].pc = "dead"
      BY <2>1 DEF Types, Dead
    <2>3. QED
      BY <1>2, <2>1, <2>2 DEF AtAwait
  <1>7. QED
    BY <1>4, <1>5, <1>6 DEF Watcher

LEMMA OwnsStep == Types /\ HandleOwns /\ [Next]_vars => HandleOwns'
  <1> SUFFICES ASSUME Types, HandleOwns, [Next]_vars,
                      NEW t \in Target, handle'[t] # NoTask, task'[handle'[t]].pc # "dead"
               PROVE  task'[handle'[t]].of = t
    BY DEF HandleOwns
  <1>1. handle[t] \in Task \cup {NoTask}
    BY DEF Types
  <1>2. CASE UNCHANGED <<handle, task>>
    BY <1>2 DEF HandleOwns
  <1>3. ASSUME NEW u \in Target, StartsTask(u) PROVE task'[handle'[t]].of = t
    <2>1. /\ NextTask \in Task /\ task[NextTask].pc = "dead"
          /\ \A v \in Target : handle[v] # NextTask
      BY <1>3, NextIsUnused DEF StartsTask
    <2>2. CASE t = u
      BY <1>3, <2>1, <2>2 DEF StartsTask, Types
    <2>3. CASE t # u
      <3>1. handle'[t] = handle[t] /\ task'[handle[t]] = task[handle[t]]
        BY <1>1, <1>3, <2>1, <2>3 DEF StartsTask, Types
      <3>2. QED
        BY <3>1 DEF HandleOwns
    <2>4. QED
      BY <2>2, <2>3
  <1>4. ASSUME NEW w \in Task, Watcher(w) PROVE task'[handle'[t]].of = t
    BY <1>1, <1>4, WatcherMoves DEF HandleOwns
  <1>5. CASE Abort
    <2>1. handle'[t] = handle[t] /\ handle[t] \in Task
      BY <1>1, <1>5 DEF Abort
    <2>2. task'[handle[t]] = task[handle[t]]
      BY <1>5, <2>1 DEF Abort, Dead
    <2>3. QED
      BY <2>1, <2>2 DEF HandleOwns
  <1>6. CASE Restart
    BY <1>6 DEF Restart, Booted
  <1>7. QED
    BY <1>2, <1>3, <1>4, <1>5, <1>6, TaskMoves

LEMMA HeldStep == Types /\ WatcherIsHeld /\ [Next]_vars => WatcherIsHeld'
  <1> SUFFICES ASSUME Types, WatcherIsHeld, [Next]_vars,
                      NEW w \in Task, task'[w].pc \in AtAwait
               PROVE  handle'[task'[w].of] = w
    BY DEF WatcherIsHeld, Alive
  <1>1. task[w] \in [of: Target, pc: AtAwait \cup {"leaving", "dead"}] /\ w # NoTask
    BY DEF Types
  <1>2. CASE UNCHANGED <<handle, task>>
    BY <1>1, <1>2 DEF WatcherIsHeld, Alive
  <1>3. ASSUME NEW u \in Target, StartsTask(u) PROVE handle'[task'[w].of] = w
    <2>1. NextTask \in Task
      BY <1>3, NextIsUnused DEF StartsTask
    <2>2. CASE w = NextTask
      BY <1>3, <2>1, <2>2 DEF StartsTask, Types
    <2>3. CASE w # NextTask
      <3>1. task'[w] = task[w] /\ handle[task[w].of] = w
        BY <1>1, <1>3, <2>1, <2>3 DEF StartsTask, Types, WatcherIsHeld, Alive
      <3>2. task[w].of # u
        BY <1>1, <1>3, <3>1 DEF StartsTask
      <3>3. QED
        BY <1>1, <1>3, <3>1, <3>2 DEF StartsTask, Types
    <2>4. QED
      BY <2>2, <2>3
  <1>4. ASSUME NEW v \in Task, Watcher(v) PROVE handle'[task'[w].of] = w
    <2>1. task[w].pc \in AtAwait /\ task'[w].of = task[w].of /\ handle' = handle
      BY <1>4, WatcherMoves DEF AtAwait
    <2>2. QED
      BY <1>1, <2>1 DEF WatcherIsHeld, Alive
  <1>5. CASE Abort
    <2>1. task'[w] = task[w]
      BY <1>5 DEF Abort, Dead, AtAwait
    <2>2. handle[task[w].of] = w /\ Alive(w)
      BY <1>1, <2>1 DEF WatcherIsHeld, Alive
    <2>3. task[w].of \notin cur
      BY <1>5, <2>1, <2>2 DEF Abort, Dead, AtAwait
    <2>4. QED
      BY <1>1, <1>5, <2>1, <2>2, <2>3 DEF Abort
  <1>6. CASE Restart
    BY <1>6 DEF Restart, Booted, Dead, AtAwait
  <1>7. QED
    BY <1>2, <1>3, <1>4, <1>5, <1>6, TaskMoves

-----------------------------------------------------------------------------
(* The locks of the maps.                                                  *)

LockHeld ==
    /\ \A k \in Kind :
         /\ lock[k] = "handler" <=> phase = "holding" /\ cmd.on \in k
         /\ lock[k] = "resume" <=> \E t \in k : resume[t] = "holding"
    /\ \A t, u \in Target :
         resume[t] = "holding" /\ resume[u] = "holding" /\ KindOf(t) = KindOf(u)
           => t = u

LEMMA LockResume ==
    ASSUME Types, LockHeld, NEW t \in Target, Resume(t)
    PROVE  LockHeld'
  <1>1. KindOf(t) \in Kind /\ UNCHANGED <<phase, cmd>>
    BY Kinds DEF Resume, ResumeCheck, ResumeQuits, ResumeLook, ResumeFails, ResumeAdopts,
       ResumeDone, NotHandler, handler
  <1>2. /\ resume'[t] \in {"none", "check", "quitting", "look", "connecting", "holding"}
        /\ \A u \in Target \ {t} : resume'[u] = resume[u]
    BY ResumeType DEF Types, Resume, ResumeCheck, ResumeQuits, ResumeLook, ResumeFails,
       ResumeAdopts, ResumeDone, ResumeTo
  <1>3. CASE lock' = lock /\ resume[t] # "holding" /\ resume'[t] # "holding"
    BY <1>1, <1>2, <1>3, Kinds DEF LockHeld
  <1>4. CASE /\ lock[KindOf(t)] = "free" /\ resume'[t] = "holding"
             /\ lock' = [lock EXCEPT ![KindOf(t)] = "resume"]
    <2>1. \A u \in Target : KindOf(u) = KindOf(t) => resume[u] # "holding"
      BY <1>1, <1>4, Kinds DEF LockHeld
    <2>2. /\ lock'[KindOf(t)] = "resume"
          /\ \A k \in Kind \ {KindOf(t)} : lock'[k] = lock[k]
      BY <1>1, <1>4 DEF Types
    <2>3. ~(phase = "holding" /\ cmd.on \in KindOf(t))
      BY <1>1, <1>4 DEF LockHeld
    <2>4. QED
      BY <1>1, <1>2, <1>4, <2>1, <2>2, <2>3, Kinds DEF LockHeld
  <1>5. CASE /\ resume[t] = "holding" /\ resume'[t] = "none"
             /\ lock' = [lock EXCEPT ![KindOf(t)] = "free"]
    <2>1. \A u \in Target \ {t} : KindOf(u) = KindOf(t) => resume[u] # "holding"
      BY <1>5 DEF LockHeld
    <2>2. /\ lock'[KindOf(t)] = "free"
          /\ \A k \in Kind \ {KindOf(t)} : lock'[k] = lock[k]
      BY <1>1, <1>5 DEF Types
    <2>3. lock[KindOf(t)] = "resume"
      BY <1>1, <1>5, Kinds DEF LockHeld
    <2>4. ~(phase = "holding" /\ cmd.on \in KindOf(t))
      BY <1>1, <2>3 DEF LockHeld
    <2>5. QED
      BY <1>1, <1>2, <1>5, <2>1, <2>2, <2>4, Kinds DEF LockHeld
  <1>6. CASE ResumeAdopts(t)
    BY <1>3, <1>4, <1>6 DEF ResumeAdopts, ResumeTo, Adopt, SetUp, registry, Types
  <1>7. CASE ResumeDone(t)
    BY <1>5, <1>7 DEF ResumeDone, ResumeTo, Release, Types
  <1>8. CASE ResumeCheck(t) \/ ResumeQuits(t) \/ ResumeLook(t) \/ ResumeFails(t)
    BY <1>3, <1>8 DEF ResumeCheck, ResumeQuits, ResumeLook, ResumeFails, ResumeTo,
       registry, Types
  <1>9. QED
    BY <1>6, <1>7, <1>8 DEF Resume

LEMMA LockStep == Types /\ LockHeld /\ [Next]_vars => LockHeld'
  <1> SUFFICES ASSUME Types, LockHeld, [Next]_vars PROVE LockHeld'
    OBVIOUS
  <1>1. ASSUME NEW t \in Target, Resume(t) PROVE LockHeld'
    BY <1>1, LockResume
  <1>2. ASSUME UNCHANGED <<lock, resume>>,
               (phase' = phase /\ cmd' = cmd) \/ (phase # "holding" /\ phase' # "holding")
        PROVE  LockHeld'
    BY <1>2 DEF LockHeld
  <1>3. ASSUME NEW w \in Task, Watcher(w) PROVE LockHeld'
    BY <1>2, <1>3 DEF Watcher, StreamOpens, Wakes, StreamFails, Retries, Leaves,
       WatcherFrame, NotHandler, handler
  <1>4. CASE Command
    <2>1. UNCHANGED handler \/ (phase = "idle" /\ phase' \in {"connect", "deregister"})
      BY <1>4, CommandBegins DEF Starts
    <2>2. QED
      BY <1>2, <1>4, <2>1, CommandBegins DEF handler
  <1>5. CASE HandlerAdopts
    <2>1. cmd.on \in Target /\ KindOf(cmd.on) \in Kind /\ phase = "adopt" /\ resume' = resume
      BY <1>5, Kinds DEF Types, HandlerAdopts, HandlerFrame
    <2>2. CASE phase' = "idle" /\ lock' = lock
      BY <1>2, <2>1, <2>2
    <2>3. CASE /\ phase' = "holding" /\ cmd' = cmd /\ lock[KindOf(cmd.on)] = "free"
               /\ lock' = [lock EXCEPT ![KindOf(cmd.on)] = "handler"]
      <3>1. /\ lock'[KindOf(cmd.on)] = "handler"
            /\ \A k \in Kind \ {KindOf(cmd.on)} : lock'[k] = lock[k]
        BY <2>1, <2>3 DEF Types
      <3>2. QED
        BY <2>1, <2>3, <3>1, Kinds DEF LockHeld
    <2>4. QED
      BY <1>5, <2>2, <2>3 DEF HandlerAdopts, Adopt, SetUp, Finish, registry
  <1>6. CASE HandlerReleases
    <2>1. /\ cmd.on \in Target /\ KindOf(cmd.on) \in Kind /\ phase = "holding"
          /\ resume' = resume /\ phase' = "idle"
      BY <1>6, Kinds DEF Types, HandlerReleases, Finish, HandlerFrame
    <2>2. /\ lock'[KindOf(cmd.on)] = "free"
          /\ \A k \in Kind \ {KindOf(cmd.on)} : lock'[k] = lock[k]
      BY <1>6, <2>1 DEF HandlerReleases, Release, Types
    <2>3. QED
      BY <2>1, <2>2, Kinds DEF LockHeld
  <1>7. CASE HandlerStep /\ ~HandlerAdopts /\ ~HandlerReleases
    <2>1. UNCHANGED <<lock, resume>> /\ phase # "holding" /\ phase' # "holding"
      BY <1>7 DEF HandlerStep, ConnectFails, Connects, AfterConnect, Deregister, DropClients,
         Abort, TearDownRest, Remove, Finish, HandlerFrame, registry
    <2>2. QED
      BY <1>2, <2>1
  <1>8. CASE Restart
    BY <1>8, Kinds DEF Restart, Booted, Finish, LockHeld
  <1>9. CASE UNCHANGED vars
    BY <1>2, <1>9 DEF vars, registry, handler
  <1>10. QED
    BY <1>1, <1>3, <1>4, <1>5, <1>6, <1>7, <1>8, <1>9 DEF Next

-----------------------------------------------------------------------------
(* Accounts.                                                               *)

(* The map has the target's watcher or nothing: no watcher that has left.  *)
Clear(t) == handle[t] = NoTask \/ Alive(handle[t])

(* The accounts the command being run is about to adopt or to remove.      *)
Exempt ==
    IF phase \in {"idle", "connect", "holding"} THEN {}
    ELSE IF cmd.name = "logout" THEN Account
    ELSE IF cmd.name \in {"login", "add", "disconnect"} THEN {cmd.on} ELSE {}

(* Every other account is watched or being resumed, and no resume or login  *)
(* can take a watcher that has left for one that works.                    *)
AccountsHeld ==
    /\ \A a \in (mem \cap Account) \ (unwritten \cup Exempt) :
          Clear(a) /\ (Watched(a) \/ Resuming(a))
    /\ phase = "adopt" /\ cmd.on \in Account => Clear(cmd.on)
    /\ phase \in Tearing /\ cmd.name = "login" /\ cmd.on \notin cur => Clear(cmd.on)
    /\ phase = "connect" /\ cmd.name = "add" =>
          handle[cmd.on] = NoTask /\ resume[cmd.on] = "none"

(* A watcher that is wanted goes on, until it is aborted.                   *)
LEMMA AliveStays ==
    ASSUME Types, HandleOwns, [Next]_vars, ~Restart,
           NEW a \in mem, Abort => a \notin cur
    PROVE  /\ Watched(a) => Watched(a)'
           /\ Clear(a) => Clear(a)'
  <1>1. a \in Target /\ handle[a] \in Task \cup {NoTask} /\ handle'[a] \in Task \cup {NoTask}
    BY TypesStep DEF Types
  <1>2. CASE UNCHANGED <<handle, task>>
    BY <1>2 DEF Watched, Clear, Alive
  <1>3. ASSUME NEW u \in Target, StartsTask(u)
        PROVE  (Watched(a) => Watched(a)') /\ (Clear(a) => Clear(a)')
    <2>1. NextTask \in Task /\ handle[a] # NextTask
      BY <1>1, <1>3, NextIsUnused DEF StartsTask
    <2>2. CASE u = a
      <3>1. handle[a] = NoTask /\ handle'[a] = NextTask /\ task'[NextTask].pc = "opening"
        BY <1>3, <2>1, <2>2 DEF StartsTask, Types
      <3>2. QED
        BY <2>1, <3>1 DEF Watched, Clear, Alive, AtAwait
    <2>3. CASE u # a
      <3>1. handle'[a] = handle[a] /\ (handle[a] # NoTask => task'[handle[a]] = task[handle[a]])
        BY <1>1, <1>3, <2>1, <2>3 DEF StartsTask, Types
      <3>2. QED
        BY <3>1 DEF Watched, Clear, Alive
    <2>4. QED
      BY <2>2, <2>3
  <1>4. ASSUME NEW w \in Task, Watcher(w)
        PROVE  (Watched(a) => Watched(a)') /\ (Clear(a) => Clear(a)')
    <2>1. handle' = handle
      BY <1>4, WatcherMoves
    <2>2. Watched(a) => Watched(a)'
      <3> SUFFICES ASSUME Watched(a) PROVE task'[handle[a]].pc \in AtAwait
        BY <2>1 DEF Watched, Alive
      <3>1. handle[a] \in Task /\ task[handle[a]].pc \in AtAwait /\ task[handle[a]].of = a
        BY <1>1 DEF Watched, Alive, HandleOwns, AtAwait
      <3>2. QED
        BY <1>4, <3>1, WatcherMoves
    <2>3. QED
      BY <2>1, <2>2 DEF Watched, Clear
  <1>5. CASE Abort
    <2>1. a \notin cur /\ handle'[a] = handle[a]
      BY <1>1, <1>5 DEF Abort
    <2>2. Watched(a) => Watched(a)'
      <3> SUFFICES ASSUME Watched(a) PROVE task'[handle[a]] = task[handle[a]]
        BY <2>1 DEF Watched, Alive
      <3>1. handle[a] \in Task /\ task[handle[a]].pc # "dead" /\ task[handle[a]].of = a
        BY <1>1 DEF Watched, Alive, HandleOwns, AtAwait
      <3>2. \A t \in cur : handle[t] # handle[a]
        BY <2>1, <3>1 DEF HandleOwns, Types
      <3>3. QED
        BY <1>5, <3>1, <3>2 DEF Abort
    <2>3. QED
      BY <2>1, <2>2 DEF Watched, Clear
  <1>6. QED
    BY <1>2, <1>3, <1>4, <1>5, TaskMoves

(* A resume goes on until the target is watched.                           *)
LEMMA FineStays ==
    ASSUME Types, HandleOwns, [Next]_vars, ~Restart,
           NEW a \in mem, Abort => a \notin cur,
           Clear(a), Watched(a) \/ Resuming(a)
    PROVE  Clear(a)' /\ (Watched(a) \/ Resuming(a))'
  <1>1. CASE Watched(a)
    BY <1>1, AliveStays
  <1>2. CASE handle[a] = NoTask /\ Resuming(a)
    <2>1. a \in Target
      BY DEF Types
    <2>2. CASE Resume(a)
      <3>1. CASE ResumeAdopts(a)
        <4>1. StartsTask(a)
          BY <1>2, <3>1 DEF ResumeAdopts, Adopt, SetUp, StartsTask
        <4>2. NextTask \in Task
          BY <4>1, NextIsUnused DEF StartsTask
        <4>3. handle'[a] = NextTask /\ task'[NextTask].pc = "opening"
          BY <2>1, <4>1, <4>2 DEF StartsTask, Types
        <4>4. QED
          BY <4>2, <4>3 DEF Watched, Clear, Alive, AtAwait
      <3>2. CASE ResumeCheck(a) \/ ResumeLook(a) \/ ResumeFails(a)
        <4>1. resume'[a] \in {"check", "look", "connecting"}
          BY <1>2, <2>1, <3>2 DEF ResumeCheck, ResumeLook, ResumeFails, ResumeTo, Types
        <4>2. QED
          BY <4>1, AliveStays DEF Resuming
      <3>3. QED
        BY <1>2, <2>2, <3>1, <3>2 DEF Resume, ResumeQuits, ResumeDone, Resuming
    <2>3. CASE ~Resume(a)
      <3>1. resume'[a] = resume[a]
        <4>1. ASSUME NEW t \in Target \ {a}, Resume(t) PROVE resume'[a] = resume[a]
          BY <4>1 DEF Resume, ResumeCheck, ResumeQuits, ResumeLook, ResumeFails,
             ResumeAdopts, ResumeDone, ResumeTo, Types
        <4>2. ASSUME NEW w \in Task, Watcher(w) PROVE resume' = resume
          BY <4>2, WatcherMoves
        <4>3. Command => resume' = resume
          BY CommandBegins
        <4>4. HandlerStep => resume' = resume
          BY DEF HandlerStep, HandlerFrame, ConnectFails, Connects, Deregister, DropClients,
             Abort, HandlerAdopts, HandlerReleases, Remove
        <4>5. QED
          BY <2>1, <2>3, <4>1, <4>2, <4>3, <4>4 DEF Next, vars
      <3>2. QED
        BY <1>2, <3>1, AliveStays DEF Resuming
    <2>4. QED
      BY <2>2, <2>3
  <1>3. QED
    BY <1>1, <1>2 DEF Clear, Watched

(* The accounts that are no longer exempt, or newly in the record, must be  *)
(* shown to be held; the others stay so.                                   *)
LEMMA AccountsKept ==
    ASSUME Types, HandleOwns, HandlerInPlace, AccountsHeld, [Next]_vars, ~Restart,
           NEW a \in (mem \cap Account) \ (unwritten \cup Exempt)
    PROVE  Clear(a)' /\ (Watched(a) \/ Resuming(a))'
  <1>1. Abort => a \notin cur
    <2>1. Abort => phase = "unwatch" /\ cmd.name \in {"login", "off", "disconnect", "logout"}
      BY DEF Abort, HandlerInPlace, Tearing
    <2>2. SUFFICES ASSUME Abort, a \in cur PROVE FALSE
      OBVIOUS
    <2>3. cmd.name # "logout"
      BY <2>1, <2>2 DEF Exempt
    <2>4. cur = {cmd.on} /\ cmd.on \in Account
      BY <2>1, <2>2, <2>3, TargetAssumption DEF HandlerInPlace, Tearing
    <2>5. cmd.name # "off"
      BY <2>4, TargetAssumption DEF HandlerInPlace
    <2>6. QED
      BY <2>1, <2>2, <2>3, <2>4, <2>5 DEF Exempt
  <1>2. Clear(a) /\ (Watched(a) \/ Resuming(a))
    BY DEF AccountsHeld
  <1>3. QED
    BY <1>1, <1>2, FineStays

LEMMA AccountsCommand ==
    ASSUME Types, HandleOwns, HandlerInPlace, AccountsHeld, [Next]_vars, ~Restart, Command
    PROVE  AccountsHeld'
  <1>1. UNCHANGED <<mem, handle, task, unwritten, resume>>
    BY CommandBegins
  <1>2. \A t : /\ Clear(t)' <=> Clear(t)
               /\ Watched(t)' <=> Watched(t)
               /\ Resuming(t)' <=> Resuming(t)
    BY <1>1 DEF Clear, Watched, Resuming, Alive
  <1>3. CASE UNCHANGED handler
    <2>1. Exempt' = Exempt
      BY <1>3 DEF Exempt, handler
    <2>2. QED
      BY <1>1, <1>2, <1>3, <2>1 DEF AccountsHeld, handler
  <1>4. CASE phase = "idle" /\ Starts
    <2>1. Exempt = {}
      BY <1>4 DEF Exempt
    <2>2. \/ /\ phase' = "connect"
             /\ cmd'.name = "add" => handle[cmd'.on] = NoTask /\ resume[cmd'.on] = "none"
          \/ phase' = "deregister" /\ cmd'.name # "login"
      BY <1>4 DEF Starts
    <2>3. QED
      BY <1>1, <1>2, <2>1, <2>2 DEF AccountsHeld, Tearing
  <1>5. QED
    BY <1>3, <1>4, CommandBegins

LEMMA AccountsOthers ==
    ASSUME Types, HandleOwns, HandlerInPlace, AccountsHeld, [Next]_vars, ~Restart,
           ~Command, ~HandlerStep
    PROVE  AccountsHeld'
  <1>1. UNCHANGED <<mem, disk, handler, unwritten>>
    BY OthersLeave
  <1>2. Exempt' = Exempt
    BY <1>1 DEF Exempt, handler
  <1>3. ~Abort /\ cmd.on \in Target
    BY DEF HandlerStep, Types
  <1>4. \A a \in mem : Clear(a) => Clear(a)'
    BY <1>3, AliveStays
  <1>5. cmd.name = "add" /\ phase = "connect" =>
          handle'[cmd.on] = NoTask /\ resume'[cmd.on] = "none"
    <2> SUFFICES ASSUME cmd.name = "add", phase = "connect",
                        handle[cmd.on] = NoTask, resume[cmd.on] = "none"
                 PROVE  handle'[cmd.on] = NoTask /\ resume'[cmd.on] = "none"
      BY DEF AccountsHeld
    <2>1. ASSUME NEW t \in Target, Resume(t)
          PROVE  handle'[cmd.on] = NoTask /\ resume'[cmd.on] = "none"
      <3>1. t # cmd.on
        BY <2>1 DEF Resume, ResumeCheck, ResumeQuits, ResumeLook, ResumeFails,
           ResumeAdopts, ResumeDone
      <3>2. QED
        BY <1>3, <2>1, <3>1 DEF Resume, ResumeCheck, ResumeQuits, ResumeLook, ResumeFails,
           ResumeAdopts, ResumeDone, ResumeTo, Adopt, SetUp, Release, registry, Types
    <2>2. ASSUME NEW w \in Task, Watcher(w)
          PROVE  handle'[cmd.on] = NoTask /\ resume'[cmd.on] = "none"
      BY <2>2, WatcherMoves
    <2>3. UNCHANGED vars => handle'[cmd.on] = NoTask /\ resume'[cmd.on] = "none"
      BY DEF vars, registry
    <2>4. QED
      BY <2>1, <2>2, <2>3 DEF Next
  <1>6. \A a \in (mem' \cap Account) \ (unwritten' \cup Exempt') :
           Clear(a)' /\ (Watched(a) \/ Resuming(a))'
    BY <1>1, <1>2, AccountsKept
  <1>7. QED
    BY <1>1, <1>4, <1>5, <1>6 DEF AccountsHeld, handler, HandlerInPlace, Tearing

LEMMA AccountsHandler ==
    ASSUME Types, HandleOwns, HandlerInPlace, AccountsHeld, [Next]_vars, ~Restart,
           HandlerStep
    PROVE  AccountsHeld'
  <1>1. ASSUME \A a \in (mem' \cap Account) \ (unwritten' \cup Exempt') :
                  \/ a \in mem /\ a \notin unwritten \cup Exempt
                  \/ Clear(a)' /\ (Watched(a) \/ Resuming(a))'
        PROVE  \A a \in (mem' \cap Account) \ (unwritten' \cup Exempt') :
                  Clear(a)' /\ (Watched(a) \/ Resuming(a))'
    BY <1>1, AccountsKept
  <1>2. cmd.on \in Target /\ Account \cap Shared = {}
    BY TargetAssumption DEF Types
  <1>3. CASE ConnectFails \/ HandlerReleases
    <2>1. phase' = "idle" /\ mem' = mem /\ unwritten' = unwritten /\ Exempt = {} /\ Exempt' = {}
      BY <1>3 DEF ConnectFails, HandlerReleases, Finish, Exempt
    <2>2. QED
      BY <1>1, <2>1 DEF AccountsHeld, Tearing
  <1>4. CASE Connects
    <2>1. phase = "connect" /\ mem' = mem \cup {cmd.on} /\ Exempt = {}
          /\ handle' = handle /\ task' = task
      BY <1>4 DEF Connects, Exempt, registry
    <2>2. CASE /\ unwritten' = unwritten \ {cmd.on} /\ phase' = AfterConnect /\ cmd' = cmd
               /\ cur' = IF AfterConnect = "deregister" THEN {cmd.on} ELSE {}
      <3>1. \A a \in (mem' \cap Account) \ (unwritten' \cup Exempt') : a # cmd.on
        BY <1>2, <2>1, <2>2 DEF AfterConnect, Exempt, HandlerInPlace
      <3>2. phase' = "adopt" /\ cmd.on \in Account => Clear(cmd.on)'
        BY <1>2, <2>1, <2>2 DEF AfterConnect, HandlerInPlace, AccountsHeld, Clear
      <3>3. QED
        BY <1>1, <2>1, <2>2, <3>1, <3>2 DEF AccountsHeld, AfterConnect, Tearing
    <2>3. CASE unwritten' = unwritten \cup {cmd.on} /\ Finish
      BY <1>1, <2>1, <2>3 DEF AccountsHeld, Finish, Tearing
    <2>4. QED
      BY <1>4, <2>2, <2>3 DEF Connects
  <1>5. CASE Deregister \/ DropClients
    <2>1. /\ phase \in Tearing /\ phase' \in Tearing /\ cmd' = cmd /\ mem' = mem
          /\ unwritten' = unwritten /\ UNCHANGED <<handle, task>>
          /\ cmd.name # "logout" => cur' = cur
      BY <1>5 DEF Deregister, DropClients, Tearing
    <2>2. Exempt' = Exempt
      BY <2>1 DEF Exempt, Tearing
    <2>3. Clear(cmd.on)' <=> Clear(cmd.on)
      BY <2>1 DEF Clear, Alive
    <2>4. QED
      BY <1>1, <2>1, <2>2, <2>3 DEF AccountsHeld, Tearing
  <1>6. CASE Abort
    <2>1. /\ phase = "unwatch" /\ phase' \in Tearing \cup {"adopt", "remove"}
          /\ cmd' = cmd /\ mem' = mem /\ unwritten' = unwritten
          /\ phase' = "adopt" => cmd.name = "login"
      BY <1>6 DEF Abort, TearDownRest, Tearing
    <2>2. Exempt' = Exempt
      BY <2>1 DEF Exempt, Tearing
    <2>3. cmd.name = "login" => Clear(cmd.on)'
      <3> SUFFICES ASSUME cmd.name = "login" PROVE Clear(cmd.on)'
        OBVIOUS
      <3>1. CASE cmd.on \in cur
        BY <1>2, <1>6, <3>1 DEF Abort, Clear
      <3>2. CASE cmd.on \notin cur
        <4>1. PICK o \in mem : o = cmd.on /\ Clear(o)
          BY <2>1, <3>2 DEF AccountsHeld, HandlerInPlace, Tearing
        <4>2. Clear(o)'
          BY <3>2, <4>1, AliveStays
        <4>3. QED
          BY <2>1, <4>1, <4>2
      <3>3. QED
        BY <3>1, <3>2
    <2>4. QED
      BY <1>1, <2>1, <2>2, <2>3 DEF AccountsHeld, Tearing
  <1>7. CASE HandlerAdopts
    <2>1. /\ phase = "adopt" /\ mem' = mem /\ unwritten' = unwritten
          /\ cmd.on \in mem /\ Exempt \subseteq {cmd.on}
          /\ cmd.on \in Account => Clear(cmd.on)
          /\ phase' \in {"idle", "holding"} /\ Exempt' = {}
      BY <1>7 DEF HandlerAdopts, HandlerInPlace, Exempt, AccountsHeld, Finish
    <2>2. ~Abort
      BY <2>1 DEF Abort
    <2> PICK o \in mem : o = cmd.on
      BY <2>1
    <2>3. o \in Account => Clear(o)' /\ Watched(o)'
      <3>1. CASE handle[o] # NoTask
        <4>1. o \in Account => Watched(o)
          BY <2>1, <3>1 DEF Clear, Watched
        <4>2. QED
          BY <2>1, <2>2, <4>1, AliveStays
      <3>2. CASE handle[o] = NoTask
        <4>1. StartsTask(o)
          BY <1>7, <3>2 DEF HandlerAdopts, Adopt, SetUp, StartsTask
        <4>2. NextTask \in Task
          BY <4>1, NextIsUnused DEF StartsTask
        <4>3. handle'[o] = NextTask /\ task'[NextTask].pc = "opening"
          BY <1>2, <4>1, <4>2 DEF StartsTask, Types
        <4>4. QED
          BY <4>2, <4>3 DEF Watched, Clear, Alive, AtAwait
      <3>3. QED
        BY <3>1, <3>2
    <2>4. QED
      BY <1>1, <2>1, <2>3 DEF AccountsHeld, Tearing
  <1>8. CASE Remove
    <2>1. phase = "remove" /\ phase' = "idle" /\ Exempt' = {}
      BY <1>8 DEF Remove, Finish, Exempt
    <2>2. \A a \in (mem' \cap Account) \ unwritten' : a \in mem /\ a \notin unwritten \cup Exempt
      BY <1>2, <1>8 DEF Remove, Removed, Children, Exempt, HandlerInPlace
    <2>3. QED
      BY <1>1, <2>1, <2>2 DEF AccountsHeld, Tearing
  <1>9. QED
    BY <1>3, <1>4, <1>5, <1>6, <1>7, <1>8 DEF HandlerStep

LEMMA AccountsStep ==
    Types /\ HandleOwns /\ HandlerInPlace /\ AccountsHeld /\ [Next]_vars => AccountsHeld'
  <1>1. Types /\ Restart => AccountsHeld'
    BY DEF Types, Restart, Booted, Finish, Idle, AccountsHeld, Clear, Resuming, Tearing
  <1>2. QED
    BY <1>1, AccountsCommand, AccountsHandler, AccountsOthers

-----------------------------------------------------------------------------
(* The theorems.                                                           *)

IInv ==
    /\ Types /\ HandlerInPlace /\ ParentsHeld /\ HandleOwns /\ WatcherIsHeld
    /\ LockHeld /\ AccountsHeld

LEMMA IInvInit == Init => IInv
  <1> SUFFICES ASSUME Init PROVE IInv
    OBVIOUS
  <1>1. HandlerInPlace
    BY DEF Init, HandlerInPlace, Idle, Tearing
  <1>2. ParentsHeld
    BY TargetAssumption DEF Init, ParentsHeld, SharedHasParent
  <1>3. HandleOwns /\ WatcherIsHeld
    BY DEF Init, HandleOwns, WatcherIsHeld, Alive, Dead, AtAwait
  <1>4. LockHeld
    BY Kinds DEF Init, LockHeld
  <1>5. AccountsHeld
    BY DEF Init, AccountsHeld, Clear, Resuming, Tearing
  <1>6. QED
    BY <1>1, <1>2, <1>3, <1>4, <1>5, TypesInit DEF IInv

LEMMA IInvStep == IInv /\ [Next]_vars => IInv'
  BY TypesStep, PlaceStep, ParentsStep, OwnsStep, HeldStep, LockStep, AccountsStep DEF IInv

LEMMA Invariance == Spec => []IInv
  BY IInvInit, IInvStep, PTL DEF Spec

(* The maps keep their types, and a map is locked exactly while the topic   *)
(* of one target is created: a login and a resume never both hold it.      *)
THEOREM TypeCorrect == Spec => []TypeOK
  <1>1. IInv => TypeOK
    BY DEF IInv, Types, LockHeld, TypeOK
  <1>2. QED
    BY <1>1, Invariance, PTL

(* Whatever number of accounts, shared mailboxes, tasks and resumes, no     *)
(* watcher is alive that a teardown would not find, and none twice.        *)
THEOREM NoStrayWatcher == Spec => []WatcherIsHeld
  <1>1. IInv => WatcherIsHeld
    BY DEF IInv
  <1>2. QED
    BY <1>1, Invariance, PTL

(* A shared mailbox is in the record only with its account, in memory and  *)
(* in the file, whichever of the file's writes fail.                       *)
THEOREM NoOrphan == Spec => []SharedHasParent
  <1>1. IInv => SharedHasParent
    BY DEF IInv, ParentsHeld
  <1>2. QED
    BY <1>1, Invariance, PTL

(* Between two commands every account of the record is watched or on its   *)
(* way to be.                                                              *)
THEOREM NoAccountForgotten == Spec => []AccountIsWatched
  <1>1. IInv => AccountIsWatched
    BY DEF IInv, AccountsHeld, AccountIsWatched, Exempt
  <1>2. QED
    BY <1>1, Invariance, PTL

====
