----------------------------- MODULE Lifecycle -----------------------------
(***************************************************************************)
(* Which tasks watch which mailboxes of one chat: the command handler of   *)
(* src/bot.rs, which runs one command at a time, the boot-time resume      *)
(* tasks of src/accounts.rs, the watcher tasks of src/watcher.rs, and what *)
(* they share: the persisted record, the maps of src/state.rs with their   *)
(* locks, and the health registry of src/health.rs.                        *)
(*                                                                         *)
(* A target is an account or a shared mailbox of one. A step is what runs  *)
(* between two awaits, or between two uses of shared state where another   *)
(* thread can come in between. What a watcher does with mail is in         *)
(* MailSync.                                                               *)
(***************************************************************************)
EXTENDS Integers, FiniteSets

CONSTANTS
    Account,     \* account slots
    Default,     \* the slot of the first login, the one id that is used again
    Shared,      \* shared mailboxes
    Parent,      \* the account each shared mailbox was opted into under
    MaxTasks,    \* bound: watcher tasks that are alive or still in the map
    MaxCommands, \* bound: commands of the user
    MaxRestarts  \* bound: crashes of the process

ASSUME TargetAssumption ==
    /\ Default \in Account /\ Account \cap Shared = {}
    /\ Parent \in [Shared -> Account]
ASSUME BoundAssumption ==
    MaxTasks \in Nat /\ MaxCommands \in Nat /\ MaxRestarts \in Nat

Target == Account \cup Shared
Task == 1..MaxTasks
NoTask == 0
Kind == {Account, Shared}           \* each has its client map and watcher map
KindOf(t) == IF t \in Account THEN Account ELSE Shared
Children(accounts) == {s \in Shared : Parent[s] \in accounts}

VARIABLES
    mem,       \* the targets of the record in memory
    disk,      \* the targets of the record in state.enc
    clients,   \* targets with a cached client
    handle,    \* the watcher maps: the task of each target, or NoTask
    lock,      \* who holds the write lock of each watcher map, if anyone
    task,      \* the watcher tasks: the target and where the task stands
    resume,    \* where the boot-time resume of each target stands
    health,    \* the health registry: absent, down or up
    cmd,       \* the command being run and the target it names
    phase,     \* where the handler stands in it
    cur,       \* the targets it is tearing down
    todo,      \* the targets it is to tear down after those
    unwritten, \* history: targets whose last command ended in a storage error
    commands, restarts

registry == <<clients, handle, lock, task, health>>
handler == <<cmd, phase, cur, todo>>
vars == <<mem, disk, registry, resume, handler, unwritten, commands, restarts>>

Idle == [name |-> "none", on |-> Default]
Dead == [of |-> Default, pc |-> "dead"]
AtAwait == {"opening", "waiting", "backoff"}

Alive(w) == w # NoTask /\ task[w].pc \in AtAwait
Watched(t) == Alive(handle[t])
Resuming(t) == resume[t] \in {"check", "look", "connecting"}

-----------------------------------------------------------------------------
(* Adopting a client: accounts.rs, adopt_account and adopt_shared. The      *)
(* watcher map stays locked while the target's topic is created.            *)

Unused == {w \in Task : task[w].pc = "dead" /\ \A t \in Target : handle[t] # w}
NextTask == CHOOSE w \in Unused : TRUE

SetUp(t, who) ==
    /\ clients' = clients \cup {t}
    /\ task' = [task EXCEPT ![NextTask] = [of |-> t, pc |-> "opening"]]
    /\ handle' = [handle EXCEPT ![t] = NextTask]
    /\ health' = [health EXCEPT ![t] = "down"]
    /\ lock' = [lock EXCEPT ![KindOf(t)] = who]

(* Mutant: the map is not looked at.                                        *)
AdoptBlindly(t, who) ==
    /\ lock[KindOf(t)] = "free"
    /\ Unused # {} /\ SetUp(t, who)

Adopt(t, who) ==
    /\ lock[KindOf(t)] = "free"
    /\ IF handle[t] # NoTask THEN UNCHANGED registry
       ELSE Unused # {} /\ SetUp(t, who)

(* Mutant: the lock outlives the adoption.                                  *)
KeepLock(t) == UNCHANGED registry

Release(t) ==
    /\ lock' = [lock EXCEPT ![KindOf(t)] = "free"]
    /\ UNCHANGED <<clients, handle, task, health>>

-----------------------------------------------------------------------------
(* The boot-time resume of a target.                                       *)

ResumeTo(t, pc) == resume' = [resume EXCEPT ![t] = pc]

NotHandler == UNCHANGED <<mem, disk, handler, unwritten, commands, restarts>>

ResumeCheck(t) ==
    /\ resume[t] = "check"
    /\ ResumeTo(t, IF t \in mem THEN "look" ELSE "quitting")
    /\ UNCHANGED registry /\ NotHandler

ResumeQuits(t) ==
    /\ resume[t] = "quitting"
    /\ health' = [health EXCEPT ![t] = "absent"]
    /\ ResumeTo(t, "none")
    /\ UNCHANGED <<clients, handle, lock, task>> /\ NotHandler

ResumeLook(t) ==
    /\ resume[t] = "look" /\ lock[KindOf(t)] = "free"
    /\ ResumeTo(t, IF handle[t] # NoTask THEN "none" ELSE "connecting")
    /\ UNCHANGED registry /\ NotHandler

ResumeFails(t) ==
    /\ resume[t] = "connecting"
    /\ ResumeTo(t, "check")
    /\ UNCHANGED registry /\ NotHandler

(* The record is not looked at again between the connection and the         *)
(* adoption.                                                                *)
ResumeAdopts(t) ==
    /\ resume[t] = "connecting"
    /\ Adopt(t, "resume")
    /\ ResumeTo(t, IF handle[t] # NoTask THEN "none" ELSE "holding")
    /\ NotHandler

ResumeDone(t) ==
    /\ resume[t] = "holding"
    /\ Release(t)
    /\ ResumeTo(t, "none") /\ NotHandler

-----------------------------------------------------------------------------
(* A watcher task.                                                         *)

TaskTo(w, pc) ==
    task' = [task EXCEPT ![w] = IF pc = "dead" THEN Dead ELSE [@ EXCEPT !.pc = pc]]

(* An update of a target that is not registered is dropped.                 *)
ShowHealth(t, value) ==
    health' = [health EXCEPT ![t] = IF @ = "absent" THEN @ ELSE value]

WatcherFrame ==
    UNCHANGED <<clients, handle, lock, resume>> /\ NotHandler

(* Mutant: the watcher never looks at the record.                           *)
StaysWaiting(w) == "waiting"

(* Before it waits, the watcher looks whether the target is still wanted.   *)
NextWait(w) == IF task[w].of \in mem THEN "waiting" ELSE "leaving"

StreamOpens(w) ==
    /\ task[w].pc = "opening"
    /\ TaskTo(w, NextWait(w))
    /\ ShowHealth(task[w].of, "up")
    /\ WatcherFrame

Wakes(w) ==
    /\ task[w].pc = "waiting"
    /\ TaskTo(w, NextWait(w))
    /\ UNCHANGED health /\ WatcherFrame

(* The stream ends, or does not open.                                       *)
StreamFails(w) ==
    /\ task[w].pc \in {"opening", "waiting"}
    /\ TaskTo(w, "backoff")
    /\ ShowHealth(task[w].of, "down")
    /\ WatcherFrame

Retries(w) ==
    /\ task[w].pc = "backoff"
    /\ TaskTo(w, "opening")
    /\ UNCHANGED health /\ WatcherFrame

(* A watcher that leaves by itself does not await anything any more, and    *)
(* its handle stays in the map.                                             *)
Leaves(w) ==
    /\ task[w].pc = "leaving"
    /\ health' = [health EXCEPT ![task[w].of] = "absent"]
    /\ TaskTo(w, "dead")
    /\ WatcherFrame

-----------------------------------------------------------------------------
(* The command handler.                                                    *)

Persist == disk' = mem' \/ UNCHANGED disk

(* A slot id that was just generated.                                       *)
Fresh(a) ==
    /\ a # Default /\ a \notin mem \cup clients
    /\ handle[a] = NoTask /\ resume[a] = "none" /\ health[a] = "absent"

HandlerFrame == UNCHANGED <<resume, restarts>>

Begin(name, t, first) ==
    /\ phase = "idle" /\ commands < MaxCommands
    /\ cmd' = [name |-> name, on |-> t]
    /\ phase' = first
    /\ commands' = commands + 1
    /\ UNCHANGED <<mem, disk, registry, todo, unwritten>> /\ HandlerFrame

Finish == phase' = "idle" /\ cmd' = Idle /\ cur' = {} /\ todo' = {}

(* /login of an address the chat knows takes its slot, the first one takes  *)
(* the default slot, and any other a new one; /comptes takes a new one.     *)
Login(a) ==
    /\ a \in mem \/ Fresh(a) \/ (a = Default /\ mem = {})
    /\ Begin("login", a, "connect") /\ UNCHANGED cur

AddAccount(a) ==
    /\ mem # {} /\ Fresh(a)
    /\ Begin("add", a, "connect") /\ UNCHANGED cur

(* The /partages button turns a shared mailbox on or off.                   *)
OptIn(s) ==
    /\ s \notin mem /\ Parent[s] \in mem
    /\ Begin("on", s, "connect") /\ UNCHANGED cur

OptOut(s) ==
    /\ s \in mem
    /\ Begin("off", s, "deregister") /\ cur' = {s}

(* The button that disconnects an account may be an old one.                *)
Disconnect(a) == Begin("disconnect", a, "deregister") /\ cur' = {a}

(* So may the one that logs everything out.                                 *)
Logout == Begin("logout", Default, "deregister") /\ cur' = Target

ConnectFails ==
    /\ phase = "connect"
    /\ Finish
    /\ UNCHANGED <<mem, disk, registry, unwritten, commands>> /\ HandlerFrame

(* Mutant: a /login adopts its client at once.                              *)
AdoptAtOnce == "adopt"

(* Only /login takes a slot that may have a watcher already.                *)
AfterConnect == IF cmd.name = "login" THEN "deregister" ELSE "adopt"

(* The target is put into the record; when that cannot be written, the      *)
(* command ends there.                                                      *)
Connects ==
    /\ phase = "connect"
    /\ mem' = mem \cup {cmd.on}
    /\ \/ /\ disk' = mem'
          /\ unwritten' = unwritten \ {cmd.on}
          /\ phase' = AfterConnect
          /\ cur' = IF AfterConnect = "deregister" THEN {cmd.on} ELSE {}
          /\ UNCHANGED <<cmd, todo>>
       \/ /\ UNCHANGED disk
          /\ unwritten' = unwritten \cup {cmd.on}
          /\ Finish
    /\ UNCHANGED <<registry, commands>> /\ HandlerFrame

(* Tearing down: the health entries, ...                                    *)
Deregister ==
    /\ phase = "deregister"
    /\ health' = [t \in Target |-> IF t \in cur THEN "absent" ELSE health[t]]
    /\ phase' = "unclient"
    /\ IF cmd.name = "logout" THEN cur' = Account /\ todo' = Shared
                              ELSE UNCHANGED <<cur, todo>>
    /\ UNCHANGED <<mem, disk, clients, handle, lock, task, cmd, unwritten, commands>>
    /\ HandlerFrame

(* ... the clients, ...                                                     *)
DropClients ==
    /\ phase = "unclient"
    /\ clients' = clients \ cur
    /\ phase' = "unwatch"
    /\ UNCHANGED <<mem, disk, handle, lock, task, health, cmd, cur, todo,
                   unwritten, commands>>
    /\ HandlerFrame

(* ... and the watchers, which die at the await they have reached. With an  *)
(* account go the shared mailboxes that the record has under it, one after  *)
(* the other, each with its own teardown.                                   *)
TearDownRest(rest) ==
    IF rest = {} THEN /\ phase' = IF cmd.name = "login" THEN "adopt" ELSE "remove"
                      /\ cur' = {} /\ todo' = {}
    ELSE IF cmd.name = "logout" THEN phase' = "unclient" /\ cur' = rest /\ todo' = {}
    ELSE \E s \in rest : phase' = "deregister" /\ cur' = {s} /\ todo' = rest \ {s}

Abort ==
    /\ phase = "unwatch" /\ \A t \in cur : lock[KindOf(t)] = "free"
    /\ task' = [w \in Task |->
                  IF Alive(w) /\ \E t \in cur : handle[t] = w THEN Dead ELSE task[w]]
    /\ handle' = [t \in Target |-> IF t \in cur THEN NoTask ELSE handle[t]]
    /\ TearDownRest(IF cmd.name \in {"login", "disconnect"} /\ cur = {cmd.on}
                     THEN mem \cap Children({cmd.on}) ELSE todo)
    /\ UNCHANGED <<mem, disk, clients, lock, health, cmd, unwritten, commands>>
    /\ HandlerFrame

HandlerAdopts ==
    /\ phase = "adopt"
    /\ Adopt(cmd.on, "handler")
    /\ IF handle[cmd.on] # NoTask THEN Finish
       ELSE phase' = "holding" /\ UNCHANGED <<cmd, cur, todo>>
    /\ UNCHANGED <<mem, disk, unwritten, commands>> /\ HandlerFrame

HandlerReleases ==
    /\ phase = "holding"
    /\ Release(cmd.on)
    /\ Finish
    /\ UNCHANGED <<mem, disk, unwritten, commands>> /\ HandlerFrame

Removed ==
    CASE cmd.name = "logout" -> Target
      [] cmd.name = "off" -> {cmd.on}
      [] cmd.name = "disconnect" -> {cmd.on} \cup Children({cmd.on})

(* Mutant: an account leaves its shared mailboxes behind.                   *)
RemoveOnlyNamed ==
    /\ phase = "remove"
    /\ mem' = mem \ (IF cmd.name = "logout" THEN Target ELSE {cmd.on})
    /\ IF mem' = mem THEN UNCHANGED disk ELSE Persist
    /\ unwritten' = unwritten \ Removed
    /\ Finish
    /\ UNCHANGED <<registry, commands>> /\ HandlerFrame

(* What was not there is not removed, and nothing is written.               *)
Remove ==
    /\ phase = "remove"
    /\ IF cmd.on \in mem \/ cmd.name = "logout" THEN mem' = mem \ Removed
                                                ELSE UNCHANGED mem
    /\ IF mem' = mem THEN UNCHANGED disk ELSE Persist
    /\ unwritten' = unwritten \ Removed
    /\ Finish
    /\ UNCHANGED <<registry, commands>> /\ HandlerFrame

(* A command that needs a client of a stored target connects and caches one.*)
CacheClient(t) ==
    /\ phase = "idle" /\ commands < MaxCommands
    /\ t \in mem \ clients
    /\ clients' = clients \cup {t}
    /\ commands' = commands + 1
    /\ UNCHANGED <<mem, disk, handle, lock, task, health, handler, unwritten>>
    /\ HandlerFrame

-----------------------------------------------------------------------------
(* The process dies, and boot registers and resumes what the file has.      *)

Booted(targets) ==
    /\ clients' = {} /\ handle' = [t \in Target |-> NoTask]
    /\ lock' = [k \in Kind |-> "free"]
    /\ task' = [w \in Task |-> Dead]
    /\ resume' = [t \in Target |-> IF t \in targets THEN "check" ELSE "none"]
    /\ health' = [t \in Target |-> IF t \in targets THEN "down" ELSE "absent"]

Restart ==
    /\ restarts < MaxRestarts
    /\ restarts' = restarts + 1
    /\ mem' = disk /\ UNCHANGED disk
    /\ Booted(disk)
    /\ Finish /\ unwritten' = {}
    /\ UNCHANGED commands

Init ==
    /\ mem \in {T \in SUBSET Target : \A s \in T \cap Shared : Parent[s] \in T}
    /\ disk = mem
    /\ clients = {} /\ handle = [t \in Target |-> NoTask]
    /\ lock = [k \in Kind |-> "free"]
    /\ task = [w \in Task |-> Dead]
    /\ resume = [t \in Target |-> IF t \in mem THEN "check" ELSE "none"]
    /\ health = [t \in Target |-> IF t \in mem THEN "down" ELSE "absent"]
    /\ cmd = Idle /\ phase = "idle" /\ cur = {} /\ todo = {}
    /\ unwritten = {} /\ commands = 0 /\ restarts = 0

Resume(t) ==
    ResumeCheck(t) \/ ResumeQuits(t) \/ ResumeLook(t) \/ ResumeFails(t)
    \/ ResumeAdopts(t) \/ ResumeDone(t)

Watcher(w) ==
    StreamOpens(w) \/ Wakes(w) \/ StreamFails(w) \/ Retries(w) \/ Leaves(w)

Command ==
    \/ \E a \in Account : Login(a) \/ AddAccount(a) \/ Disconnect(a)
    \/ \E s \in Shared : OptIn(s) \/ OptOut(s)
    \/ Logout
    \/ \E t \in Target : CacheClient(t)

HandlerStep ==
    \/ ConnectFails \/ Connects \/ Deregister \/ DropClients \/ Abort
    \/ HandlerAdopts \/ HandlerReleases \/ Remove

Next ==
    \/ \E t \in Target : Resume(t)
    \/ \E w \in Task : Watcher(w)
    \/ Command \/ HandlerStep \/ Restart

Spec == Init /\ [][Next]_vars

(* Every task and the handler go on: each network call they await has a     *)
(* timeout, and each poll timer fires. A server that is asked again and     *)
(* again lets a stream be opened again and again. The lock of a map is      *)
(* handed out in the order it was asked for, so nobody waits for ever.      *)
Fairness ==
    /\ SF_vars(HandlerStep)
    /\ \A t \in Target :
         /\ SF_vars(ResumeLook(t)) /\ SF_vars(ResumeAdopts(t))
         /\ WF_vars(ResumeCheck(t) \/ ResumeQuits(t) \/ ResumeDone(t))
    /\ \A w \in Task :
         /\ SF_vars(StreamOpens(w))
         /\ WF_vars(Wakes(w) \/ Retries(w) \/ Leaves(w))

FairSpec == Spec /\ Fairness

-----------------------------------------------------------------------------
(* Properties.                                                             *)

(* The types, and that a map is locked exactly while a topic is created.    *)
TypeOK ==
    /\ mem \subseteq Target /\ disk \subseteq Target /\ clients \subseteq Target
    /\ handle \in [Target -> Task \cup {NoTask}]
    /\ lock \in [Kind -> {"free", "handler", "resume"}]
    /\ \A k \in Kind :
         /\ lock[k] = "handler" <=> phase = "holding" /\ cmd.on \in k
         /\ lock[k] = "resume" <=> \E t \in k : resume[t] = "holding"
    /\ task \in [Task -> [of: Target, pc: AtAwait \cup {"leaving", "dead"}]]
    /\ resume \in [Target -> {"none", "check", "quitting", "look", "connecting",
                              "holding"}]
    /\ health \in [Target -> {"absent", "down", "up"}]
    /\ cmd \in [name: {"none", "login", "add", "on", "off", "disconnect", "logout"},
               on: Target]
    /\ phase \in {"idle", "connect", "deregister", "unclient", "unwatch", "adopt",
                  "holding", "remove"}
    /\ cur \subseteq Target /\ todo \subseteq Target /\ unwritten \subseteq Target
    /\ commands \in 0..MaxCommands /\ restarts \in 0..MaxRestarts

(* A task that watches a mailbox is the one in the map, where a teardown    *)
(* finds it: no interleaving of logins, resumes and teardowns leaves a      *)
(* watcher nobody can stop, or two that announce the same mail.             *)
WatcherIsHeld == \A w \in Task : Alive(w) => handle[task[w].of] = w

(* An account the user is told is connected is being watched, or its resume *)
(* still tries - also when a resume that started before a logout connects   *)
(* after it, and when its watcher ended by itself. A command that reported  *)
(* a storage error promised nothing.                                        *)
AccountIsWatched ==
    phase = "idle" =>
        \A a \in (mem \cap Account) \ unwritten : Watched(a) \/ Resuming(a)

(* A shared mailbox never outlives the account it was opted into under, in  *)
(* memory or in the file.                                                   *)
SharedHasParent ==
    \A s \in Shared : /\ s \in mem => Parent[s] \in mem
                      /\ s \in disk => Parent[s] \in disk

(* What src/store.rs:37-39 says of a shared mailbox: that it is opted in is *)
(* all there is, and nothing can fall out of step with it. But a /login to  *)
(* the account it belongs to tears its watcher down and starts none again.  *)
OptInIsWatched ==
    phase = "idle" =>
        \A s \in (mem \cap Shared) \ unwritten : Watched(s) \/ Resuming(s)

(* Every command ends, although it waits for locks that resumes hold during *)
(* calls to Telegram.                                                       *)
CommandsEnd == phase # "idle" ~> phase = "idle"

(* The watcher of a target that was removed ends, and its resume too, even  *)
(* if they were not there yet when the target was torn down.                *)
RemovedIsAbandoned ==
    \A t \in Target :
        t \notin mem ~> t \in mem \/ (~Watched(t) /\ ~Resuming(t))

=============================================================================
