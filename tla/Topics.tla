------------------------------- MODULE Topics -------------------------------
(***************************************************************************)
(* The forum topics of a chat (src/topics.rs): each account and each shared *)
(* mailbox may have one. Whoever adopts a target makes its topic while it   *)
(* holds the lock of the watchers of that kind; /threads makes them without *)
(* it; commands that remove a target delete its topic, wait for the lock    *)
(* and then change the record; the user deletes topics too.                 *)
(*                                                                         *)
(* One chat: its handler runs one command at a time, beside one task for    *)
(* each target that boot resumes. What the targets' clients and streams do  *)
(* in between is Lifecycle's subject; a crash is not modelled here.         *)
(***************************************************************************)
EXTENDS Record, Sequences, FiniteSets

CONSTANTS
    ServerThreads, \* the operator's mode allows topics
    Dedicated,     \* shared mailboxes have topics of their own
    MaxCommands    \* bound: commands

ASSUME TopicsAssumption ==
    /\ ServerThreads \in BOOLEAN /\ Dedicated \in BOOLEAN /\ MaxCommands \in Nat

VARIABLES
    made,     \* how many topics were created; also names them
    alive,    \* those that exist
    lost,     \* history: those whose loss a comment below explains
    making,   \* creations under way, by whom and for which target
    watched,  \* the targets in the watcher maps
    resuming, \* the targets boot has connected and is about to adopt
    job,      \* what the handler is in the middle of
    commands

topicVars == <<made, alive, lost, making, watched, resuming, job, commands>>
topicsVars == <<recordVars, topicVars>>

Kind(t) == IF t \in Shared THEN "shared" ELSE "account"

(* Mutant: nothing waits for the lock of the watchers.                      *)
FreeAnyway(kind) == TRUE

(* The lock of a kind of watchers is held by an adoption making a topic.    *)
Free(kind) ==
    \A x \in making : x.by \in {"boot", "adopt"} => Kind(x.for) # kind

Idle == [op |-> "idle"]
Recorded == {Thread(record, t) : t \in Targets(record)} \ {NoTopic}
ThreadsOf(r, targets) == {Thread(r, t) : t \in targets} \ {NoTopic}

ThreadsOn ==
    IF record.threads = None THEN ServerThreads ELSE record.threads = "on"

-----------------------------------------------------------------------------
(* ensure_slot_topic, ensure_shared_topic.                                  *)

Wanted(t) ==
    /\ t \in Targets(record) /\ ThreadsOn
    /\ t \in Shared => Dedicated

(* Mutant: it is not looked whether the target has a topic.                 *)
WantedAgain(t) == Wanted(t)

Missing(t) == Wanted(t) /\ Thread(record, t) = NoTopic

(* A target with two creations under way will lose the first one's topic.   *)
Begin(by, t) ==
    making' = {IF x.for = t THEN [x EXCEPT !.contested = TRUE] ELSE x : x \in making}
                 \cup {[by |-> by, for |-> t,
                        contested |-> \E x \in making : x.for = t]}

(* Mutant: an account that was removed meanwhile is written back with it.   *)
CreatedFromCopy(x) ==
    /\ made < MaxTopics
    /\ made' = made + 1 /\ alive' = alive \cup {made'}
    /\ making' = making \ {x} /\ UNCHANGED lost
    /\ Becomes(SetThread(IF x.for \in Targets(record) \cup Shared THEN record
                         ELSE AddAccount(record, x.for, CHOOSE a \in Account : TRUE),
                         x.for, made'))

(* A topic whose target was removed meanwhile is recorded nowhere.          *)
Created(x) ==
    /\ made < MaxTopics
    /\ made' = made + 1 /\ alive' = alive \cup {made'}
    /\ making' = making \ {x}
    /\ IF x.for \in Targets(record)
       THEN /\ StoreThread(x.for, made')
            /\ lost' = lost \cup (IF x.contested THEN ThreadsOf(record, {x.for}) ELSE {})
       ELSE lost' = lost \cup {made'} /\ UNCHANGED recordVars

(* The chat is no forum, or the request fails.                              *)
NotCreated(x) ==
    making' = making \ {x} /\ UNCHANGED <<recordVars, made, alive, lost>>

CreationEnds(x) ==
    /\ x \in making
    /\ Created(x) \/ NotCreated(x)
    /\ IF x.by = "boot" THEN UNCHANGED job
       ELSE job' = IF x.by = "adopt" \/ job.todo = <<>> THEN Idle ELSE job
    /\ UNCHANGED <<watched, resuming, commands>>

(* The chat's tasks wait for it only where they made it: the handler's is   *)
(* the one of its job.                                                      *)
HandlerMakes == \E x \in making : x.by # "boot"

-----------------------------------------------------------------------------
(* delete_topic, for some topics at once: a deletion that is refused leaves *)
(* a topic nobody knows of.                                                 *)

DeleteTopics(topics) ==
    \E refused \in SUBSET (topics \cap alive) :
        /\ alive' = alive \ (topics \ refused)
        /\ lost' = lost \cup refused

(* Lost is what was recorded for a target only after its topic was to be     *)
(* deleted.                                                                 *)
Late(targets, since) == {n \in ThreadsOf(record, targets) : n > since}

-----------------------------------------------------------------------------
(* The handler's commands, each in the steps between its awaits.            *)

Start(op) ==
    /\ job = Idle /\ commands < MaxCommands
    /\ commands' = commands + 1
    /\ job' = op
    /\ UNCHANGED <<made, watched, resuming, making>>

(* A storage error ends the command.                                        *)
StartAdoption(t) ==
    Start([op |-> "adopt", for |-> t]) \/ Start(Idle)

(* The topic of a slot that is logged in again is forgotten. The language   *)
(* is left to Buttons.                                                      *)
StartLogin ==
    \E account \in Account, saved \in BOOLEAN :
      \E slot \in LoginSlots(account) :
        /\ LoginTo(slot, account, None, saved)
        /\ Start(IF saved THEN [op |-> "login", at |-> "account", for |-> slot] ELSE Idle)
        /\ lost' = lost \cup ThreadsOf(record, {slot}) /\ UNCHANGED alive

StartAdd ==
    \E slot \in SlotId, account \in Account :
        AddTo(slot, account) /\ StartAdoption(slot) /\ UNCHANGED <<alive, lost>>

StartOptIn ==
    \E ref \in SlotId \cup {None}, m \in Shared :
        OptIn(ref, m) /\ StartAdoption(m) /\ UNCHANGED <<alive, lost>>

(* The topics are looked up and deleted before any lock is waited for.      *)
StartDisconnect(s) ==
    /\ Start([op |-> "disconnect", at |-> "account", for |-> s, since |-> made])
    /\ DeleteTopics(ThreadsOf(record, {s})) /\ UNCHANGED recordVars

StartOptOut(m) ==
    /\ Start([op |-> "optout", at |-> "shared", for |-> m, since |-> made])
    /\ DeleteTopics(ThreadsOf(record, {m})) /\ UNCHANGED recordVars

StartLogoutWith(targets) ==
    /\ Exists(record)
    /\ Start([op |-> "logout", at |-> "account", since |-> made])
    /\ DeleteTopics(ThreadsOf(record, targets)) /\ UNCHANGED recordVars

(* Mutant: only the accounts' topics are deleted.                           *)
StartLogoutOfAccounts == StartLogoutWith(Connected(record))

StartLogout == StartLogoutWith(Targets(record))

(* sync_all_topics: the targets of the record as it is now, the accounts in *)
(* their order and then the shared mailboxes in any.                        *)
Orders == {q \in [1..Cardinality(Targets(record)) -> Targets(record)] :
             \A i, j \in DOMAIN q : i < j =>
               /\ q[i] # q[j] /\ (q[i] \in Shared => q[j] \in Shared)
               /\ q[j] \in SlotId => Rank[q[i]] < Rank[q[j]]}

ThreadsSync ==
    /\ SetThreads("on") \/ (Exists(record) /\ UNCHANGED recordVars)
    /\ \E todo \in Orders \cup {<<>>} : Start([op |-> "sync", todo |-> todo])

StartThreads ==
    /\ ThreadsSync \/ (SetThreads("off") /\ Start(Idle))
    /\ UNCHANGED <<alive, lost>>

(* What a command goes on with. The watchers of an account are dropped under *)
(* one lock, those of its shared mailboxes, if it has any, under the other. *)
Dropped(kind) ==
    IF job.op = "logout" THEN {t \in watched : Kind(t) = kind}
    ELSE IF kind = Kind(job.for) THEN {job.for} ELSE Children(record, job.for)

ForgetAccount ==
    /\ job.op \in {"login", "disconnect", "logout"} /\ job.at = "account"
    /\ Free("account")
    /\ watched' = watched \ Dropped("account")
    /\ job' = [job EXCEPT !.at = "shared"]
    /\ UNCHANGED <<recordVars, made, alive, lost, making, resuming, commands>>

ForgetShared ==
    /\ job.op \in {"login", "disconnect", "logout", "optout"} /\ job.at = "shared"
    /\ job.op = "logout" \/ Dropped("shared") # {} => Free("shared")
    /\ watched' = watched \ Dropped("shared")
    /\ job' = IF job.op = "login" THEN [op |-> "adopt", for |-> job.for] ELSE Idle
    /\ CASE job.op = "login" -> UNCHANGED <<recordVars, lost>>
         [] job.op = "disconnect" ->
              /\ Disconnect(job.for)
              /\ lost' = lost \cup Late({job.for}, job.since)
                              \cup ThreadsOf(record, Children(record, job.for))
         [] job.op = "optout" ->
              /\ OptOut(job.for)
              /\ lost' = lost \cup Late({job.for}, job.since)
         [] job.op = "logout" ->
              /\ Logout
              /\ lost' = lost \cup Late(Targets(record), job.since)
    /\ UNCHANGED <<made, alive, making, resuming, commands>>

HandlerAdopts ==
    /\ job.op = "adopt" /\ ~HandlerMakes /\ Free(Kind(job.for))
    /\ watched' = watched \cup {job.for}
    /\ IF job.for \notin watched /\ Missing(job.for)
       THEN Begin("adopt", job.for) /\ UNCHANGED job
       ELSE job' = Idle /\ UNCHANGED making
    /\ UNCHANGED <<recordVars, made, alive, lost, resuming, commands>>

(* A storage error ends the round.                                          *)
HandlerSyncs ==
    /\ job.op = "sync" /\ ~HandlerMakes
    /\ IF job.todo = <<>> THEN job' = Idle /\ UNCHANGED making
       ELSE LET t == Head(job.todo) IN
            IF ~Missing(t) THEN job' = [job EXCEPT !.todo = Tail(@)] /\ UNCHANGED making
            ELSE /\ Begin("sync", t)
                 /\ job' \in {[job EXCEPT !.todo = Tail(@)], [job EXCEPT !.todo = <<>>]}
    /\ UNCHANGED <<recordVars, made, alive, lost, watched, resuming, commands>>

Handler ==
    \/ StartLogin \/ StartAdd \/ StartOptIn
    \/ \E s \in Connected(record) : StartDisconnect(s)
    \/ \E m \in OptedIn(record) : StartOptOut(m)
    \/ StartLogout \/ StartThreads
    \/ ForgetAccount \/ ForgetShared \/ HandlerAdopts \/ HandlerSyncs

-----------------------------------------------------------------------------
(* The other tasks.                                                         *)

(* Boot adopts a target it connected to, whatever happened to it meanwhile. *)
BootAdopts(t) ==
    /\ t \in resuming /\ Free(Kind(t))
    /\ resuming' = resuming \ {t} /\ watched' = watched \cup {t}
    /\ IF t \notin watched /\ Missing(t) THEN Begin("boot", t) ELSE UNCHANGED making
    /\ UNCHANGED <<recordVars, made, alive, lost, job, commands>>

(* It gave up, or saw that the target is gone.                              *)
BootLeaves(t) ==
    /\ t \in resuming
    /\ resuming' = resuming \ {t}
    /\ UNCHANGED <<recordVars, made, alive, lost, making, watched, job, commands>>

(* Where a target's mail is posted.                                         *)
target_thread_id(t) ==
    IF ~ThreadsOn \/ t \notin Targets(record) THEN NoTopic
    ELSE IF t \in SlotId \/ Dedicated THEN Thread(record, t)
    ELSE Thread(record, ParentSlot(record, t))

(* A mail finds the topic gone: the target's own topic is forgotten.        *)
ThreadNotFound(t) ==
    /\ t \in watched
    /\ target_thread_id(t) \notin alive \cup {NoTopic}
    /\ StoreThread(t, NoTopic)
    /\ UNCHANGED topicVars

UserDeletes(n) ==
    /\ n \in alive
    /\ alive' = alive \ {n}
    /\ UNCHANGED <<recordVars, made, lost, making, watched, resuming, job, commands>>

TopicsInit ==
    /\ RecordInit
    /\ made = 0 /\ alive = {} /\ lost = {} /\ making = {}
    /\ watched = {} /\ resuming = Targets(record)
    /\ job = Idle /\ commands = 0

TopicsNext ==
    \/ Handler
    \/ \E x \in making : CreationEnds(x)
    \/ \E t \in SlotId \cup Shared : BootAdopts(t) \/ BootLeaves(t) \/ ThreadNotFound(t)
    \/ \E n \in 1..MaxTopics : UserDeletes(n)

TopicsSpec == TopicsInit /\ [][TopicsNext]_topicsVars

-----------------------------------------------------------------------------
(* Properties.                                                             *)

Target == SlotId \cup Shared

(* The types; the handler makes one topic at a time; an adoption that makes  *)
(* one is alone with its kind of watchers and has its target in the map; and *)
(* no topic is recorded for two targets.                                    *)
TopicsTypeOK ==
    /\ made \in 0..MaxTopics /\ alive \cup lost \subseteq 0..made
    /\ making \subseteq [by: {"boot", "adopt", "sync"}, for: Target, contested: BOOLEAN]
    /\ Cardinality({x \in making : x.by # "boot"}) <= 1
    /\ \A x, y \in making :
         {x.by, y.by} \subseteq {"boot", "adopt"} /\ Kind(x.for) = Kind(y.for) => x = y
    /\ \A x \in making : x.by # "sync" => x.for \in watched
    /\ watched \cup resuming \subseteq Target
    /\ Recorded \subseteq 1..made
    /\ \A t, u \in Targets(record) :
         t # u => Thread(record, t) # Thread(record, u) \/ Thread(record, t) = NoTopic

(* src/topics.rs:90-96 and 253: a target has one topic, and it goes with it. *)
(* Every topic that still exists is the recorded one of a target, unless it  *)
(* was lost in one of the ways named above: its target was removed while it *)
(* was being created, logged in again, or went with its account; it was     *)
(* stored after its deletion; another creation for the same target overlapped *)
(* its own; or Telegram refused to delete it.                               *)
StrayTopicsAreExplained == alive \subseteq Recorded \cup lost

(* Whatever a command, a resume or a watcher does after it waited, on what it *)
(* read before, is to the record one of the whole steps of Record: nothing  *)
(* removed comes back, and no step changes what is another's.               *)
RecordPromise == [][RecordNext]_recordVars

=============================================================================
