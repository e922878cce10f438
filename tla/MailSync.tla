------------------------------ MODULE MailSync ------------------------------
(***************************************************************************)
(* How mail that arrives in one watched JMAP account becomes Telegram      *)
(* notifications: the watcher task of src/watcher.rs (run_once and         *)
(* sync_and_notify), the Email/changes call of src/jmap.rs it relies on,   *)
(* and the record of src/store.rs that holds its cursor.                   *)
(*                                                                         *)
(* The server's Email change log is the sequence `log`, and the JMAP state *)
(* string is a position in it: the state "n" means that the first n        *)
(* changes are known. Every await of the watcher ends an action, so the    *)
(* chat's command handlers, the boot-time resume of src/accounts.rs, the   *)
(* mail server and a crash of the process come in between.                 *)
(***************************************************************************)
EXTENDS Integers, Sequences, FiniteSets

CONSTANTS
    Change,      \* the entries the change log can hold
    MaxChanges,  \* how many changes one Email/changes call returns (50)
    OwnTopic,    \* TRUE: the target posts to the topic its own record names;
                 \* FALSE: a shared mailbox posting to its parent's topic
    MayExpire,   \* whether the server may forget old states
    MaxLog,      \* bound: changes in the log
    MaxGone,     \* bound: messages destroyed on the server
    MaxRestarts, \* bound: crashes of the process
    MaxLogins,   \* bound: /login commands
    MaxCommands  \* bound: other commands of the user

Role == {"inbox", "drafts", "sent"}

(* What the watcher looks at in one entry of the log. `created` tells a    *)
(* message the account gained from any other change; `listed` says that    *)
(* the sender or subject contains the chat's mute term.                    *)
ChangeRecord ==
    [created: BOOLEAN, roles: SUBSET Role, draft: BOOLEAN, own: BOOLEAN,
     listed: BOOLEAN]

ASSUME ChangeAssumption == Change \subseteq ChangeRecord
ASSUME BatchAssumption == MaxChanges \in Nat \ {0}
ASSUME SwitchAssumption == OwnTopic \in BOOLEAN /\ MayExpire \in BOOLEAN
ASSUME BoundAssumption ==
    /\ MaxLog \in Nat
    /\ MaxGone \in Nat
    /\ MaxRestarts \in Nat
    /\ MaxLogins \in Nat
    /\ MaxCommands \in Nat

NoState == -1                       \* last_state: None
Cursor == Nat \cup {NoState}

(* The persisted record of the target, as far as the watcher reads it.     *)
Record == [opted: BOOLEAN, cursor: Cursor, topic: BOOLEAN, muted: BOOLEAN]

NoRecord == [opted |-> FALSE, cursor |-> NoState, topic |-> FALSE, muted |-> FALSE]

VARIABLES
    log,       \* the server's change log
    gone,      \* messages destroyed on the server
    horizon,   \* the oldest state the server still answers for
    mem,       \* the record in memory (Store.data)
    disk,      \* the record in state.enc
    pc,        \* where the target's watcher, or its boot-time resume, stands
    snap,      \* the record sync_and_notify read when it started
    newState,  \* the state Email/changes returned
    batch,     \* messages of the current sync not yet dealt with
    hpc,       \* where the chat's command handler stands
    initial,   \* the state that handler read from the server
    told,      \* history: how often Telegram accepted a notification, per change
    refused,   \* history: messages whose notification Telegram refused
    hushed,    \* history: messages dropped by a mute filter
    past,      \* history: the length of the log at the start
    base,      \* history: the last change a login or a first sync passed over
    order,     \* history: whether mail is to be muted, and the log's length
               \* when that was last changed
    restarts, logins, commands

server == <<log, gone, horizon>>
store == <<mem, disk>>
sync == <<snap, newState, batch>>
handler == <<hpc, initial>>
history == <<told, refused, hushed, past, base, order>>
counters == <<restarts, logins, commands>>
vars == <<server, store, pc, sync, handler, history, counters>>

-----------------------------------------------------------------------------
(* Classification of a new message.                                        *)

IsDraft(e) == "drafts" \in e.roles \/ e.draft

SkipReason(e) ==
    IF IsDraft(e) THEN "draft"
    ELSE IF "sent" \in e.roles THEN "sent"
    ELSE IF e.own THEN "own" ELSE "none"

IsMuted(e, account) == account.muted /\ e.listed

-----------------------------------------------------------------------------
(* The store. Each write changes memory and then rewrites the whole file;  *)
(* a failed rewrite leaves the file as it was.                             *)

Persist == disk' = mem' \/ UNCHANGED disk

StoreWrite(record) == mem' = record /\ Persist

(* Mutant: the cursor is written with the rest of the sync's old copy.      *)
UpdateStateFromCopy(state) ==
    IF mem.opted THEN StoreWrite([snap EXCEPT !.cursor = state])
                 ELSE UNCHANGED store

(* A target without a record is not updated, and nothing is written.       *)
UpdateState(state) ==
    IF mem.opted THEN StoreWrite([mem EXCEPT !.cursor = state])
                 ELSE UNCHANGED store

(* What the user last ordered of the filters, or was left with by a crash.  *)
Ordered ==
    order' = IF mem'.muted = order.mute THEN order
             ELSE [mute |-> mem'.muted, at |-> Len(log)]

(* The topic a dead thread id is cleared from is the target's own: for a   *)
(* shared mailbox that posts to its parent's topic it never was set.       *)
ClearTopic ==
    IF mem.opted THEN StoreWrite([mem EXCEPT !.topic = @ /\ ~OwnTopic])
                 ELSE UNCHANGED store

-----------------------------------------------------------------------------
(* The watcher.                                                            *)

Larger(a, b) == IF a > b THEN a ELSE b
Smaller(a, b) == IF a < b THEN a ELSE b

(* A sync that ended, or was aborted, leaves nothing behind.                *)
DropSync == snap' = NoRecord /\ newState' = 0 /\ batch' = {}

(* The boot-time resume of a persisted target: its loop first looks         *)
(* whether the target is still wanted, then connects; a connection that     *)
(* succeeds is adopted without looking again.                               *)
ResumeCheck ==
    /\ pc = "resume"
    /\ pc' = IF mem.opted THEN "connecting" ELSE "stopped"
    /\ UNCHANGED <<server, store, sync, handler, history, counters>>

ResumeConnects ==
    /\ pc = "connecting"
    /\ pc' = "backoff"
    /\ UNCHANGED <<server, store, sync, handler, history, counters>>

ResumeFails ==
    /\ pc = "connecting"
    /\ pc' = "resume"
    /\ UNCHANGED <<server, store, sync, handler, history, counters>>

(* run_once: open the EventSource stream, ...                               *)
OpenStream ==
    /\ pc = "backoff"
    /\ pc' = "check"
    /\ UNCHANGED <<server, store, sync, handler, history, counters>>

(* ... then, before each wait, look whether the target is still wanted.     *)
Check ==
    /\ pc = "check"
    /\ pc' = IF mem.opted THEN "select" ELSE "stopped"
    /\ UNCHANGED <<server, store, sync, handler, history, counters>>

(* Anything else than a StateChange wakes the loop for nothing.             *)
CalendarAlert ==
    /\ pc = "select"
    /\ pc' = "check"
    /\ UNCHANGED <<server, store, sync, handler, history, counters>>

StreamEnds ==
    /\ pc = "select"
    /\ pc' = "backoff"
    /\ UNCHANGED <<server, store, sync, handler, history, counters>>

(* Mutant: a target without a cursor starts from the beginning of the log.  *)
StartSyncFromZero ==
    /\ pc = "select"
    /\ snap' = [mem EXCEPT !.cursor = Larger(@, 0)]
    /\ pc' = "fetch"
    /\ UNCHANGED <<server, store, newState, batch, handler, history, counters>>

(* A StateChange event or the poll timer starts a sync, which reads the     *)
(* record once and keeps that copy to its end.                              *)
StartSync ==
    /\ pc = "select"
    /\ snap' = mem
    /\ pc' = IF mem.cursor = NoState THEN "baseline" ELSE "fetch"
    /\ UNCHANGED <<server, store, newState, batch, handler, history, counters>>

(* Without a cursor the sync only reads the server's current state. (The    *)
(* record of an unwanted target has no cursor, and is not updated.)         *)
Baseline ==
    /\ pc = "baseline"
    /\ UpdateState(Len(log))
    /\ base' = IF mem.opted THEN Larger(base, Len(log)) ELSE base
    /\ DropSync
    /\ pc' = "check"
    /\ UNCHANGED <<server, handler, told, refused, hushed, past, order, counters>>

(* The messages Email/changes and Email/get return for the changes after    *)
(* `since` and up to `upto`.                                                *)
Fetched(since, upto) ==
    {i \in DOMAIN log : since < i /\ i <= upto /\ log[i].created /\ i \notin gone}

Answers ==
    /\ pc = "fetch"
    /\ snap.cursor >= horizon
    /\ batch' = Fetched(snap.cursor, Smaller(Len(log), snap.cursor + MaxChanges))
    /\ pc' = "deliver"
    /\ UNCHANGED <<server, store, snap, handler, history, counters>>

(* Mutant: the state returned is the newest one, whatever the call omitted. *)
FetchToHead == Answers /\ newState' = Len(log)

(* Mutant: a call that returns no message leaves the state where it was.    *)
FetchKeepsState ==
    /\ Answers
    /\ newState' = IF batch' = {} THEN snap.cursor
                   ELSE Smaller(Len(log), snap.cursor + MaxChanges)

(* Mutant: the state is counted from the limit asked for.                   *)
FetchPastEnd == Answers /\ newState' = snap.cursor + MaxChanges

(* One call returns at most MaxChanges changes, and the state after them;   *)
(* the next wake-up asks for the rest.                                      *)
Fetch ==
    /\ Answers
    /\ newState' = Smaller(Len(log), snap.cursor + MaxChanges)

(* A call that fails, as every call does once the server has forgotten the  *)
(* cursor, leaves the cursor where it is.                                   *)
CallFails ==
    /\ pc \in {"fetch", "baseline"}
    /\ DropSync
    /\ pc' = "check"
    /\ UNCHANGED <<server, store, handler, history, counters>>

(* The batch is dealt with in the order of the log.                         *)
Current(i) == i \in batch /\ \A j \in batch : i <= j

Passed(i) ==
    /\ batch' = batch \ {i}
    /\ pc' = "deliver"
    /\ UNCHANGED <<snap, newState>>

(* A message that is not news, or that a mute filter matches, is passed     *)
(* over.                                                                    *)
PassOver(i) ==
    /\ pc = "deliver" /\ Current(i)
    /\ \/ SkipReason(log[i]) # "none" /\ UNCHANGED hushed
       \/ /\ SkipReason(log[i]) = "none"
          /\ IsMuted(log[i], snap)
          /\ hushed' = hushed \cup {i}
    /\ Passed(i)
    /\ UNCHANGED <<server, store, handler, told, refused, past, base, order, counters>>

(* Every other message is sent to Telegram.                                 *)
Sending(i) ==
    /\ Current(i)
    /\ SkipReason(log[i]) = "none" /\ ~IsMuted(log[i], snap)

(* Telegram accepts the notification, in the topic or in the root chat.     *)
Accept(i) ==
    /\ pc \in {"deliver", "fallback"} /\ Sending(i)
    /\ told' = [told EXCEPT ![i] = @ + 1]
    /\ Passed(i)
    /\ UNCHANGED <<server, store, handler, refused, hushed, past, base, order, counters>>

(* Any other error is logged, and the loop goes on.                         *)
Refuse(i) ==
    /\ pc \in {"deliver", "fallback"} /\ Sending(i)
    /\ refused' = refused \cup {i}
    /\ Passed(i)
    /\ UNCHANGED <<server, store, handler, told, hushed, past, base, order, counters>>

(* What is sent goes to the topic the sync's copy of the record names, its  *)
(* own or its parent's.                                                     *)
Threaded == snap.topic

(* Mutant: a dead topic ends the handling of that message.                  *)
ThreadNotFoundDrops(i) ==
    /\ pc = "deliver" /\ Threaded /\ Sending(i)
    /\ ClearTopic
    /\ Passed(i)
    /\ UNCHANGED <<server, handler, history, counters>>

(* Mutant: a dead topic ends the whole sync.                                *)
ThreadNotFoundReturns(i) ==
    /\ pc = "deliver" /\ Threaded /\ Sending(i)
    /\ ClearTopic
    /\ DropSync
    /\ pc' = "check"
    /\ UNCHANGED <<server, handler, history, counters>>

(* The topic of the snapshot no longer exists: the stored one is cleared    *)
(* and the message is sent again to the root chat.                          *)
ThreadNotFound(i) ==
    /\ pc = "deliver" /\ Threaded /\ Sending(i)
    /\ ClearTopic
    /\ pc' = "fallback"
    /\ UNCHANGED <<server, sync, handler, history, counters>>

(* The cursor moves once the whole batch was dealt with.                    *)
FinishSync ==
    /\ pc = "deliver" /\ batch = {}
    /\ IF newState = snap.cursor THEN UNCHANGED store ELSE UpdateState(newState)
    /\ DropSync
    /\ pc' = "check"
    /\ UNCHANGED <<server, handler, history, counters>>

-----------------------------------------------------------------------------
(* The mail server.                                                        *)

Arrive(e) ==
    /\ Len(log) < MaxLog
    /\ log' = Append(log, e)
    /\ told' = Append(told, 0)
    /\ UNCHANGED <<gone, horizon, store, pc, sync, handler, refused, hushed,
                   past, base, order, counters>>

Destroy(i) ==
    /\ Cardinality(gone) < MaxGone
    /\ log[i].created /\ i \notin gone
    /\ gone' = gone \cup {i}
    /\ UNCHANGED <<log, horizon, store, pc, sync, handler, history, counters>>

(* A server keeps its change log for a limited time.                        *)
Expire ==
    /\ MayExpire /\ horizon < Len(log)
    /\ horizon' = Len(log)
    /\ UNCHANGED <<log, gone, store, pc, sync, handler, history, counters>>

-----------------------------------------------------------------------------
(* The chat's command handler, one command at a time.                      *)

(* /login reads the server's current state, ...                             *)
LoginConnects ==
    /\ hpc = "idle" /\ logins < MaxLogins
    /\ initial' = Len(log)
    /\ hpc' = "captured"
    /\ logins' = logins + 1
    /\ UNCHANGED <<server, store, pc, sync, history, restarts, commands>>

(* ... makes it the cursor of a record without a topic (and gives up if it  *)
(* cannot be written to disk, although it then stays in memory), ...        *)
LoginStores ==
    /\ hpc = "captured"
    /\ mem' = [opted |-> TRUE, cursor |-> initial, topic |-> FALSE,
               muted |-> mem.muted]
    /\ base' = Larger(base, initial)
    /\ \/ disk' = mem' /\ hpc' = "stored"
       \/ UNCHANGED disk /\ hpc' = "idle"
    /\ initial' = 0
    /\ UNCHANGED <<server, pc, sync, told, refused, hushed, past, order, counters>>

(* ... and replaces the watcher. Until then the old one goes on.            *)
LoginAdopts ==
    /\ hpc = "stored"
    /\ pc' = "backoff"
    /\ DropSync
    /\ hpc' = "idle"
    /\ UNCHANGED <<server, store, initial, history, counters>>

(* Disconnecting the account aborts its watcher, which a resume still       *)
(* connecting is not yet, ...                                               *)
DisconnectForgets ==
    /\ hpc = "idle" /\ mem.opted /\ commands < MaxCommands
    /\ pc' = IF pc \in {"resume", "connecting"} THEN pc ELSE "stopped"
    /\ DropSync
    /\ hpc' = "leaving"
    /\ commands' = commands + 1
    /\ UNCHANGED <<server, store, initial, history, restarts, logins>>

(* ... then removes the record; the chat's mute filters stay, unless this   *)
(* was its last account.                                                    *)
DisconnectRemoves ==
    /\ hpc = "leaving"
    /\ StoreWrite([NoRecord EXCEPT !.muted = mem.muted]) \/ StoreWrite(NoRecord)
    /\ Ordered
    /\ hpc' = "idle"
    /\ UNCHANGED <<server, pc, sync, initial, told, refused, hushed, past, base,
                   counters>>

(* /mute and /unmute.                                                       *)
Mute ==
    /\ hpc = "idle" /\ commands < MaxCommands
    /\ StoreWrite([mem EXCEPT !.muted = ~@])
    /\ Ordered
    /\ commands' = commands + 1
    /\ UNCHANGED <<server, pc, sync, handler, told, refused, hushed, past, base,
                   restarts, logins>>

(* /threads, or the end of an adoption, creates the topic.                  *)
EnsureTopic ==
    /\ hpc = "idle" /\ commands < MaxCommands
    /\ mem.opted /\ ~mem.topic
    /\ StoreWrite([mem EXCEPT !.topic = TRUE])
    /\ commands' = commands + 1
    /\ UNCHANGED <<server, pc, sync, handler, history, restarts, logins>>

-----------------------------------------------------------------------------
(* The process dies and starts again from the file.                        *)
Restart ==
    /\ restarts < MaxRestarts
    /\ restarts' = restarts + 1
    /\ mem' = disk
    /\ Ordered
    /\ pc' = "resume"
    /\ DropSync
    /\ hpc' = "idle" /\ initial' = 0
    /\ UNCHANGED <<server, disk, told, refused, hushed, past, base, logins,
                   commands>>

-----------------------------------------------------------------------------
(* The mailbox may hold mail already, and the record is absent, without a   *)
(* cursor (one written by an older version), or at the mailbox's state.     *)
Init ==
    /\ log \in {<<>>} \cup {<<e>> : e \in Change}
    /\ gone = {} /\ horizon = 0
    /\ \/ mem = NoRecord
       \/ mem \in [opted: {TRUE}, cursor: {NoState, Len(log)},
                  topic: BOOLEAN, muted: BOOLEAN]
    /\ disk = mem
    /\ pc = "resume"
    /\ snap = NoRecord /\ newState = 0 /\ batch = {}
    /\ hpc = "idle" /\ initial = 0
    /\ told = [i \in DOMAIN log |-> 0]
    /\ refused = {} /\ hushed = {}
    /\ past = Len(log) /\ base = Len(log)
    /\ order = [mute |-> mem.muted, at |-> Len(log)]
    /\ restarts = 0 /\ logins = 0 /\ commands = 0

Watcher ==
    \/ ResumeCheck \/ ResumeConnects \/ ResumeFails
    \/ OpenStream \/ Check \/ CalendarAlert \/ StreamEnds
    \/ StartSync \/ Baseline \/ Fetch \/ CallFails
    \/ \E i \in batch :
        PassOver(i) \/ Accept(i) \/ Refuse(i) \/ ThreadNotFound(i)
    \/ FinishSync

MailServer ==
    \/ \E e \in Change : Arrive(e)
    \/ \E i \in DOMAIN log : Destroy(i)
    \/ Expire

Handler ==
    \/ LoginConnects \/ LoginStores \/ LoginAdopts
    \/ DisconnectForgets \/ DisconnectRemoves
    \/ Mute \/ EnsureTopic

Next == Watcher \/ MailServer \/ Handler \/ Restart

Spec == Init /\ [][Next]_vars

(* Fairness. The watcher's own steps are taken; each open stream leads to   *)
(* a sync, since the poll timer fires at once and then every five minutes;  *)
(* and a server that is asked again and again answers again and again.      *)
(* Nothing is assumed of Telegram, of the user or of the mail's arrival.    *)
Fairness ==
    /\ WF_vars(ResumeCheck) /\ SF_vars(ResumeConnects)
    /\ WF_vars(OpenStream) /\ WF_vars(Check)
    /\ SF_vars(StartSync) /\ SF_vars(Fetch) /\ SF_vars(Baseline)
    /\ WF_vars(CallFails)
    /\ WF_vars(\E i \in batch :
                  PassOver(i) \/ Accept(i) \/ Refuse(i) \/ ThreadNotFound(i))
    /\ WF_vars(FinishSync)

FairSpec == Spec /\ Fairness

-----------------------------------------------------------------------------
(* Properties.                                                             *)

Pc == {"stopped", "resume", "connecting", "backoff", "check", "select",
       "baseline", "fetch", "deliver", "fallback"}

(* The type of every variable, and the few relations between them that      *)
(* make the indices into the log meaningful.                                *)
TypeOK ==
    /\ log \in Seq(Change)
    /\ gone \subseteq DOMAIN log /\ horizon \in 0..Len(log)
    /\ mem \in Record /\ disk \in Record
    /\ mem.cursor <= Len(log) /\ disk.cursor <= Len(log)
    /\ pc \in Pc
    /\ snap \in Record /\ snap.cursor <= Len(log) /\ newState \in 0..Len(log)
    /\ batch \subseteq DOMAIN log
    /\ hpc \in {"idle", "captured", "stored", "leaving"}
    /\ initial \in 0..Len(log)
    /\ told \in Seq(Nat) /\ Len(told) = Len(log)
    /\ refused \subseteq DOMAIN log /\ hushed \subseteq DOMAIN log
    /\ past \in 0..Len(log) /\ base \in past..Len(log)
    /\ order \in [mute: BOOLEAN, at: 0..Len(log)]
    /\ restarts \in 0..MaxRestarts /\ logins \in 0..MaxLogins
    /\ commands \in 0..MaxCommands

(* The messages worth a notification: README.md, "What gets notified".      *)
Incoming(e) ==
    e.created /\ e.roles \cap {"drafts", "sent"} = {} /\ ~e.draft /\ ~e.own

(* Nothing more is owed for this change.                                    *)
Settled(i) ==
    \/ told[i] > 0
    \/ i \in refused \cup hushed \cup gone
    \/ ~Incoming(log[i])

Covered(cursor) == \A i \in DOMAIN log : base < i /\ i <= cursor => Settled(i)

(* No message is passed in silence: every incoming message that the cursor  *)
(* has moved over since the target was connected was offered to Telegram,   *)
(* filtered by the user, or destroyed in the mailbox. It holds of the       *)
(* cursor in memory and of the one on disk, so a crash at any point between *)
(* two sends, or between the sends and the cursor's write, loses no mail.   *)
CursorNeverOvertakes == Covered(mem.cursor) /\ Covered(disk.cursor)

(* The same of a sync under way, whose copy of the record goes stale: it    *)
(* asks for changes from a covered state only, and until it ends a message  *)
(* up to the state it will write is settled or still in its hands.          *)
SyncInFlight ==
    /\ pc = "fetch" => Covered(snap.cursor)
    /\ pc \in {"deliver", "fallback"} =>
         \A i \in DOMAIN log :
             base < i /\ i <= newState => i \in batch \/ Settled(i)

(* The cursor in memory keeps the promise of MailDelivery, and so does the  *)
(* one on disk, which is what a restarted process goes on from.             *)
SettledChanges == {i \in DOMAIN log : Settled(i)}

Memory == INSTANCE MailDelivery WITH
    total <- Len(log), settled <- SettledChanges, cursor <- mem.cursor

File == INSTANCE MailDelivery WITH
    total <- Len(log), settled <- SettledChanges, cursor <- disk.cursor

MemoryPromise == Memory!Spec
FilePromise == File!Spec

(* A message is announced again only after a crash of the process, or a     *)
(* /login that puts the cursor back to a state it read earlier: failed      *)
(* cursor writes, retried syncs and dead topics repeat nothing.             *)
AnnouncedOnce ==
    restarts = 0 /\ logins = 0 => \A i \in DOMAIN log : told[i] <= 1

(* A /mute or /unmute takes effect in time. A sync under way goes on with   *)
(* the filters it read when it started (watcher.rs:460), so mail that came  *)
(* after the command may still be announced against it, or dropped against  *)
(* it; but no more than the one batch of that sync, whatever is resumed,    *)
(* logged in, written or left unwritten since.                              *)
Defiant ==
    {i \in DOMAIN log :
        /\ order.at < i /\ log[i].listed
        /\ IF order.mute THEN told[i] > 0 ELSE i \in hushed}

FiltersTakeHold == Cardinality(Defiant) <= MaxChanges

(* The mail that was in the account before is never announced, neither     *)
(* after a login nor for a record that comes without a cursor.              *)
HistoryStaysQuiet == \A i \in 1..past : told[i] = 0

(* Every change of the log is eventually covered by the cursor, however     *)
(* many batches that takes and although nothing asks for the next batch:    *)
(* while the target is wanted and has a watcher, and unless the server has  *)
(* forgotten the cursor - after which no sync ever succeeds again.          *)
EveryChangeReached ==
    \A i \in 1..MaxLog :
        i \in DOMAIN log ~>
            \/ mem.cursor >= i
            \/ ~mem.opted \/ pc = "stopped"
            \/ mem.cursor # NoState /\ mem.cursor < horizon

=============================================================================
