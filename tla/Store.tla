------------------------------- MODULE Store -------------------------------
(***************************************************************************)
(* The encrypted record store of src/store.rs: every task of the process   *)
(* changes the shared memory first and then rewrites the whole file under  *)
(* one lock, through a temporary file that is renamed over the old one.    *)
(*                                                                         *)
(* A record is the number of the change that wrote it, 0 when the chat has *)
(* none. A file is torn or holds what was in memory when it was written,   *)
(* and opens with the key it was written with. A key is the number of the  *)
(* process that made it, 0 when there is none.                             *)
(*                                                                         *)
(* A power failure is taken to leave the directory as it was at one moment *)
(* since it was last synced, and a file that was not synced in any state.  *)
(***************************************************************************)
EXTENDS Integers

CONSTANTS
    Chat,       \* chats
    MaxChanges, \* bound: changes of the memory
    MaxCrashes  \* bound: crashes of the process or the machine

ASSUME BoundAssumption == MaxChanges \in Nat /\ MaxCrashes \in Nat

(* A chat's commands run one at a time; its watchers run beside them.      *)
Role == {"handler", "watcher"}
Task == Chat \X Role
NoTask == <<>>

(* What a file can hold: the records, and how many changes they include.   *)
Records == [Chat -> 0..MaxChanges]
NoRecords == [c \in Chat |-> 0]
Torn == [torn |-> TRUE, data |-> NoRecords, upto |-> 0, with |-> 0]
NoFile == [torn |-> FALSE, data |-> NoRecords, upto |-> 0, with |-> 0]
Image == [torn: {FALSE}, data: Records, upto: 0..MaxChanges, with: 0..(MaxCrashes + 1)]
ImageOf(data, upto, master) ==
    [torn |-> FALSE, data |-> data, upto |-> upto, with |-> master]

VARIABLES
    mem,     \* the records in memory (Store.data)
    changes, \* how many changes the memory saw; also numbers them
    pc,      \* where each task stands in its operation
    mine,    \* the change each task is to save
    erasing, \* the chats whose handler is removing the record
    holder,  \* the task that holds persist_lock
    snap,    \* what each task serialized
    tmp,     \* state.tmp: {} or the image it holds
    file,    \* state.enc, as a process sees it
    key,     \* master.key, as a process sees it
    content, \* what its file holds: nothing, the key, or the key for good
    remains, \* the directories a power failure may leave
    boot,    \* how far the process has come in opening the store
    master,  \* the key in its memory
    acked,   \* history: the last change whose save was reported as done
    synced,  \* history: the last change of a save that reached the directory
    erased,  \* history: chats whose removal was reported as done
    crashes

task == <<pc, mine, erasing, holder, snap>>
disk == <<tmp, file, key, content, remains>>
process == <<boot, master>>
history == <<acked, synced, erased, crashes>>
vars == <<mem, changes, task, disk, process, history>>

(* The two entries of the directory.                                        *)
Dir(k, image) == [key |-> k, state |-> image]

Greater(a, b) == IF a > b THEN a ELSE b

-----------------------------------------------------------------------------
(* Changes of the memory, under the lock of the data.                      *)

Change(t, value) ==
    /\ changes < MaxChanges
    /\ changes' = changes + 1
    /\ mem' = [mem EXCEPT ![t[1]] = value]
    /\ mine' = [mine EXCEPT ![t] = changes']
    /\ pc' = [pc EXCEPT ![t] = "lock"]
    /\ UNCHANGED <<holder, snap, disk, acked, synced, crashes>>

(* add_account and the like create the record when it is absent.           *)
Put(t) ==
    /\ pc[t] = "idle" /\ t[2] = "handler"
    /\ Change(t, changes + 1)
    /\ erasing' = erasing \ {t[1]} /\ erased' = erased \ {t[1]}

(* The others, the watchers' cursor updates among them, change it if it is *)
(* there, and otherwise write nothing.                                     *)
Update(t) ==
    /\ pc[t] = "idle" /\ mem[t[1]] # 0
    /\ Change(t, changes + 1)
    /\ UNCHANGED <<erasing, erased>>

Remove(t) ==
    /\ pc[t] = "idle" /\ t[2] = "handler" /\ mem[t[1]] # 0
    /\ Change(t, 0)
    /\ erasing' = erasing \cup {t[1]} /\ UNCHANGED erased

(* Nothing to remove: that is reported, and nothing is written.             *)
RemoveAbsent(t) ==
    /\ pc[t] = "idle" /\ t[2] = "handler" /\ mem[t[1]] = 0
    /\ erased' = erased \cup {t[1]}
    /\ UNCHANGED <<mem, changes, task, disk, acked, synced, crashes>>

-----------------------------------------------------------------------------
(* persist.                                                                *)

Goto(t, label) == pc' = [pc EXCEPT ![t] = label]

(* Mutant: saves are not serialized.                                        *)
LockIgnored(t) ==
    /\ pc[t] = "lock"
    /\ holder' = t
    /\ Goto(t, "snapshot")
    /\ UNCHANGED <<mem, changes, mine, erasing, snap, disk, history>>

Lock(t) ==
    /\ pc[t] = "lock" /\ holder = NoTask
    /\ holder' = t
    /\ Goto(t, "snapshot")
    /\ UNCHANGED <<mem, changes, mine, erasing, snap, disk, history>>

(* Mutant: what to save is the task's own change, applied to the file.      *)
SnapshotOwnChange(t) ==
    /\ pc[t] = "snapshot"
    /\ snap' = [snap EXCEPT ![t] =
                   ImageOf([file.data EXCEPT ![t[1]] = mem[t[1]]], changes, master)]
    /\ Goto(t, "create")
    /\ UNCHANGED <<mem, changes, mine, erasing, holder, disk, history>>

Snapshot(t) ==
    /\ pc[t] = "snapshot"
    /\ snap' = [snap EXCEPT ![t] = ImageOf(mem, changes, master)]
    /\ Goto(t, "create")
    /\ UNCHANGED <<mem, changes, mine, erasing, holder, disk, history>>

(* Mutant: state.enc itself is rewritten.                                   *)
CreateInPlace(t) ==
    /\ pc[t] = "create"
    /\ file' = Torn /\ remains' = remains \cup {Dir(key, Torn)}
    /\ tmp' = {Torn}
    /\ Goto(t, "write")
    /\ UNCHANGED <<mem, changes, mine, erasing, holder, snap, key, content, history>>

Create(t) ==
    /\ pc[t] = "create"
    /\ tmp' = {Torn}
    /\ Goto(t, "write")
    /\ UNCHANGED <<mem, changes, mine, erasing, holder, snap, file, key, content,
                   remains, history>>

Write(t) ==
    /\ pc[t] = "write"
    /\ tmp' = {snap[t]}
    /\ Goto(t, "rename")
    /\ UNCHANGED <<mem, changes, mine, erasing, holder, snap, file, key, content,
                   remains, history>>

Rename(t) ==
    /\ pc[t] = "rename"
    /\ file' \in tmp /\ remains' = remains \cup {Dir(key, file')} /\ tmp' = {}
    /\ Goto(t, "sync")
    /\ UNCHANGED <<mem, changes, mine, erasing, holder, snap, key, content, history>>

Return(t) ==
    /\ holder' = NoTask /\ Goto(t, "idle")
    /\ mine' = [mine EXCEPT ![t] = 0] /\ snap' = [snap EXCEPT ![t] = Torn]

Report(t) ==
    /\ acked' = Greater(acked, mine[t])
    /\ erased' = erased \cup (IF t[2] = "handler" THEN erasing \cap {t[1]} ELSE {})
    /\ erasing' = IF t[2] = "handler" THEN erasing \ {t[1]} ELSE erasing

(* Mutant: the directory is not synced.                                     *)
NoDirSync == UNCHANGED remains

DirSync == remains' = {Dir(key, file)}

(* The rename is made durable; if that fails, the save still counts.        *)
SyncDirectory(t) ==
    /\ pc[t] = "sync"
    /\ DirSync /\ synced' = Greater(synced, mine[t])
    /\ Report(t) /\ Return(t)
    /\ UNCHANGED <<mem, changes, tmp, file, key, content, crashes>>

SyncFails(t) ==
    /\ pc[t] = "sync"
    /\ Report(t) /\ Return(t)
    /\ UNCHANGED <<mem, changes, disk, synced, crashes>>

(* Any earlier failure is returned to the caller, and memory keeps the      *)
(* change.                                                                  *)
Fail(t) ==
    /\ pc[t] \in {"snapshot", "create", "write", "rename"}
    /\ Return(t)
    /\ erasing' = IF t[2] = "handler" THEN erasing \ {t[1]} ELSE erasing
    /\ UNCHANGED <<mem, changes, disk, history>>

-----------------------------------------------------------------------------
(* Store::open: a process finds or makes the key, then reads the records.   *)

(* What a power failure may make of the key's file.                         *)
Kept == CASE content = "flushed" -> "flushed"
          [] content \in {"trusted", "lost"} -> "lost"
          [] OTHER -> "empty"

Makes == UNCHANGED <<mem, changes, task, tmp, file, history>>

MakeKey ==
    /\ boot = "key" /\ key = 0
    /\ key' = crashes + 1 /\ content' = "empty"
    /\ remains' = remains \cup {Dir(key', file)}
    /\ boot' = "write" /\ Makes /\ UNCHANGED master

WriteKey ==
    /\ boot = "write"
    /\ content' = "written"
    /\ boot' = "flush" /\ Makes /\ UNCHANGED <<key, remains, master>>

(* Mutant: the key is not flushed.                                          *)
FlushKeyLater ==
    /\ boot = "flush"
    /\ master' = key
    /\ boot' = "state" /\ Makes /\ UNCHANGED <<key, content, remains>>

FlushKey ==
    /\ boot = "flush"
    /\ content' = "flushed" /\ master' = key
    /\ boot' = "state" /\ Makes /\ UNCHANGED <<key, remains>>

(* A key that a process wrote and had no time to flush is trusted. One that *)
(* it had no time to write ends every process from now on.                  *)
ReadKey ==
    /\ boot = "key" /\ key # 0
    /\ IF content \in {"empty", "lost"} THEN boot' = "refused" /\ UNCHANGED <<content, master>>
       ELSE /\ boot' = "state" /\ master' = key
            /\ content' = IF content = "written" THEN "trusted" ELSE content
    /\ Makes /\ UNCHANGED <<key, remains>>

ReadState ==
    /\ boot = "state"
    /\ IF file.torn \/ file.with \notin {0, master}
       THEN boot' = "refused" /\ UNCHANGED mem
       ELSE boot' = "up" /\ mem' = file.data
    /\ UNCHANGED <<changes, task, disk, master, history>>

(* The process or the machine stops; any error at boot ends it, too. The    *)
(* next one opens what is there.                                            *)

Stops ==
    /\ crashes < MaxCrashes /\ crashes' = crashes + 1
    /\ mem' = NoRecords
    /\ pc' = [t \in Task |-> "idle"] /\ mine' = [t \in Task |-> 0]
    /\ erasing' = {} /\ holder' = NoTask /\ snap' = [t \in Task |-> Torn]
    /\ boot' = "key" /\ master' = 0
    /\ UNCHANGED <<changes, tmp>>

Crash == Stops /\ UNCHANGED <<file, key, content, remains, acked, synced, erased>>

(* History restarts from what the machine kept.                             *)
PowerFailure ==
    /\ Stops
    /\ \E d \in remains :
         /\ file' = d.state /\ key' = d.key /\ remains' = {d}
         /\ content' \in {content, Kept}
    /\ acked' = synced /\ erased' = {} /\ UNCHANGED synced

Init ==
    /\ mem = NoRecords /\ changes = 0
    /\ pc = [t \in Task |-> "idle"] /\ mine = [t \in Task |-> 0]
    /\ erasing = {} /\ holder = NoTask /\ snap = [t \in Task |-> Torn]
    /\ tmp = {} /\ file = NoFile /\ key = 0 /\ content = "empty"
    /\ remains = {Dir(key, file)}
    /\ boot = "key" /\ master = 0
    /\ acked = 0 /\ synced = 0 /\ erased = {} /\ crashes = 0

Serve(t) ==
    \/ Put(t) \/ Update(t) \/ Remove(t) \/ RemoveAbsent(t)
    \/ Lock(t) \/ Snapshot(t) \/ Create(t) \/ Write(t) \/ Rename(t)
    \/ SyncDirectory(t) \/ SyncFails(t) \/ Fail(t)

Next ==
    \/ boot = "up" /\ UNCHANGED process /\ \E t \in Task : Serve(t)
    \/ MakeKey \/ WriteKey \/ FlushKey \/ ReadKey \/ ReadState
    \/ Crash \/ PowerFailure

Spec == Init /\ [][Next]_vars

-----------------------------------------------------------------------------
(* Properties.                                                             *)

Saving == {"snapshot", "create", "write", "rename", "sync"}

(* The types, and that the lock is held exactly by the task that saves.     *)
TypeOK ==
    /\ mem \in Records /\ changes \in 0..MaxChanges
    /\ pc \in [Task -> {"idle", "lock"} \cup Saving]
    /\ mine \in [Task -> 0..changes]
    /\ erasing \subseteq Chat /\ erased \subseteq Chat
    /\ holder \in Task \cup {NoTask}
    /\ \A t \in Task : pc[t] \in Saving <=> holder = t
    /\ snap \in [Task -> Image \cup {Torn}]
    /\ tmp \subseteq Image \cup {Torn} /\ \A x, y \in tmp : x = y
    /\ file \in Image \cup {Torn}
    /\ key \in 0..(crashes + 1) /\ master \in {0, key}
    /\ content \in {"empty", "written", "flushed", "trusted", "lost"}
    /\ remains \subseteq [key: {0, key}, state: Image \cup {Torn}]
    /\ boot \in {"key", "write", "flush", "state", "up", "refused"}
    /\ boot # "up" => \A t \in Task : pc[t] = "idle"
    /\ acked \in 0..changes /\ synced \in 0..acked
    /\ crashes \in 0..MaxCrashes

(* Whenever the process or the machine stops, state.enc is whole and the key *)
(* it was written with is beside it, so that the next process can open it   *)
(* (store.rs:772-776): also if the power fails, unless a process died between *)
(* writing the key and flushing it, and the next one found it written.      *)
Opens(d, kept) ==
    ~d.state.torn /\ (d.state.with # 0 => d.state.with = d.key /\ kept)

FileIsWhole ==
    /\ Opens(Dir(key, file), content # "empty")
    /\ \A d \in remains : Opens(d, content \in {"flushed", "trusted", "lost"})

(* What a task was told is saved is in the file, and stays there whatever   *)
(* snapshots the other tasks still have in their hands.                     *)
AckedIsInFile == acked <= file.upto

(* And it survives a power failure if the directory could be synced.        *)
SyncedSurvives == \A d \in remains : synced <= d.state.upto

(* The file, like each image a power failure leaves, is what memory held at *)
(* one moment: no record of one chat without the earlier ones of another.   *)
(* A file that includes n changes has no record of a later one, and as long *)
(* as the process lived through them it agrees with memory on every chat    *)
(* that memory has not touched since.                                       *)
FileIsOneMoment ==
    \A image \in {d.state : d \in remains} \cup {file} :
        /\ \A c \in Chat : image.data[c] <= image.upto
        /\ crashes = 0 => \A c \in Chat :
             mem[c] # 0 /\ mem[c] <= image.upto => image.data[c] = mem[c]

(* src/store.rs:697-698: once the removal has returned, nothing of the chat *)
(* is on disk. A removal whose save failed returns an error; the next one   *)
(* finds nothing in memory and reports success, with the record on disk.    *)
ErasedForGood == \A c \in erased : file.data[c] = 0

=============================================================================
