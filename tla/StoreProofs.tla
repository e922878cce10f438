---------------------------- MODULE StoreProofs ----------------------------
(***************************************************************************)
(* Proofs about Store, for any number of chats, changes and crashes.       *)
(***************************************************************************)
EXTENDS Store, TLAPS

USE BoundAssumption

(* A task is a pair, and so not the holder of a free lock.                  *)
LEMMA TaskIsPair ==
    ASSUME NEW t \in Task
    PROVE  t[1] \in Chat /\ t[2] \in Role /\ t # NoTask
  BY DEF Task, NoTask

LEMMA LargerOfTwo ==
    ASSUME NEW a \in Nat, NEW b \in Nat
    PROVE  Greater(a, b) \in {a, b} /\ Greater(a, b) >= a /\ Greater(a, b) >= b
  BY DEF Greater

LEMMA EmptyFiles ==
    /\ NoRecords \in Records
    /\ NoFile \in Image /\ ~NoFile.torn /\ NoFile.with = 0 /\ NoFile.upto = 0
  BY DEF NoRecords, Records, NoFile, Image

LEMMA ImageParts ==
    ASSUME NEW image \in Image \cup {Torn}
    PROVE  image.upto \in Nat /\ image.data \in Records
  <1>1. CASE image \in Image
    BY <1>1 DEF Image
  <1>2. CASE image = Torn
    BY <1>2, EmptyFiles DEF Torn
  <1>3. QED
    BY <1>1, <1>2

LEMMA ImagesAreImages ==
    ASSUME NEW data \in Records, NEW upto \in 0..MaxChanges,
           NEW k \in 0..(MaxCrashes + 1)
    PROVE  ImageOf(data, upto, k) \in Image
  BY DEF ImageOf, Image

-----------------------------------------------------------------------------
(* Type correctness.                                                       *)

LEMMA InitType == Init => TypeOK
  <1> SUFFICES ASSUME Init PROVE TypeOK
    OBVIOUS
  <1> USE EmptyFiles DEF Init
  <1>1. mem \in Records /\ changes = 0 /\ snap \in [Task -> Image \cup {Torn}]
    OBVIOUS
  <1>2. \A t \in Task : pc[t] \in Saving <=> holder = t
    BY TaskIsPair DEF Saving
  <1>3. remains \subseteq [key: {0, key}, state: Image \cup {Torn}]
    BY DEF Dir
  <1>4. QED
    BY <1>1, <1>2, <1>3 DEF TypeOK

(* A change of the memory keeps the types, whatever it writes.              *)
LEMMA ChangeType ==
    ASSUME TypeOK, boot = "up", UNCHANGED process,
           NEW t \in Task, pc[t] = "idle",
           NEW value \in 0..(changes + 1), Change(t, value),
           erasing' \subseteq Chat, erased' \subseteq Chat
    PROVE  TypeOK'
  <1> USE DEF Change, process
  <1>1. changes' \in 0..MaxChanges /\ changes' = changes + 1 /\ value \in 0..MaxChanges
    BY DEF TypeOK
  <1>2. mem' \in Records
    BY <1>1, TaskIsPair DEF TypeOK, Records
  <1>3. mine' \in [Task -> 0..changes']
    BY <1>1 DEF TypeOK
  <1>4. pc' \in [Task -> {"idle", "lock"} \cup Saving]
        /\ \A u \in Task : pc'[u] \in Saving <=> holder' = u
    BY DEF TypeOK, Saving
  <1>5. UNCHANGED disk /\ acked' \in 0..changes' /\ synced' \in 0..acked'
    BY <1>1 DEF TypeOK
  <1>6. QED
    BY <1>1, <1>2, <1>3, <1>4, <1>5 DEF TypeOK, disk

(* What saving changes; the rest of the state is as it was.                 *)
LEMMA SaveType ==
    ASSUME TypeOK, boot = "up", UNCHANGED process, NEW t \in Task,
           Lock(t) \/ Snapshot(t) \/ Create(t) \/ Write(t) \/ Rename(t)
    PROVE  TypeOK'
  <1> USE DEF TypeOK, process
  <1>1. CASE Lock(t)
    BY <1>1, TaskIsPair DEF Lock, Goto, Saving, disk, history
  <1>2. CASE Snapshot(t)
    <2>1. ImageOf(mem, changes, master) \in Image
      BY ImagesAreImages
    <2>2. snap' \in [Task -> Image \cup {Torn}]
      BY <1>2, <2>1 DEF Snapshot
    <2>3. QED
      BY <1>2, <2>2, TaskIsPair DEF Snapshot, Goto, Saving, disk, history
  <1>3. CASE Create(t)
    BY <1>3, TaskIsPair DEF Create, Goto, Saving, history
  <1>4. CASE Write(t)
    BY <1>4, TaskIsPair DEF Write, Goto, Saving, history
  <1>5. CASE Rename(t)
    <2>1. file' \in Image \cup {Torn} /\ tmp' = {}
      BY <1>5 DEF Rename
    <2>2. remains' \subseteq [key: {0, key'}, state: Image \cup {Torn}]
      BY <1>5, <2>1 DEF Rename, Dir
    <2>3. QED
      BY <1>5, <2>1, <2>2, TaskIsPair DEF Rename, Goto, Saving, history
  <1>6. QED
    BY <1>1, <1>2, <1>3, <1>4, <1>5

(* A save that ends, well or not, gives the lock back.                      *)
LEMMA ReturnType ==
    ASSUME TypeOK, NEW t \in Task, pc[t] \in Saving, Return(t)
    PROVE  /\ pc' \in [Task -> {"idle", "lock"} \cup Saving]
           /\ \A u \in Task : pc'[u] \in Saving <=> holder' = u
           /\ mine' \in [Task -> 0..changes] /\ snap' \in [Task -> Image \cup {Torn}]
           /\ holder' \in Task \cup {NoTask}
  BY TaskIsPair DEF TypeOK, Return, Goto, Saving

LEMMA EndType ==
    ASSUME TypeOK, boot = "up", UNCHANGED process, NEW t \in Task,
           SyncDirectory(t) \/ SyncFails(t) \/ Fail(t)
    PROVE  TypeOK'
  <1> USE DEF process
  <1>1. pc[t] \in Saving
    BY DEF SyncDirectory, SyncFails, Fail, Saving
  <1>2. Return(t)
    BY DEF SyncDirectory, SyncFails, Fail
  <1>3. mine[t] \in 0..changes /\ acked \in 0..changes /\ synced \in 0..acked
        /\ changes \in Nat
    BY DEF TypeOK
  <1>4. acked' \in 0..changes /\ synced' \in 0..acked'
    BY <1>3, LargerOfTwo DEF SyncDirectory, SyncFails, Fail, Report, history, Greater
  <1>5. erasing' \subseteq Chat /\ erased' \subseteq Chat
    BY TaskIsPair DEF TypeOK, SyncDirectory, SyncFails, Fail, Report, history
  <1>6. remains' \subseteq [key: {0, key}, state: Image \cup {Torn}]
        /\ UNCHANGED <<mem, changes, tmp, file, key, content, crashes>>
    BY DEF TypeOK, SyncDirectory, SyncFails, Fail, DirSync, Dir, disk, history
  <1>7. QED
    BY <1>1, <1>2, <1>4, <1>5, <1>6, ReturnType DEF TypeOK

LEMMA ServeType ==
    ASSUME TypeOK, boot = "up", UNCHANGED process, NEW t \in Task, Serve(t)
    PROVE  TypeOK'
  <1>1. t[1] \in Chat /\ changes \in Nat /\ changes + 1 \in 0..(changes + 1)
    BY TaskIsPair DEF TypeOK
  <1>2. CASE Put(t)
    <2>1. erasing' \subseteq Chat /\ erased' \subseteq Chat
      BY <1>2 DEF Put, TypeOK
    <2>2. QED
      BY <1>1, <1>2, <2>1, ChangeType DEF Put
  <1>3. CASE Update(t)
    <2>1. erasing' \subseteq Chat /\ erased' \subseteq Chat
      BY <1>3 DEF Update, TypeOK
    <2>2. QED
      BY <1>1, <1>3, <2>1, ChangeType DEF Update
  <1>4. CASE Remove(t)
    <2>1. erasing' \subseteq Chat /\ erased' \subseteq Chat
      BY <1>1, <1>4 DEF Remove, TypeOK
    <2>2. 0 \in 0..(changes + 1)
      BY <1>1
    <2>3. QED
      BY <1>4, <2>1, <2>2, ChangeType DEF Remove
  <1>5. CASE RemoveAbsent(t)
    BY <1>1, <1>5 DEF RemoveAbsent, TypeOK, task, disk, process
  <1>6. CASE Lock(t) \/ Snapshot(t) \/ Create(t) \/ Write(t) \/ Rename(t)
    BY <1>6, SaveType
  <1>7. CASE SyncDirectory(t) \/ SyncFails(t) \/ Fail(t)
    BY <1>7, EndType
  <1>8. QED
    BY <1>2, <1>3, <1>4, <1>5, <1>6, <1>7 DEF Serve

LEMMA BootType ==
    ASSUME TypeOK, MakeKey \/ WriteKey \/ FlushKey \/ ReadKey \/ ReadState
    PROVE  TypeOK'
  <1> USE DEF TypeOK, Makes, task, history
  <1>1. CASE MakeKey
    <2>1. remains' \subseteq [key: {0, key'}, state: Image \cup {Torn}]
      BY <1>1 DEF MakeKey, Dir
    <2>2. QED
      BY <1>1, <2>1 DEF MakeKey
  <1>2. CASE WriteKey
    BY <1>2 DEF WriteKey
  <1>3. CASE FlushKey
    BY <1>3 DEF FlushKey
  <1>4. CASE ReadKey
    BY <1>4 DEF ReadKey
  <1>5. CASE ReadState
    <2>1. mem' \in {mem, file.data}
      BY <1>5 DEF ReadState
    <2>2. file.data \in Records
      BY ImageParts
    <2>3. mem' \in Records
      BY <2>1, <2>2
    <2>4. QED
      BY <1>5, <2>3 DEF ReadState, disk
  <1>6. QED
    BY <1>1, <1>2, <1>3, <1>4, <1>5

LEMMA StopType ==
    ASSUME TypeOK, Crash \/ PowerFailure
    PROVE  TypeOK'
  <1> USE DEF TypeOK, Stops
  <1>1. crashes' \in 0..MaxCrashes /\ crashes' = crashes + 1
    BY DEF Crash, PowerFailure
  <1>2. \A t \in Task : pc'[t] \in Saving <=> holder' = t
    BY TaskIsPair DEF Crash, PowerFailure, Saving
  <1>3. CASE Crash
    BY <1>1, <1>2, <1>3, EmptyFiles DEF Crash
  <1>4. CASE PowerFailure
    <2>1. PICK d \in remains :
            file' = d.state /\ key' = d.key /\ remains' = {d}
      BY <1>4 DEF PowerFailure
    <2>2. content' \in {"empty", "written", "flushed", "trusted", "lost"}
      BY <1>4 DEF PowerFailure, Kept
    <2>3. key' \in 0..(crashes' + 1) /\ remains' \subseteq [key: {0, key'}, state: Image \cup {Torn}]
      BY <1>1, <2>1
    <2>4. QED
      BY <1>1, <1>2, <1>4, <2>1, <2>2, <2>3, EmptyFiles DEF PowerFailure
  <1>5. QED
    BY <1>3, <1>4

LEMMA StepType == TypeOK /\ [Next]_vars => TypeOK'
  <1> SUFFICES ASSUME TypeOK, [Next]_vars PROVE TypeOK'
    OBVIOUS
  <1>1. CASE boot = "up" /\ UNCHANGED process /\ \E t \in Task : Serve(t)
    BY <1>1, ServeType
  <1>2. CASE MakeKey \/ WriteKey \/ FlushKey \/ ReadKey \/ ReadState
    BY <1>2, BootType
  <1>3. CASE Crash \/ PowerFailure
    BY <1>3, StopType
  <1>4. CASE UNCHANGED vars
    BY <1>4 DEF vars, task, disk, process, history, TypeOK
  <1>5. QED
    BY <1>1, <1>2, <1>3, <1>4 DEF Next

(* Every variable keeps its type, and the lock is held exactly by the task  *)
(* that saves, through every crash.                                         *)
THEOREM LockIsHeld == Spec => []TypeOK
  BY InitType, StepType, PTL DEF Spec

-----------------------------------------------------------------------------
(* What a save has in its hands.                                            *)

(* What a task is about to make the file.                                   *)
Ready(t) ==
    IF pc[t] \in {"create", "write"} THEN {snap[t]}
    ELSE IF pc[t] = "rename" THEN tmp ELSE {}

(* While a task has something in its hands nobody else saves, and only a    *)
(* snapshot puts something new there.                                       *)
LEMMA HandOver ==
    ASSUME TypeOK, Next, NEW u \in Task, NEW image \in Ready(u)'
    PROVE  /\ boot = "up" /\ UNCHANGED <<boot, master, key, content, acked, crashes>>
           /\ mine'[u] = mine[u]
           /\ \/ image \in Ready(u)
              \/ Snapshot(u) /\ image = ImageOf(mem, changes, master)
  <1> DEFINE Goal == /\ UNCHANGED <<key, content, acked, crashes>>
                     /\ mine'[u] = mine[u]
                     /\ \/ image \in Ready(u)
                        \/ Snapshot(u) /\ image = ImageOf(mem, changes, master)
  <1>1. pc'[u] \in {"create", "write", "rename"}
    BY DEF Ready
  <1>2. CASE boot = "up" /\ UNCHANGED process /\ \E t \in Task : Serve(t)
    <2>1. PICK t \in Task : Serve(t)
      BY <1>2
    <2>2. pc[t] \in Saving /\ pc[u] \in Saving => u = t
      BY DEF TypeOK
    <2>3. CASE Put(t) \/ Update(t) \/ Remove(t)
      <3>1. pc' = [pc EXCEPT ![t] = "lock"] /\ u # t
        BY <1>1, <2>3 DEF Put, Update, Remove, Change, TypeOK
      <3>2. mine'[u] = mine[u] /\ UNCHANGED <<snap, disk, acked, crashes>> /\ pc'[u] = pc[u]
        BY <2>3, <3>1 DEF Put, Update, Remove, Change, TypeOK
      <3>3. Goal
        BY <3>2 DEF Ready, disk
      <3>4. QED
        BY <1>2, <3>3 DEF process
    <2>4. CASE RemoveAbsent(t)
      BY <1>2, <2>4 DEF RemoveAbsent, Ready, process, task, disk
    <2>5. CASE Lock(t)
      <3>1. u # t /\ pc'[u] = pc[u]
        BY <1>1, <2>5 DEF Lock, Goto, TypeOK
      <3>2. QED
        BY <1>2, <2>5, <3>1 DEF Lock, Ready, process, disk, history
    <2>6. CASE Snapshot(t)
      <3>1. u = t /\ image = ImageOf(mem, changes, master)
        BY <1>1, <2>2, <2>6 DEF Snapshot, Goto, TypeOK, Saving, Ready
      <3>2. QED
        BY <1>2, <2>6, <3>1 DEF Snapshot, process, disk, history
    <2>7. CASE Create(t) \/ Write(t)
      <3>1. u = t
        BY <1>1, <2>2, <2>7 DEF Create, Write, Goto, TypeOK, Saving
      <3>2. image \in Ready(u)
        BY <2>7, <3>1 DEF Create, Write, Goto, TypeOK, Ready
      <3>3. QED
        BY <1>2, <2>7, <3>2 DEF Create, Write, process, history
    <2>8. CASE Rename(t)
      BY <1>1, <2>2, <2>8 DEF Rename, Goto, TypeOK, Saving
    <2>9. CASE SyncDirectory(t) \/ SyncFails(t) \/ Fail(t)
      BY <1>1, <2>2, <2>9 DEF SyncDirectory, SyncFails, Fail, Return, Goto, TypeOK, Saving
    <2>10. QED
      BY <2>1, <2>3, <2>4, <2>5, <2>6, <2>7, <2>8, <2>9 DEF Serve
  <1>3. CASE MakeKey \/ WriteKey \/ FlushKey \/ ReadKey \/ ReadState
    BY <1>1, <1>3 DEF MakeKey, WriteKey, FlushKey, ReadKey, ReadState, Makes, task, TypeOK
  <1>4. CASE Crash \/ PowerFailure
    BY <1>1, <1>4 DEF Crash, PowerFailure, Stops
  <1>5. QED
    BY <1>2, <1>3, <1>4 DEF Next

(* The file changes only by the rename of what a task had ready, or by a    *)
(* power failure; and so do the directories that may remain.                *)
LEMMA FileChanges ==
    ASSUME TypeOK, Next, ~PowerFailure
    PROVE  /\ \/ file' = file
              \/ key' = key /\ \E t \in Task : Rename(t) /\ file' \in Ready(t)
           /\ remains' \subseteq remains \cup {Dir(key', file')}
  <1>1. CASE boot = "up" /\ UNCHANGED process /\ \E t \in Task : Serve(t)
    <2>1. PICK t \in Task : Serve(t)
      BY <1>1
    <2>2. CASE Rename(t)
      BY <2>2 DEF Rename, Ready
    <2>3. CASE ~Rename(t)
      <3>1. file' = file /\ key' = key
        BY <2>1, <2>3 DEF Serve, Put, Update, Remove, Change, RemoveAbsent, Lock, Snapshot,
                          Create, Write, SyncDirectory, SyncFails, Fail, disk
      <3>2. remains' = remains \/ remains' = {Dir(key, file)}
        BY <2>1, <2>3 DEF Serve, Put, Update, Remove, Change, RemoveAbsent, Lock, Snapshot,
                          Create, Write, SyncDirectory, SyncFails, Fail, DirSync, disk
      <3>3. QED
        BY <3>1, <3>2
    <2>4. QED
      BY <2>2, <2>3
  <1>2. CASE MakeKey \/ WriteKey \/ FlushKey \/ ReadKey \/ ReadState
    BY <1>2 DEF MakeKey, WriteKey, FlushKey, ReadKey, ReadState, Makes, disk
  <1>3. CASE Crash
    BY <1>3 DEF Crash
  <1>4. QED
    BY <1>1, <1>2, <1>3 DEF Next

-----------------------------------------------------------------------------
(* The file and its key.                                                    *)

Dirs == remains \cup {Dir(key, file)}

(* What is on disk, or about to be, is whole and was written with the key   *)
(* beside it, and nothing is before that key is safe.                       *)
KeyComesFirst ==
    /\ \A d \in Dirs : ~d.state.torn /\ d.state.with \in {0, d.key}
    /\ content \in {"empty", "written"} => \A d \in Dirs : d.state.with = 0
    /\ boot = "write" => content = "empty"
    /\ boot = "flush" => content = "written"
    /\ boot \in {"state", "up"} => master = key /\ content \in {"flushed", "trusted"}
    /\ \A t \in Task : \A image \in Ready(t) : ~image.torn /\ image.with = key

LEMMA FileIsThere ==
    Dir(key, file) \in Dirs /\ Dir(key, file).state = file /\ Dir(key, file).key = key
  BY DEF Dirs, Dir

LEMMA ReadyIsSound ==
    ASSUME TypeOK, KeyComesFirst, Next,
           NEW u \in Task, NEW image \in Ready(u)'
    PROVE  ~image.torn /\ image.with = key'
  <1>1. key' = key /\ boot = "up"
    BY HandOver
  <1>2. CASE image \in Ready(u)
    BY <1>1, <1>2 DEF KeyComesFirst
  <1>3. CASE image = ImageOf(mem, changes, master)
    BY <1>1, <1>3 DEF KeyComesFirst, ImageOf
  <1>4. QED
    BY <1>2, <1>3, HandOver

LEMMA DirsStep ==
    ASSUME TypeOK, KeyComesFirst, Next, NEW d \in Dirs'
    PROVE  ~d.state.torn /\ d.state.with \in {0, d.key}
  <1>1. CASE PowerFailure
    BY <1>1 DEF PowerFailure, Dirs, Dir, KeyComesFirst
  <1>2. CASE ~PowerFailure
    <2>1. d \in Dirs \/ d = Dir(key', file')
      BY <1>2, FileChanges DEF Dirs
    <2>2. CASE d = Dir(key', file') /\ file' = file
      <3>1. ~file.torn /\ file.with \in {0, key}
        BY FileIsThere DEF KeyComesFirst
      <3>2. key' = key \/ (key = 0 /\ file.with = 0)
        <4>1. CASE MakeKey
          BY <3>1, <4>1 DEF MakeKey
        <4>2. CASE ~MakeKey
          BY <1>2, <4>2 DEF Next, WriteKey, FlushKey, ReadKey, ReadState, Crash, disk,
             Serve, Put, Update, Remove, Change, RemoveAbsent, Lock, Snapshot,
             Create, Write, Rename, SyncDirectory, SyncFails, Fail
        <4>3. QED
          BY <4>1, <4>2
      <3>3. QED
        BY <2>2, <3>1, <3>2 DEF Dir
    <2>3. CASE d = Dir(key', file') /\ file' # file
      <3>1. key' = key /\ \E t \in Task : file' \in Ready(t)
        BY <1>2, <2>3, FileChanges
      <3>2. QED
        BY <2>3, <3>1 DEF KeyComesFirst, Dir
    <2>4. QED
      BY <2>1, <2>2, <2>3 DEF KeyComesFirst
  <1>3. QED
    BY <1>1, <1>2

LEMMA KeyStep ==
    ASSUME TypeOK, KeyComesFirst, [Next]_vars
    PROVE  KeyComesFirst'
  <1>1. CASE UNCHANGED vars
    BY <1>1 DEF vars, task, disk, process, history, KeyComesFirst, Dirs, Dir, Ready
  <1> SUFFICES ASSUME Next PROVE KeyComesFirst'
    BY <1>1
  <1>2. \A d \in Dirs' : ~d.state.torn /\ d.state.with \in {0, d.key}
    BY DirsStep
  <1>3. \A t \in Task : \A image \in Ready(t)' : ~image.torn /\ image.with = key'
    BY ReadyIsSound
  <1> DEFINE Written == \A d \in Dirs : d.state.with = 0
             Rest == /\ content' \in {"empty", "written"} => Written'
                     /\ boot' = "write" => content' = "empty"
                     /\ boot' = "flush" => content' = "written"
                     /\ boot' \in {"state", "up"} =>
                          master' = key' /\ content' \in {"flushed", "trusted"}
  <1>4. CASE boot = "up" /\ UNCHANGED process /\ \E t \in Task : Serve(t)
    <2>1. key' = key /\ content' = content
      BY <1>4 DEF disk,
             Serve, Put, Update, Remove, Change, RemoveAbsent, Lock, Snapshot,
             Create, Write, Rename, SyncDirectory, SyncFails, Fail
    <2>2. QED
      BY <1>2, <1>3, <1>4, <2>1 DEF KeyComesFirst, process
  <1>5. CASE MakeKey
    <2>1. \A d \in Dirs : d.state.with = 0
      BY <1>5 DEF MakeKey, KeyComesFirst, TypeOK, Dirs, Dir
    <2>2. ASSUME NEW d \in Dirs' PROVE d.state.with = 0
      <3>1. d \in Dirs \/ d = Dir(key', file)
        BY <1>5 DEF MakeKey, Makes, Dirs
      <3>2. Dir(key', file).state = file
        BY DEF Dir
      <3>3. QED
        BY <2>1, <3>1, <3>2, FileIsThere
    <2>3. QED
      BY <1>2, <1>3, <1>5, <2>2 DEF KeyComesFirst, MakeKey
  <1>6. CASE WriteKey
    <2>1. Dirs' = Dirs
      BY <1>6 DEF WriteKey, Makes, Dirs, Dir
    <2>2. QED
      BY <1>2, <1>3, <1>6, <2>1 DEF KeyComesFirst, WriteKey
  <1>7. CASE FlushKey
    BY <1>2, <1>3, <1>7 DEF KeyComesFirst, FlushKey
  <1>8. CASE ReadKey
    <2>1. Dirs' = Dirs
      BY <1>8 DEF ReadKey, Makes, Dirs, Dir
    <2>2. content' \in {"empty", "written"} => content \in {"empty", "written"}
      BY <1>8 DEF ReadKey
    <2>3. boot' \in {"refused", "state"}
          /\ (boot' = "state" => master' = key' /\ content' \in {"flushed", "trusted"})
      BY <1>8 DEF ReadKey, TypeOK
    <2>4. QED
      BY <1>2, <1>3, <2>1, <2>2, <2>3 DEF KeyComesFirst
  <1>9. CASE ReadState
    <2>1. Dirs' = Dirs /\ content' = content /\ key' = key /\ master' = master
      BY <1>9 DEF ReadState, disk, Dirs, Dir
    <2>2. boot = "state" /\ boot' \in {"refused", "up"}
      BY <1>9 DEF ReadState
    <2>3. QED
      BY <1>2, <1>3, <2>1, <2>2 DEF KeyComesFirst
  <1>10. CASE Crash
    <2>1. Dirs' = Dirs /\ content' = content /\ boot' = "key"
      BY <1>10 DEF Crash, Stops, Dirs, Dir
    <2>2. QED
      BY <1>2, <1>3, <2>1 DEF KeyComesFirst
  <1>11. CASE PowerFailure
    <2>1. Dirs' \subseteq Dirs /\ boot' = "key"
      BY <1>11 DEF PowerFailure, Stops, Dirs, Dir, TypeOK
    <2>2. content' \in {"empty", "written"} => content \in {"empty", "written"}
      BY <1>11 DEF PowerFailure, Kept, TypeOK
    <2>3. QED
      BY <1>2, <1>3, <2>1, <2>2 DEF KeyComesFirst
  <1>12. QED
    BY <1>4, <1>5, <1>6, <1>7, <1>8, <1>9, <1>10, <1>11 DEF Next

(* For any number of chats, tasks, crashes and power failures, at any step  *)
(* of a save or of the making of the key: what is there can be opened.      *)
THEOREM NextProcessOpens == Spec => []FileIsWhole
  <1>1. Init => KeyComesFirst
    BY EmptyFiles DEF Init, KeyComesFirst, Dirs, Dir, Ready
  <1>2. TypeOK /\ KeyComesFirst => FileIsWhole
    <2> SUFFICES ASSUME TypeOK, KeyComesFirst PROVE FileIsWhole
      OBVIOUS
    <2>1. ASSUME NEW d \in Dirs, d.state.with # 0
          PROVE  content \in {"flushed", "trusted", "lost"}
      BY <2>1 DEF KeyComesFirst, TypeOK
    <2>2. QED
      BY <2>1 DEF KeyComesFirst, FileIsWhole, Opens, Dirs
  <1>3. QED
    BY <1>1, <1>2, InitType, StepType, KeyStep, PTL DEF Spec

-----------------------------------------------------------------------------
(* What was acknowledged.                                                   *)

LEMMA NumbersAreNumbers ==
    ASSUME TypeOK
    PROVE  /\ \A d \in Dirs : d.state.upto \in Nat
           /\ \A t \in Task : \A image \in Ready(t) : image.upto \in Nat
           /\ file.upto \in Nat
           /\ \A t \in Task : mine[t] \in Nat /\ mine[t] <= changes
           /\ acked \in Nat /\ synced \in Nat /\ changes \in Nat
           /\ synced <= acked /\ acked <= changes
  <1>1. \A image \in Image \cup {Torn} : image.upto \in Nat
    BY ImageParts
  <1>2. \A d \in Dirs : d.state \in Image \cup {Torn}
    BY DEF TypeOK, Dirs, Dir
  <1>3. \A t \in Task : Ready(t) \subseteq Image \cup {Torn}
    BY DEF TypeOK, Ready
  <1>4. QED
    BY <1>1, <1>2, <1>3 DEF TypeOK

(* Between its rename and its answer, no other task touches the file.       *)
LEMMA BeforeTheAnswer ==
    ASSUME TypeOK, Next, NEW u \in Task, pc'[u] = "sync"
    PROVE  /\ mine'[u] = mine[u]
           /\ \/ file' \in Ready(u)
              \/ pc[u] = "sync" /\ file' = file
  <1>1. CASE boot = "up" /\ UNCHANGED process /\ \E t \in Task : Serve(t)
    <2>1. PICK t \in Task : Serve(t)
      BY <1>1
    <2>2. pc[t] \in Saving /\ pc[u] \in Saving => u = t
      BY DEF TypeOK
    <2>3. CASE Put(t) \/ Update(t) \/ Remove(t)
      BY <2>3 DEF Put, Update, Remove, Change, TypeOK, disk
    <2>4. CASE RemoveAbsent(t)
      BY <2>4 DEF RemoveAbsent, task, disk
    <2>5. CASE Lock(t)
      BY <2>5 DEF Lock, Goto, TypeOK, disk
    <2>6. CASE Snapshot(t) \/ Create(t) \/ Write(t)
      BY <2>2, <2>6 DEF Snapshot, Create, Write, Goto, TypeOK, Saving
    <2>7. CASE Rename(t)
      <3>1. u = t
        BY <2>2, <2>7 DEF Rename, Goto, TypeOK, Saving
      <3>2. QED
        BY <2>7, <3>1 DEF Rename, Ready
    <2>8. CASE SyncDirectory(t) \/ SyncFails(t) \/ Fail(t)
      BY <2>2, <2>8 DEF SyncDirectory, SyncFails, Fail, Return, Goto, TypeOK, Saving
    <2>9. QED
      BY <2>1, <2>3, <2>4, <2>5, <2>6, <2>7, <2>8 DEF Serve
  <1>2. CASE MakeKey \/ WriteKey \/ FlushKey \/ ReadKey \/ ReadState
    BY <1>2 DEF MakeKey, WriteKey, FlushKey, ReadKey, ReadState, Makes, task, TypeOK
  <1>3. CASE Crash \/ PowerFailure
    BY <1>3 DEF Crash, PowerFailure, Stops
  <1>4. QED
    BY <1>1, <1>2, <1>3 DEF Next

(* A save has in its hands its own change and all that was acknowledged.    *)
SavesInOrder ==
    /\ acked <= file.upto
    /\ \A d \in Dirs : synced <= d.state.upto
    /\ \A t \in Task : \A image \in Ready(t) : mine[t] <= image.upto /\ acked <= image.upto
    /\ \A t \in Task : pc[t] = "sync" => mine[t] <= file.upto

(* An acknowledgement is of a save whose rename is done.                    *)
LEMMA Acknowledges ==
    ASSUME TypeOK, Next, ~PowerFailure
    PROVE  \/ UNCHANGED <<acked, synced>>
           \/ /\ file' = file /\ key' = key
              /\ \E t \in Task :
                   /\ pc[t] = "sync" /\ acked' = Greater(acked, mine[t])
                   /\ \/ synced' = synced
                      \/ synced' = Greater(synced, mine[t]) /\ remains' = {Dir(key, file)}
  <1>1. CASE boot = "up" /\ UNCHANGED process /\ \E t \in Task : Serve(t)
    <2>1. PICK t \in Task : Serve(t)
      BY <1>1
    <2>2. CASE SyncDirectory(t) \/ SyncFails(t)
      BY <2>2 DEF SyncDirectory, SyncFails, Report, DirSync, disk
    <2>3. CASE ~(SyncDirectory(t) \/ SyncFails(t))
      BY <2>1, <2>3 DEF Serve, Put, Update, Remove, Change, RemoveAbsent, Lock, Snapshot,
                        Create, Write, Rename, Fail, history
    <2>4. QED
      BY <2>2, <2>3
  <1>2. CASE MakeKey \/ WriteKey \/ FlushKey \/ ReadKey \/ ReadState
    BY <1>2 DEF MakeKey, WriteKey, FlushKey, ReadKey, ReadState, Makes, history
  <1>3. CASE Crash
    BY <1>3 DEF Crash
  <1>4. QED
    BY <1>1, <1>2, <1>3 DEF Next

LEMMA OrderStep ==
    ASSUME TypeOK, SavesInOrder, [Next]_vars
    PROVE  SavesInOrder'
  <1>1. CASE UNCHANGED vars
    BY <1>1 DEF vars, task, disk, process, history, SavesInOrder, Dirs, Dir, Ready
  <1> SUFFICES ASSUME Next PROVE SavesInOrder'
    BY <1>1
  <1>2. TypeOK'
    BY StepType
  <1> USE NumbersAreNumbers
  <1>3. ASSUME NEW t \in Task, NEW image \in Ready(t)'
        PROVE  mine'[t] <= image.upto /\ acked' <= image.upto
    <2>1. mine'[t] = mine[t] /\ acked' = acked
      BY <1>3, HandOver
    <2>2. CASE image \in Ready(t)
      BY <2>1, <2>2 DEF SavesInOrder
    <2>3. CASE image = ImageOf(mem, changes, master)
      BY <2>1, <2>3 DEF ImageOf
    <2>4. QED
      BY <1>3, <2>2, <2>3, HandOver
  <1>4. ASSUME NEW t \in Task, pc'[t] = "sync" PROVE mine'[t] <= file'.upto
    BY <1>4, BeforeTheAnswer DEF SavesInOrder
  <1>5. CASE PowerFailure
    <2>1. PICK d \in remains : file' = d.state /\ key' = d.key /\ remains' = {d}
      BY <1>5 DEF PowerFailure
    <2>2. acked' = synced /\ synced' = synced /\ synced <= d.state.upto
      BY <1>5, <2>1 DEF PowerFailure, SavesInOrder, Dirs
    <2>3. \A x \in Dirs' : x.state = d.state
      BY <2>1 DEF Dirs, Dir
    <2>4. QED
      BY <1>3, <1>4, <2>1, <2>2, <2>3 DEF SavesInOrder
  <1>6. CASE ~PowerFailure
    <2>1. acked' <= file'.upto
      <3>1. CASE acked' = acked
        <4>1. file' = file \/ \E t \in Task : file' \in Ready(t)
          BY <1>6, FileChanges
        <4>2. QED
          BY <3>1, <4>1 DEF SavesInOrder
      <3>2. CASE acked' # acked
        BY <1>6, <3>2, Acknowledges, LargerOfTwo DEF SavesInOrder
      <3>3. QED
        BY <3>1, <3>2
    <2>2. synced' <= file'.upto
      <3>1. synced' \in Nat /\ acked' \in Nat /\ synced' <= acked'
            /\ file'.upto \in Nat
        BY <1>2, ImageParts DEF TypeOK
      <3>2. QED
        BY <2>1, <3>1
    <2>3. ASSUME NEW d \in Dirs' PROVE synced' <= d.state.upto
      <3>1. d \in Dirs \/ d = Dir(key', file')
        BY <1>6, FileChanges DEF Dirs
      <3>2. CASE d = Dir(key', file')
        BY <2>2, <3>2 DEF Dir
      <3>3. CASE d \in Dirs /\ synced' = synced
        BY <3>3 DEF SavesInOrder
      <3>4. CASE synced' # synced
        BY <1>6, <3>2, <3>4, Acknowledges DEF Dirs
      <3>5. QED
        BY <3>1, <3>2, <3>3, <3>4
    <2>4. QED
      BY <1>3, <1>4, <2>1, <2>3 DEF SavesInOrder
  <1>7. QED
    BY <1>5, <1>6

LEMMA InitOrder == Init => SavesInOrder
  BY EmptyFiles DEF Init, SavesInOrder, Dirs, Dir, Ready

(* Whatever snapshots other tasks hold, and whenever the process stops.     *)
THEOREM AcknowledgedIsKept == Spec => []AckedIsInFile
  <1>1. SavesInOrder => AckedIsInFile
    BY DEF SavesInOrder, AckedIsInFile
  <1>2. QED
    BY <1>1, InitType, StepType, InitOrder, OrderStep, PTL DEF Spec

(* And when the power fails, for what was synced with the directory.        *)
THEOREM SyncedIsKept == Spec => []SyncedSurvives
  <1>1. SavesInOrder => SyncedSurvives
    BY DEF SavesInOrder, SyncedSurvives, Dirs
  <1>2. QED
    BY <1>1, InitType, StepType, InitOrder, OrderStep, PTL DEF Spec

-----------------------------------------------------------------------------
(* One moment of the memory.                                                *)

Moment(image) ==
    /\ image.upto <= changes
    /\ \A c \in Chat :
         /\ image.data[c] <= image.upto
         /\ crashes = 0 /\ mem[c] # 0 /\ mem[c] <= image.upto => image.data[c] = mem[c]

(* Every image is of one moment, and so is the memory; the first process    *)
(* finds nothing.                                                           *)
OneMoment ==
    /\ \A d \in Dirs : Moment(d.state)
    /\ \A t \in Task : \A image \in Ready(t) : Moment(image)
    /\ \A c \in Chat : mem[c] <= changes
    /\ crashes = 0 /\ boot # "up" => \A c \in Chat : file.data[c] = 0

LEMMA ChangeMoves ==
    ASSUME TypeOK, NEW t \in Task, NEW value \in {0, changes + 1}, Change(t, value)
    PROVE  /\ changes' = changes + 1
           /\ \A c \in Chat : mem'[c] \in {mem[c], 0, changes + 1}
  BY TaskIsPair DEF Change, TypeOK, Records

LEMMA MemoryMoves ==
    ASSUME TypeOK, OneMoment, Next
    PROVE  /\ changes' \in Nat /\ changes <= changes' /\ crashes' \in Nat
           /\ crashes' = 0 => crashes = 0
           /\ \A c \in Chat : mem'[c] <= changes'
           /\ crashes' = 0 => \A c \in Chat : mem'[c] \in {mem[c], 0, changes + 1}
  <1>1. changes \in Nat /\ crashes \in Nat /\ \A c \in Chat : mem[c] \in Nat /\ mem[c] <= changes
    BY DEF TypeOK, Records, OneMoment
  <1>2. CASE boot = "up" /\ UNCHANGED process /\ \E t \in Task : Serve(t)
    <2>1. PICK t \in Task : Serve(t)
      BY <1>2
    <2>2. CASE Put(t) \/ Update(t) \/ Remove(t)
      <3>1. PICK value \in {0, changes + 1} : Change(t, value)
        BY <2>2 DEF Put, Update, Remove
      <3>2. crashes' = crashes
        BY <3>1 DEF Change
      <3>3. QED
        BY <1>1, <3>1, <3>2, ChangeMoves
    <2>3. CASE ~(Put(t) \/ Update(t) \/ Remove(t))
      <3>1. UNCHANGED <<mem, changes, crashes>>
        BY <2>1, <2>3 DEF Serve, RemoveAbsent, Lock, Snapshot, Create, Write, Rename,
                          SyncDirectory, SyncFails, Fail, history
      <3>2. QED
        BY <1>1, <3>1
    <2>4. QED
      BY <2>2, <2>3
  <1>3. CASE MakeKey \/ WriteKey \/ FlushKey \/ ReadKey
    BY <1>1, <1>3 DEF MakeKey, WriteKey, FlushKey, ReadKey, Makes, history
  <1>4. CASE ReadState
    <2>1. UNCHANGED <<changes, crashes>> /\ boot = "state" /\ mem' \in {mem, file.data}
      BY <1>4 DEF ReadState, history
    <2>2. \A c \in Chat : file.data[c] <= changes
      <3>1. Moment(file)
        BY FileIsThere DEF OneMoment
      <3>2. file.upto \in Nat /\ \A c \in Chat : file.data[c] \in Nat
        BY ImageParts DEF TypeOK, Records
      <3>3. file.upto <= changes /\ \A c \in Chat : file.data[c] <= file.upto
        BY <3>1 DEF Moment
      <3>4. ASSUME NEW c \in Chat PROVE file.data[c] <= changes
        <4>1. /\ file.data[c] \in Nat /\ file.data[c] <= file.upto
              /\ file.upto \in Nat /\ file.upto <= changes /\ changes \in Nat
          BY <1>1, <3>2, <3>3
        <4>2. QED
          BY <4>1
      <3>5. QED
        BY <3>4
    <2>3. crashes = 0 => \A c \in Chat : file.data[c] = 0
      BY <2>1 DEF OneMoment
    <2>4. QED
      BY <1>1, <2>1, <2>2, <2>3
  <1>5. CASE Crash \/ PowerFailure
    BY <1>1, <1>5 DEF Crash, PowerFailure, Stops, NoRecords
  <1>6. QED
    BY <1>2, <1>3, <1>4, <1>5 DEF Next

(* No step changes what the moment of an image was.                         *)
LEMMA MomentStays ==
    ASSUME TypeOK, OneMoment, Next, NEW image \in Image \cup {Torn}, Moment(image)
    PROVE  Moment(image)'
  <1>1. image.upto \in Nat /\ (\A c \in Chat : image.data[c] \in Nat) /\ changes \in Nat
    BY ImageParts DEF TypeOK, Records
  <1>2. image.upto <= changes'
    BY <1>1, MemoryMoves DEF Moment
  <1>3. ASSUME NEW c \in Chat, crashes' = 0, mem'[c] # 0, mem'[c] <= image.upto
        PROVE  image.data[c] = mem'[c]
    <2>1. mem'[c] \in {mem[c], 0, changes + 1} /\ crashes = 0
      BY <1>3, MemoryMoves
    <2>2. mem'[c] # changes + 1
      BY <1>1, <1>3 DEF Moment
    <2>3. QED
      BY <1>3, <2>1, <2>2 DEF Moment
  <1>4. QED
    BY <1>2, <1>3 DEF Moment

LEMMA MomentStep ==
    ASSUME TypeOK, OneMoment, [Next]_vars
    PROVE  OneMoment'
  <1>1. CASE UNCHANGED vars
    BY <1>1 DEF vars, task, disk, process, history, OneMoment, Moment, Dirs, Dir, Ready
  <1> SUFFICES ASSUME Next PROVE OneMoment'
    BY <1>1
  <1>2. /\ \A t \in Task : Ready(t) \subseteq Image \cup {Torn}
        /\ \A d \in Dirs : d.state \in Image \cup {Torn}
    BY DEF TypeOK, Ready, Dirs, Dir
  <1>3. ASSUME NEW t \in Task, NEW image \in Ready(t)' PROVE Moment(image)'
    <2>1. CASE image \in Ready(t)
      BY <1>2, <2>1, MomentStays DEF OneMoment
    <2>2. CASE Snapshot(t) /\ image = ImageOf(mem, changes, master)
      BY <2>2 DEF Snapshot, ImageOf, Moment, OneMoment, TypeOK, history
    <2>3. QED
      BY <1>3, <2>1, <2>2, HandOver
  <1>4. ASSUME NEW image, image = file' PROVE Moment(image)'
    <2>1. CASE PowerFailure
      <3>1. PICK d \in remains : file' = d.state
        BY <2>1 DEF PowerFailure
      <3>2. d \in Dirs
        BY DEF Dirs
      <3>3. image \in Image \cup {Torn} /\ Moment(image)
        BY <1>2, <1>4, <3>1, <3>2 DEF OneMoment
      <3>4. QED
        BY <3>3, MomentStays
    <2>2. CASE ~PowerFailure
      <3>1. image = file \/ \E t \in Task : image \in Ready(t)
        BY <1>4, <2>2, FileChanges
      <3>2. CASE image = file
        BY <3>2, FileIsThere, MomentStays DEF OneMoment, TypeOK
      <3>3. CASE \E t \in Task : image \in Ready(t)
        BY <1>2, <3>3, MomentStays DEF OneMoment
      <3>4. QED
        BY <3>1, <3>2, <3>3
    <2>3. QED
      BY <2>1, <2>2
  <1>5. ASSUME NEW d \in Dirs' PROVE Moment(d.state)'
    <2>1. d \in Dirs \/ d.state = file'
      <3>1. CASE PowerFailure
        BY <1>5, <3>1 DEF PowerFailure, Dirs, Dir
      <3>2. CASE ~PowerFailure
        BY <1>5, <3>2, FileChanges DEF Dirs, Dir
      <3>3. QED
        BY <3>1, <3>2
    <2>2. CASE d \in Dirs
      BY <1>2, <2>2, MomentStays DEF OneMoment
    <2>3. CASE d.state = file'
      BY <1>4, <2>3
    <2>4. QED
      BY <2>1, <2>2, <2>3
  <1>6. ASSUME crashes' = 0, boot' # "up", NEW c \in Chat PROVE file'.data[c] = 0
    <2>1. file' = file /\ crashes = 0 /\ boot # "up"
      BY <1>6 DEF Next, MakeKey, WriteKey, FlushKey, ReadKey, ReadState, Makes, disk,
         history, process, Crash, PowerFailure, Stops, TypeOK
    <2>2. QED
      BY <2>1 DEF OneMoment
  <1>7. QED
    BY <1>3, <1>5, <1>6, MemoryMoves DEF OneMoment

(* For any number of chats and changes: a file never mixes two moments.     *)
THEOREM NoMixedFile == Spec => []FileIsOneMoment
  <1>1. Init => OneMoment
    BY EmptyFiles DEF Init, OneMoment, Moment, Dirs, Dir, Ready, NoFile, NoRecords
  <1>2. OneMoment => FileIsOneMoment
    BY FileIsThere DEF OneMoment, Moment, FileIsOneMoment, Dirs
  <1>3. QED
    BY <1>1, <1>2, InitType, StepType, MomentStep, PTL DEF Spec

=============================================================================
