--------------------------- MODULE MailSyncProofs ---------------------------
(***************************************************************************)
(* Proofs about MailSync, for every value of its constants.                *)
(***************************************************************************)
EXTENDS MailSync, SequenceTheorems, FiniteSetTheorems, TLAPS

USE DEF NoState, Cursor, Record, NoRecord

-----------------------------------------------------------------------------
(* Type correctness.                                                       *)

(* What a write to the store may do: the file is left alone or becomes the  *)
(* new record.                                                              *)
LEMMA WriteType ==
    ASSUME TypeOK, NEW r \in Record, r.cursor <= Len(log), StoreWrite(r)
    PROVE  /\ mem' = r
           /\ disk' \in Record /\ disk'.cursor <= Len(log)
           /\ disk' = disk \/ disk' = r
  BY DEF TypeOK, StoreWrite, Persist

LEMMA UpdateType ==
    ASSUME TypeOK, NEW c \in 0..Len(log), UpdateState(c)
    PROVE  /\ mem' \in Record /\ mem'.cursor <= Len(log)
           /\ disk' \in Record /\ disk'.cursor <= Len(log)
           /\ mem' = mem \/ mem'.cursor = c
           /\ disk' = disk \/ disk' = mem'
  <1>1. CASE mem.opted
    <2> DEFINE r == [mem EXCEPT !.cursor = c]
    <2>1. Len(log) \in Nat /\ mem \in Record
      BY DEF TypeOK
    <2>2. r \in Record /\ r.cursor = c /\ c <= Len(log)
      BY <2>1
    <2>3. StoreWrite(r)
      BY <1>1 DEF UpdateState
    <2>4. QED
      BY <2>2, <2>3, WriteType
  <1>2. CASE ~mem.opted
    BY <1>2 DEF UpdateState, TypeOK, store
  <1>3. QED
    BY <1>1, <1>2

LEMMA ClearType ==
    ASSUME TypeOK, ClearTopic
    PROVE  /\ mem' \in Record /\ mem'.cursor <= Len(log)
           /\ disk' \in Record /\ disk'.cursor <= Len(log)
           /\ mem'.cursor = mem.cursor
           /\ disk' = disk \/ disk' = mem'
  <1>1. CASE mem.opted
    <2> DEFINE r == [mem EXCEPT !.topic = @ /\ ~OwnTopic]
    <2>1. r \in Record /\ r.cursor = mem.cursor /\ r.cursor <= Len(log)
      BY DEF TypeOK
    <2>2. StoreWrite(r)
      BY <1>1 DEF ClearTopic
    <2>3. QED
      BY <2>1, <2>2, WriteType
  <1>2. CASE ~mem.opted
    BY <1>2 DEF ClearTopic, TypeOK, store
  <1>3. QED
    BY <1>1, <1>2

LEMMA OrderType ==
    ASSUME TypeOK, Ordered, mem' \in Record
    PROVE  order' \in [mute: BOOLEAN, at: 0..Len(log)]
  <1>1. /\ order \in [mute: BOOLEAN, at: 0..Len(log)]
        /\ mem'.muted \in BOOLEAN /\ Len(log) \in 0..Len(log)
    BY DEF TypeOK
  <1>2. QED
    BY <1>1 DEF Ordered

LEMMA InitType == Init => TypeOK
  <1> SUFFICES ASSUME Init PROVE TypeOK
    OBVIOUS
  <1>1. log \in Seq(Change) /\ Len(log) \in Nat /\ DOMAIN log = 1..Len(log)
    <2>1. CASE log = <<>>
      BY <2>1
    <2>2. ASSUME NEW e \in Change, log = <<e>>
          PROVE  log \in Seq(Change) /\ Len(log) \in Nat /\ DOMAIN log = 1..Len(log)
      <3>1. log \in Seq(Change)
        BY <2>2
      <3>2. Len(log) = 1
        BY <2>2
      <3>3. QED
        BY <3>1, <3>2
    <2>3. QED
      BY <2>1, <2>2 DEF Init
  <1>2. told \in Seq(Nat) /\ Len(told) = Len(log)
    <2>1. told = [i \in 1..Len(log) |-> 0]
      BY <1>1 DEF Init
    <2>2. told \in [1..Len(log) -> Nat]
      BY <2>1
    <2>3. told \in Seq(Nat)
      <3> DEFINE n == Len(log)
      <3>1. n \in Nat /\ told \in [1..n -> Nat]
        BY <1>1, <2>2
      <3> HIDE DEF n
      <3>2. told \in UNION {[1..k -> Nat] : k \in Nat}
        BY <3>1
      <3>3. QED
        BY <3>2, SeqDef, Zenon
    <2>4. QED
      BY <1>1, <2>1, <2>3, LenProperties
  <1>3. mem \in Record /\ mem.cursor <= Len(log)
    <2> DEFINE n == Len(log)
               R == [opted: {TRUE}, cursor: {NoState, n},
                     topic: BOOLEAN, muted: BOOLEAN]
    <2>1. n \in Nat /\ (mem = NoRecord \/ mem \in R)
      BY <1>1 DEF Init
    <2> HIDE DEF n
    <2>2. CASE mem = NoRecord
      BY <2>1, <2>2 DEF n
    <2>3. CASE mem \in R
      <3>1. mem \in Record /\ mem.cursor \in {NoState, n}
        BY <2>1, <2>3
      <3>2. mem.cursor <= n
        BY <2>1, <3>1
      <3>3. QED
        BY <3>1, <3>2 DEF n
    <2>4. QED
      BY <2>1, <2>2, <2>3
  <1>4. snap \in Record /\ snap.cursor <= Len(log)
    BY <1>1 DEF Init
  <1>5. restarts \in 0..MaxRestarts /\ logins \in 0..MaxLogins
        /\ commands \in 0..MaxCommands
    BY BoundAssumption DEF Init
  <1>6. order \in [mute: BOOLEAN, at: 0..Len(log)]
    BY <1>1, <1>3 DEF Init
  <1>7. QED
    BY <1>1, <1>2, <1>3, <1>4, <1>5, <1>6 DEF Init, TypeOK, Pc

(* Every step keeps the types. *)
LEMMA StepType == TypeOK /\ [Next]_vars => TypeOK'
  <1> SUFFICES ASSUME TypeOK, [Next]_vars PROVE TypeOK'
    OBVIOUS
  <1> USE DEF Pc, vars, server, store, sync, handler, history, counters
  <1>1. CASE ResumeCheck
    BY <1>1, SMTT(20) DEF TypeOK, ResumeCheck, DropSync, Passed
  <1>2. CASE ResumeConnects
    BY <1>2, SMTT(20) DEF TypeOK, ResumeConnects, DropSync, Passed
  <1>3. CASE ResumeFails
    BY <1>3, SMTT(20) DEF TypeOK, ResumeFails, DropSync, Passed
  <1>4. CASE OpenStream
    BY <1>4, SMTT(20) DEF TypeOK, OpenStream, DropSync, Passed
  <1>5. CASE Check
    BY <1>5, SMTT(20) DEF TypeOK, Check, DropSync, Passed
  <1>6. CASE CalendarAlert
    BY <1>6, SMTT(20) DEF TypeOK, CalendarAlert, DropSync, Passed
  <1>7. CASE StreamEnds
    BY <1>7, SMTT(20) DEF TypeOK, StreamEnds, DropSync, Passed
  <1>8. CASE StartSync
    BY <1>8, SMTT(20) DEF TypeOK, StartSync, DropSync, Passed
  <1>9. CASE Baseline
    <2>1. Len(log) \in 0..Len(log) /\ UpdateState(Len(log))
      BY <1>9 DEF Baseline, TypeOK
    <2>2. /\ mem' \in Record /\ mem'.cursor <= Len(log)
          /\ disk' \in Record /\ disk'.cursor <= Len(log)
      BY <2>1, UpdateType
    <2>3. base' \in past..Len(log)
      BY <1>9 DEF Baseline, Larger, TypeOK
    <2>4. QED
      BY <1>9, <2>2, <2>3 DEF Baseline, DropSync, TypeOK
  <1>10. CASE Fetch
    <2>1. newState' \in 0..Len(log)
      <3>1. snap.cursor \in Nat
        BY <1>10 DEF Fetch, Answers, TypeOK
      <3>2. QED
        BY <1>10, <3>1, BatchAssumption DEF Fetch, Smaller, TypeOK
    <2>2. batch' \subseteq DOMAIN log
      BY <1>10 DEF Fetch, Answers, Fetched
    <2>3. QED
      BY <1>10, <2>1, <2>2 DEF Fetch, Answers, TypeOK
  <1>11. CASE CallFails
    BY <1>11, SMTT(20) DEF TypeOK, CallFails, DropSync, Passed
  <1>12. ASSUME NEW i \in batch, PassOver(i) PROVE TypeOK'
    BY <1>12, SMTT(20) DEF TypeOK, PassOver, DropSync, Passed
  <1>13. ASSUME NEW i \in batch, Accept(i) PROVE TypeOK'
    BY <1>13, SMTT(20) DEF TypeOK, Accept, DropSync, Passed
  <1>14. ASSUME NEW i \in batch, Refuse(i) PROVE TypeOK'
    BY <1>14, SMTT(20) DEF TypeOK, Refuse, DropSync, Passed
  <1>15. ASSUME NEW i \in batch, ThreadNotFound(i) PROVE TypeOK'
    <2>1. /\ mem' \in Record /\ mem'.cursor <= Len(log)
          /\ disk' \in Record /\ disk'.cursor <= Len(log)
      BY <1>15, ClearType DEF ThreadNotFound
    <2>2. QED
      BY <1>15, <2>1 DEF ThreadNotFound, TypeOK
  <1>16. CASE FinishSync
    <2>1. /\ mem' \in Record /\ mem'.cursor <= Len(log)
          /\ disk' \in Record /\ disk'.cursor <= Len(log)
      <3>1. CASE UNCHANGED store
        BY <3>1 DEF TypeOK
      <3>2. CASE UpdateState(newState)
        BY <3>2, UpdateType DEF TypeOK
      <3>3. QED
        BY <1>16, <3>1, <3>2 DEF FinishSync
    <2>2. QED
      BY <1>16, <2>1 DEF FinishSync, DropSync, TypeOK
  <1>17. ASSUME NEW e \in Change, Arrive(e) PROVE TypeOK'
    <2>1. /\ log' \in Seq(Change) /\ Len(log') = Len(log) + 1
          /\ told' \in Seq(Nat) /\ Len(told') = Len(log')
      BY <1>17, AppendProperties DEF Arrive, TypeOK
    <2>2. DOMAIN log \subseteq DOMAIN log' /\ Len(log) \in Nat
      BY <2>1, LenProperties DEF TypeOK
    <2>3. /\ UNCHANGED <<gone, mem, disk, pc, snap, batch, hpc, refused, hushed>>
          /\ UNCHANGED <<horizon, newState, initial, past, base, order>>
          /\ UNCHANGED counters
      BY <1>17 DEF Arrive
    <2>4. /\ gone \subseteq DOMAIN log' /\ batch \subseteq DOMAIN log'
          /\ refused \subseteq DOMAIN log' /\ hushed \subseteq DOMAIN log'
      BY <2>2 DEF TypeOK
    <2>5. /\ horizon' \in 0..Len(log') /\ newState' \in 0..Len(log')
          /\ initial' \in 0..Len(log')
          /\ past' \in 0..Len(log') /\ base' \in past'..Len(log')
          /\ order' \in [mute: BOOLEAN, at: 0..Len(log')]
      BY <2>1, <2>2, <2>3 DEF TypeOK
    <2>6. /\ mem' \in Record /\ mem'.cursor <= Len(log')
          /\ disk' \in Record /\ disk'.cursor <= Len(log')
          /\ snap' \in Record /\ snap'.cursor <= Len(log')
      <3>1. /\ mem.cursor \in Int /\ mem.cursor <= Len(log)
            /\ disk.cursor \in Int /\ disk.cursor <= Len(log)
            /\ snap.cursor \in Int /\ snap.cursor <= Len(log)
        BY DEF TypeOK
      <3>2. mem \in Record /\ disk \in Record /\ snap \in Record
        BY DEF TypeOK
      <3>3. QED
        BY <2>1, <2>2, <2>3, <3>1, <3>2
    <2>7. QED
      BY <2>1, <2>3, <2>4, <2>5, <2>6 DEF TypeOK
  <1>18. ASSUME NEW i \in DOMAIN log, Destroy(i) PROVE TypeOK'
    BY <1>18, SMTT(20) DEF TypeOK, Destroy, DropSync, Passed
  <1>19. CASE Expire
    BY <1>19, SMTT(20) DEF TypeOK, Expire, DropSync, Passed
  <1>20. CASE LoginConnects
    BY <1>20, BoundAssumption DEF TypeOK, LoginConnects, DropSync
  <1>21. CASE LoginStores
    <2> DEFINE r == [opted |-> TRUE, cursor |-> initial, topic |-> FALSE,
                     muted |-> mem.muted]
    <2>1. r \in Record /\ r.cursor <= Len(log)
      BY DEF TypeOK
    <2>2. mem' = r /\ disk' \in {disk, r}
      BY <1>21 DEF LoginStores
    <2>3. base' \in past..Len(log)
      BY <1>21 DEF LoginStores, Larger, TypeOK
    <2> HIDE DEF r
    <2>4. QED
      BY <1>21, <2>1, <2>2, <2>3 DEF LoginStores, TypeOK
  <1>22. CASE LoginAdopts
    BY <1>22, SMTT(20) DEF TypeOK, LoginAdopts, DropSync, Passed
  <1>23. CASE DisconnectForgets
    BY <1>23, BoundAssumption DEF TypeOK, DisconnectForgets, DropSync
  <1>24. CASE DisconnectRemoves
    <2> DEFINE r == [NoRecord EXCEPT !.muted = mem.muted]
    <2>1. mem \in Record /\ Len(log) \in Nat /\ mem.cursor <= Len(log)
      BY DEF TypeOK
    <2>2. /\ r \in Record /\ r.cursor = NoState
          /\ NoRecord \in Record /\ NoRecord.cursor = NoState
      BY <2>1
    <2>3. StoreWrite(r) \/ StoreWrite(NoRecord)
      BY <1>24 DEF DisconnectRemoves
    <2> HIDE DEF r
    <2>4. /\ mem' \in Record /\ mem'.cursor <= Len(log)
          /\ disk' \in Record /\ disk'.cursor <= Len(log)
      <3>1. r.cursor <= Len(log) /\ NoRecord.cursor <= Len(log)
        BY <2>1, <2>2
      <3>2. CASE StoreWrite(r)
        BY <2>2, <3>1, <3>2, WriteType
      <3> HIDE DEF NoRecord
      <3>3. CASE StoreWrite(NoRecord)
        BY <2>2, <3>1, <3>3, WriteType
      <3>4. QED
        BY <2>3, <3>2, <3>3
    <2>5. /\ hpc' = "idle"
          /\ UNCHANGED <<server, pc, sync, initial, told, refused, hushed, past, base,
                         counters>>
      BY <1>24 DEF DisconnectRemoves
    <2>6. order' \in [mute: BOOLEAN, at: 0..Len(log)]
      BY <1>24, <2>4, OrderType DEF DisconnectRemoves
    <2>7. QED
      BY <2>4, <2>5, <2>6, SMTT(30) DEF TypeOK
  <1>25. CASE Mute
    <2> DEFINE r == [mem EXCEPT !.muted = ~@]
    <2>1. mem \in Record /\ Len(log) \in Nat /\ mem.cursor <= Len(log)
      BY DEF TypeOK
    <2>2. r \in Record /\ r.cursor <= Len(log)
      BY <2>1
    <2>3. StoreWrite(r)
      BY <1>25 DEF Mute
    <2>4. /\ mem' \in Record /\ mem'.cursor <= Len(log)
          /\ disk' \in Record /\ disk'.cursor <= Len(log)
      BY <2>2, <2>3, WriteType
    <2> HIDE DEF r
    <2>5. order' \in [mute: BOOLEAN, at: 0..Len(log)]
      BY <1>25, <2>4, OrderType DEF Mute
    <2>6. QED
      BY <1>25, <2>4, <2>5, BoundAssumption, SMTT(30) DEF Mute, TypeOK
  <1>26. CASE EnsureTopic
    <2> DEFINE r == [mem EXCEPT !.topic = TRUE]
    <2>1. mem \in Record /\ Len(log) \in Nat /\ mem.cursor <= Len(log)
      BY DEF TypeOK
    <2>2. r \in Record /\ r.cursor <= Len(log)
      BY <2>1
    <2>3. StoreWrite(r)
      BY <1>26 DEF EnsureTopic
    <2>4. /\ mem' \in Record /\ mem'.cursor <= Len(log)
          /\ disk' \in Record /\ disk'.cursor <= Len(log)
      BY <2>2, <2>3, WriteType
    <2> HIDE DEF r
    <2>5. QED
      BY <1>26, <2>4, BoundAssumption, SMTT(30) DEF EnsureTopic, TypeOK
  <1>27. CASE Restart
    <2>1. order' \in [mute: BOOLEAN, at: 0..Len(log)]
      BY <1>27, OrderType DEF Restart, TypeOK
    <2>2. QED
      BY <1>27, <2>1, BoundAssumption DEF TypeOK, Restart, DropSync
  <1>28. CASE UNCHANGED vars
    BY <1>28 DEF TypeOK
  <1>29. QED
    BY <1>1, <1>2, <1>3, <1>4, <1>5, <1>6, <1>7, <1>8, <1>9, <1>10, <1>11, <1>12, <1>13, <1>14, <1>15, <1>16, <1>17, <1>18, <1>19, <1>20, <1>21, <1>22, <1>23, <1>24, <1>25, <1>26, <1>27, <1>28 DEF Next, Watcher, MailServer, Handler

(* The state always has the type TypeOK says, whatever the server's log     *)
(* holds and however commands, crashes and the watcher's steps interleave:  *)
(* in particular no cursor and no state of a sync is ever past the log.     *)
THEOREM TypeCorrect == Spec => []TypeOK
  BY InitType, StepType, PTL DEF Spec

-----------------------------------------------------------------------------
(* No message is passed in silence.                                        *)

Inv == TypeOK /\ CursorNeverOvertakes /\ SyncInFlight

(* The mails the filter lets through are exactly the incoming ones.         *)
LEMMA SkipReasonCorrect ==
    ASSUME NEW e \in ChangeRecord
    PROVE  e.created => (SkipReason(e) = "none" <=> Incoming(e))
  BY DEF ChangeRecord, Role, SkipReason, IsDraft, Incoming

(* What is settled stays settled, the log only grows, and a login only      *)
(* passes over more.                                                        *)
LEMMA SettledStays ==
    ASSUME TypeOK, [Next]_vars
    PROVE  /\ base <= base'
           /\ DOMAIN log \subseteq DOMAIN log'
           /\ DOMAIN log' \subseteq DOMAIN log \cup {Len(log) + 1}
           /\ \A i \in DOMAIN log : log'[i] = log[i] /\ (Settled(i) => Settled(i)')
  <1> USE DEF vars, server, store, sync, handler, history, counters
  <1>1. base \in Nat /\ Len(log) \in Nat /\ initial \in Nat
    BY DEF TypeOK
  <1>2. base <= base'
    <2>1. CASE Baseline
      BY <1>1, <2>1 DEF Baseline, Larger
    <2>2. CASE LoginStores
      BY <1>1, <2>2 DEF LoginStores, Larger
    <2>3. CASE UNCHANGED base
      BY <1>1, <2>3
    <2>4. QED
      BY <2>1, <2>2, <2>3 DEF Next, Watcher, MailServer, Handler, Restart,
         ResumeCheck, ResumeConnects, ResumeFails, OpenStream, Check,
         CalendarAlert, StreamEnds, StartSync, Fetch, Answers, CallFails,
         PassOver, Accept, Refuse, ThreadNotFound, FinishSync, Arrive, Destroy,
         Expire, LoginConnects, LoginAdopts, DisconnectForgets,
         DisconnectRemoves, Mute, EnsureTopic
  <1>3. UNCHANGED log \/ \E e \in Change : Arrive(e)
    BY DEF Next, Watcher, MailServer, Handler, Restart,
         ResumeCheck, ResumeConnects, ResumeFails, OpenStream, Check, Baseline,
         CalendarAlert, StreamEnds, StartSync, Fetch, Answers, CallFails,
         PassOver, Accept, Refuse, ThreadNotFound, FinishSync, Destroy,
         Expire, LoginConnects, LoginStores, LoginAdopts, DisconnectForgets,
         DisconnectRemoves, Mute, EnsureTopic
  <1>4. ASSUME NEW e \in Change, Arrive(e)
        PROVE  /\ DOMAIN log \subseteq DOMAIN log'
               /\ DOMAIN log' \subseteq DOMAIN log \cup {Len(log) + 1}
               /\ \A i \in DOMAIN log : log'[i] = log[i] /\ told'[i] = told[i]
    BY <1>4, AppendProperties, LenProperties DEF Arrive, TypeOK
  <1>5. \A i \in DOMAIN log : told[i] > 0 => told'[i] > 0
    <2>1. \A i \in DOMAIN log : told[i] \in Nat /\ i \in DOMAIN told
      BY LenProperties, ElementOfSeq DEF TypeOK
    <2>2. ASSUME NEW j \in batch, Accept(j)
          PROVE  \A i \in DOMAIN log : told[i] > 0 => told'[i] > 0
      BY <2>1, <2>2 DEF Accept
    <2>3. CASE UNCHANGED told
      BY <2>3
    <2>4. QED
      BY <1>4, <2>2, <2>3 DEF Next, Watcher, MailServer, Handler, Restart,
         ResumeCheck, ResumeConnects, ResumeFails, OpenStream, Check, Baseline,
         CalendarAlert, StreamEnds, StartSync, Fetch, Answers, CallFails,
         PassOver, Refuse, ThreadNotFound, FinishSync, Destroy,
         Expire, LoginConnects, LoginStores, LoginAdopts, DisconnectForgets,
         DisconnectRemoves, Mute, EnsureTopic
  <1>6. gone \subseteq gone' /\ refused \subseteq refused' /\ hushed \subseteq hushed'
    BY DEF Next, Watcher, MailServer, Handler, Restart,
         ResumeCheck, ResumeConnects, ResumeFails, OpenStream, Check, Baseline,
         CalendarAlert, StreamEnds, StartSync, Fetch, Answers, CallFails,
         PassOver, Accept, Refuse, ThreadNotFound, FinishSync, Arrive, Destroy,
         Expire, LoginConnects, LoginStores, LoginAdopts, DisconnectForgets,
         DisconnectRemoves, Mute, EnsureTopic
  <1>7. /\ DOMAIN log \subseteq DOMAIN log'
        /\ DOMAIN log' \subseteq DOMAIN log \cup {Len(log) + 1}
        /\ \A i \in DOMAIN log : log'[i] = log[i]
    BY <1>3, <1>4
  <1>8. QED
    BY <1>2, <1>5, <1>6, <1>7 DEF Settled

(* What TypeOK says of the integers among the variables.                    *)
LEMMA Numbers ==
    TypeOK => /\ Len(log) \in Nat /\ DOMAIN log = 1..Len(log) /\ base \in Nat
              /\ mem.cursor \in Int /\ mem.cursor <= Len(log)
              /\ disk.cursor \in Int /\ disk.cursor <= Len(log)
              /\ snap.cursor \in Int /\ snap.cursor <= Len(log)
  <1> SUFFICES ASSUME TypeOK
               PROVE  /\ Len(log) \in Nat /\ DOMAIN log = 1..Len(log) /\ base \in Nat
                      /\ mem.cursor \in Int /\ mem.cursor <= Len(log)
                      /\ disk.cursor \in Int /\ disk.cursor <= Len(log)
                      /\ snap.cursor \in Int /\ snap.cursor <= Len(log)
    OBVIOUS
  <1>1. Len(log) \in Nat /\ DOMAIN log = 1..Len(log)
    BY LenProperties DEF TypeOK
  <1>2. mem \in Record /\ disk \in Record /\ snap \in Record
    BY DEF TypeOK
  <1>3. mem.cursor \in Int /\ disk.cursor \in Int /\ snap.cursor \in Int
    BY <1>2
  <1>4. QED
    BY <1>1, <1>3 DEF TypeOK

(* A covered position stays covered.                                        *)
LEMMA CoveredStays ==
    ASSUME TypeOK, [Next]_vars
    PROVE  \A c \in Int : c <= Len(log) /\ Covered(c) =>
             \A i \in DOMAIN log' : base' < i /\ i <= c => Settled(i)'
  <1> SUFFICES ASSUME NEW c \in Int, c <= Len(log), Covered(c),
                      NEW i \in DOMAIN log', base' < i, i <= c
               PROVE  Settled(i)'
    OBVIOUS
  <1>1. Len(log) \in Nat /\ base \in Nat
    BY DEF TypeOK
  <1>2. DOMAIN log = 1..Len(log)
    BY LenProperties DEF TypeOK
  <1>3. i \in DOMAIN log
    BY <1>1, <1>2, SettledStays
  <1>4. base < i
    <2>1. TypeOK'
      BY StepType
    <2>2. base' \in Nat
      BY <2>1 DEF TypeOK
    <2>3. i \in Nat
      BY <1>1, <1>2, <1>3
    <2>4. QED
      BY <1>1, <2>2, <2>3, SettledStays
  <1>5. QED
    BY <1>3, <1>4, SettledStays DEF Covered

(* The cursors are written in three places only; elsewhere each keeps its    *)
(* value, takes the other's, or is given up.                                *)
LEMMA CursorMoves ==
    ASSUME TypeOK, [Next]_vars
    PROVE  \/ Baseline \/ FinishSync \/ LoginStores
           \/ /\ mem'.cursor \in {mem.cursor, disk.cursor, NoState}
              /\ disk'.cursor \in {mem.cursor, disk.cursor, NoState}
  <1> DEFINE Kept == /\ mem'.cursor \in {mem.cursor, disk.cursor, NoState}
                     /\ disk'.cursor \in {mem.cursor, disk.cursor, NoState}
  <1> USE DEF vars, server, store, handler, history, counters
  <1>1. CASE UNCHANGED store
    BY <1>1
  <1>2. ASSUME NEW i \in batch, ThreadNotFound(i) PROVE Kept
    BY <1>2, ClearType DEF ThreadNotFound
  <1>3. CASE DisconnectRemoves
    BY <1>3 DEF DisconnectRemoves, StoreWrite, Persist, TypeOK
  <1>4. CASE Mute
    BY <1>4 DEF Mute, StoreWrite, Persist, TypeOK
  <1>5. CASE EnsureTopic
    BY <1>5 DEF EnsureTopic, StoreWrite, Persist, TypeOK
  <1>6. CASE Restart
    BY <1>6 DEF Restart
  <1>7. QED
    BY <1>1, <1>2, <1>3, <1>4, <1>5, <1>6 DEF Next, Watcher, MailServer, Handler,
       ResumeCheck, ResumeConnects, ResumeFails, OpenStream, Check,
       CalendarAlert, StreamEnds, StartSync, Fetch, Answers, CallFails,
       PassOver, Accept, Refuse, Arrive, Destroy, Expire, LoginConnects,
       LoginAdopts, DisconnectForgets

(* Apart from the steps of a sync, the ones that end it leave none behind.   *)
LEMMA FlightMoves ==
    ASSUME TypeOK, [Next]_vars
    PROVE  \/ StartSync \/ Fetch
           \/ \E i \in batch :
                 PassOver(i) \/ Accept(i) \/ Refuse(i) \/ ThreadNotFound(i)
           \/ UNCHANGED <<pc, sync>>
           \/ pc' \notin {"fetch", "deliver", "fallback"}
  BY DEF vars, Next, Watcher, MailServer, Handler, Restart,
     ResumeCheck, ResumeConnects, ResumeFails, OpenStream, Check, Baseline,
     CalendarAlert, StreamEnds, CallFails, FinishSync, Arrive, Destroy, Expire,
     LoginConnects, LoginStores, LoginAdopts, DisconnectForgets,
     DisconnectRemoves, Mute, EnsureTopic

LEMMA InvInit == Init => Inv
  <1> SUFFICES ASSUME Init PROVE Inv
    OBVIOUS
  <1>1. TypeOK
    BY InitType
  <1>2. \A i \in DOMAIN log : ~(base < i)
    BY <1>1, LenProperties DEF Init, TypeOK
  <1>3. CursorNeverOvertakes
    BY <1>2 DEF CursorNeverOvertakes, Covered
  <1>4. SyncInFlight
    BY DEF Init, SyncInFlight
  <1>5. QED
    BY <1>1, <1>3, <1>4 DEF Inv

LEMMA CursorStep ==
    ASSUME Inv, [Next]_vars
    PROVE  CursorNeverOvertakes'
  <1> USE DEF Inv
  <1> DEFINE Keeps(c) == \A i \in DOMAIN log' : base' < i /\ i <= c => Settled(i)'
  <1>1. TypeOK /\ TypeOK'
    BY StepType
  <1>2. \A c \in Int : c <= Len(log) /\ Covered(c) => Keeps(c)
    BY CoveredStays
  <1>3. /\ mem.cursor \in Int /\ mem.cursor <= Len(log)
        /\ disk.cursor \in Int /\ disk.cursor <= Len(log)
    BY <1>1, Numbers
  <1>4. Keeps(mem.cursor) /\ Keeps(disk.cursor)
    BY <1>2, <1>3 DEF CursorNeverOvertakes
  <1>5. /\ base' \in Nat /\ \A i \in DOMAIN log' : i \in Nat
        /\ Keeps(NoState)
    <2>1. log' \in Seq(Change) /\ base' \in past'..Len(log') /\ past' \in Nat
      BY <1>1 DEF TypeOK
    <2>2. base' \in Nat
      BY <2>1
    <2>3. \A i \in DOMAIN log' : i \in Nat
      BY <2>1, LenProperties
    <2>4. QED
      BY <2>2, <2>3
  <1>6. SUFFICES Keeps(mem'.cursor) /\ Keeps(disk'.cursor)
    BY DEF CursorNeverOvertakes, Covered
  <1> HIDE DEF Keeps
  <1>7. CASE Baseline
    <2>1. UpdateState(Len(log)) /\ Len(log) \in 0..Len(log)
      BY <1>1, <1>7 DEF Baseline, TypeOK
    <2>2. \/ mem' = mem /\ disk' = disk
          \/ /\ mem.opted
             /\ mem'.cursor = Len(log) /\ disk' \in {disk, mem'}
      <3>1. CASE mem.opted
        BY <1>1, <2>1, <3>1 DEF UpdateState, StoreWrite, Persist, TypeOK
      <3>2. CASE ~mem.opted
        BY <2>1, <3>2 DEF UpdateState, store
      <3>3. QED
        BY <3>1, <3>2
    <2>3. ASSUME mem.opted PROVE Keeps(Len(log))
      <3>1. base' = Larger(base, Len(log))
        BY <1>7, <2>3 DEF Baseline
      <3>2. base \in Nat /\ Len(log) \in Nat
        BY <1>1 DEF TypeOK
      <3>3. base' >= Len(log) /\ base' \in Nat /\ Len(log) \in Nat
        BY <3>1, <3>2 DEF Larger
      <3>4. QED
        BY <1>5, <3>3 DEF Keeps
    <2>4. QED
      BY <1>4, <2>2, <2>3
  <1>8. CASE FinishSync
    <2>1. Keeps(newState)
      <3>1. Covered(newState)
        BY <1>8 DEF FinishSync, SyncInFlight, Covered
      <3>2. newState \in Int /\ newState <= Len(log)
        BY <1>1 DEF TypeOK
      <3>3. QED
        BY <1>2, <3>1, <3>2
    <2>2. /\ mem' = mem \/ mem'.cursor = newState
          /\ disk' = disk \/ disk' = mem'
      <3>1. CASE UNCHANGED store
        BY <3>1 DEF store
      <3>2. CASE UpdateState(newState)
        <4>1. newState \in 0..Len(log)
          BY <1>1 DEF TypeOK
        <4>2. QED
          BY <1>1, <3>2, <4>1, UpdateType
      <3>3. QED
        BY <1>8, <3>1, <3>2 DEF FinishSync
    <2>3. QED
      BY <1>4, <2>1, <2>2
  <1>9. CASE LoginStores
    <2>1. mem'.cursor = initial /\ disk' \in {disk, mem'}
      BY <1>9 DEF LoginStores
    <2>2. Keeps(initial)
      <3>1. base' >= initial /\ base' \in Nat /\ initial \in Nat
        BY <1>1, <1>9 DEF LoginStores, Larger, TypeOK
      <3>2. QED
        BY <1>5, <3>1 DEF Keeps
    <2>3. QED
      BY <1>4, <2>1, <2>2
  <1>10. CASE /\ mem'.cursor \in {mem.cursor, disk.cursor, NoState}
              /\ disk'.cursor \in {mem.cursor, disk.cursor, NoState}
    BY <1>4, <1>5, <1>10
  <1>11. QED
    BY <1>1, <1>7, <1>8, <1>9, <1>10, CursorMoves

LEMMA FlightStep ==
    ASSUME Inv, [Next]_vars
    PROVE  SyncInFlight'
  <1> USE DEF Inv
  <1> DEFINE InHands(i) == base' < i /\ i <= newState' => i \in batch' \/ Settled(i)'
  <1>1. TypeOK /\ TypeOK'
    BY StepType
  <1>2. DOMAIN log = 1..Len(log) /\ Len(log) \in Nat
    BY <1>1, LenProperties DEF TypeOK
  <1>3. \A i \in DOMAIN log : Settled(i) => Settled(i)'
    BY <1>1, SettledStays
  <1>4. ASSUME NEW i \in DOMAIN log, base' < i PROVE base < i
    <2>1. i \in Nat /\ base \in Nat
      BY <1>1, <1>2, Numbers
    <2>2. base' \in past'..Len(log') /\ past' \in 0..Len(log')
      BY <1>1 DEF TypeOK
    <2>3. QED
      BY <1>1, <1>4, <2>1, <2>2, SettledStays
  <1>5. CASE StartSync
    <2>1. pc' \in {"baseline", "fetch"} /\ snap' = mem
      BY <1>5 DEF StartSync
    <2>2. mem.cursor \in Int /\ mem.cursor <= Len(log) /\ Covered(mem.cursor)
      BY <1>1, Numbers DEF CursorNeverOvertakes
    <2>3. \A i \in DOMAIN log' : base' < i /\ i <= mem.cursor => Settled(i)'
      BY <1>1, <2>2, CoveredStays
    <2>4. QED
      BY <2>1, <2>3 DEF SyncInFlight, Covered
  <1>6. CASE Fetch
    <2>1. /\ log' = log /\ base' = base /\ pc' = "deliver"
          /\ snap.cursor \in Nat
          /\ newState' = Smaller(Len(log), snap.cursor + MaxChanges)
          /\ batch' = Fetched(snap.cursor, newState')
          /\ Covered(snap.cursor)
      BY <1>1, <1>6 DEF Fetch, Answers, server, history, SyncInFlight, TypeOK
    <2>2. ASSUME NEW i \in DOMAIN log, base < i, i <= newState', i \notin batch'
          PROVE  Settled(i)
      <3>1. i <= snap.cursor \/ i \in gone \/ ~log[i].created
        BY <1>2, <2>1, <2>2 DEF Fetched
      <3>2. QED
        BY <2>1, <2>2, <3>1 DEF Covered, Settled, Incoming
    <2>3. QED
      BY <1>3, <2>1, <2>2 DEF SyncInFlight
  <1>7. ASSUME NEW j \in batch, PassOver(j) \/ Accept(j) \/ Refuse(j)
        PROVE  SyncInFlight'
    <2>1. /\ log' = log /\ base' = base /\ gone' = gone
          /\ newState' = newState /\ batch' = batch \ {j} /\ pc' = "deliver"
      BY <1>7 DEF PassOver, Accept, Refuse, Passed, server, history
    <2>2. j \in DOMAIN log /\ log[j] \in ChangeRecord
      <3>1. log \in Seq(Change) /\ j \in 1..Len(log)
        BY <1>1, <1>2 DEF TypeOK
      <3>2. QED
        BY <1>2, <3>1, ElementOfSeq, ChangeAssumption
    <2>3. Settled(j)'
      <3>1. CASE PassOver(j)
        <4>1. SkipReason(log[j]) # "none" => ~Incoming(log[j])
          BY <2>2, SkipReasonCorrect DEF Incoming
        <4>2. QED
          BY <2>1, <3>1, <4>1 DEF PassOver, Settled
      <3>2. CASE Accept(j)
        <4>1. told[j] \in Nat /\ j \in DOMAIN told
          <5>1. told \in Seq(Nat) /\ Len(told) = Len(log) /\ j \in 1..Len(log)
            BY <1>1, <1>2, <2>2 DEF TypeOK
          <5>2. QED
            BY <5>1, ElementOfSeq, LenProperties
        <4>2. told'[j] = told[j] + 1
          BY <3>2, <4>1 DEF Accept
        <4>3. QED
          BY <4>1, <4>2 DEF Settled
      <3>3. CASE Refuse(j)
        BY <3>3 DEF Refuse, Settled
      <3>4. QED
        BY <1>7, <3>1, <3>2, <3>3
    <2>4. pc \in {"deliver", "fallback"}
      BY <1>7 DEF PassOver, Accept, Refuse
    <2>5. \A i \in DOMAIN log : base < i /\ i <= newState => i \in batch \/ Settled(i)
      BY <2>4 DEF SyncInFlight
    <2>6. QED
      BY <1>3, <2>1, <2>3, <2>5 DEF SyncInFlight
  <1>8. ASSUME NEW j \in batch, ThreadNotFound(j) PROVE SyncInFlight'
    <2>1. /\ log' = log /\ base' = base /\ pc = "deliver" /\ pc' = "fallback"
          /\ newState' = newState /\ batch' = batch
      BY <1>8 DEF ThreadNotFound, server, history, sync
    <2>2. QED
      BY <1>3, <2>1 DEF SyncInFlight
  <1>9. CASE UNCHANGED <<pc, sync>>
    <2>1. pc' = pc /\ snap' = snap /\ newState' = newState /\ batch' = batch
      BY <1>9 DEF sync
    <2>2. ASSUME pc = "fetch" PROVE Covered(snap.cursor)'
      <3>1. snap.cursor \in Int /\ snap.cursor <= Len(log) /\ Covered(snap.cursor)
        BY <1>1, <2>2, Numbers DEF SyncInFlight
      <3>2. \A i \in DOMAIN log' : base' < i /\ i <= snap.cursor => Settled(i)'
        BY <1>1, <3>1, CoveredStays
      <3>3. QED
        BY <2>1, <3>2 DEF Covered
    <2>3. ASSUME pc \in {"deliver", "fallback"}, NEW i \in DOMAIN log'
          PROVE  InHands(i)
      <3>1. newState \in 0..Len(log)
        BY <1>1 DEF TypeOK
      <3>2. i \in DOMAIN log \/ i = Len(log) + 1
        BY <1>1, SettledStays
      <3>3. CASE i \in DOMAIN log
        BY <1>3, <1>4, <2>1, <2>3, <3>3 DEF SyncInFlight
      <3>4. CASE i = Len(log) + 1
        BY <1>2, <2>1, <3>1, <3>4
      <3>5. QED
        BY <3>2, <3>3, <3>4
    <2>4. QED
      BY <2>1, <2>2, <2>3 DEF SyncInFlight
  <1>10. CASE pc' \notin {"fetch", "deliver", "fallback"}
    BY <1>10 DEF SyncInFlight
  <1>11. QED
    BY <1>1, <1>5, <1>6, <1>7, <1>8, <1>9, <1>10, FlightMoves

LEMMA InvStep == Inv /\ [Next]_vars => Inv'
  BY StepType, CursorStep, FlightStep DEF Inv

(* However the watcher, the commands, Telegram's refusals, failing writes   *)
(* and crashes interleave, neither the cursor in memory nor the one on disk *)
(* is ever past an incoming message that was not dealt with.                *)
THEOREM NothingLost == Spec => []CursorNeverOvertakes
  <1>1. Inv => CursorNeverOvertakes
    BY DEF Inv
  <1>2. QED
    BY InvInit, InvStep, <1>1, PTL DEF Spec

(* A sync never lets go of a message before it is settled.                  *)
THEOREM SyncKeepsHold == Spec => []SyncInFlight
  <1>1. Inv => SyncInFlight
    BY DEF Inv
  <1>2. QED
    BY InvInit, InvStep, <1>1, PTL DEF Spec

-----------------------------------------------------------------------------
(* Who may be told of what.                                                 *)

(* Mail is told of while it is in a sync's hands.                           *)
LEMMA TellingMoves ==
    ASSUME TypeOK, [Next]_vars
    PROVE  \/ \E i \in batch : Accept(i)
           \/ \E e \in Change : Arrive(e)
           \/ UNCHANGED told
  BY DEF vars, server, store, sync, handler, history, counters,
     Next, Watcher, MailServer, Handler, Restart,
     ResumeCheck, ResumeConnects, ResumeFails, OpenStream, Check, Baseline,
     CalendarAlert, StreamEnds, StartSync, Fetch, Answers, CallFails,
     PassOver, Refuse, ThreadNotFound, FinishSync, Destroy,
     Expire, LoginConnects, LoginStores, LoginAdopts, DisconnectForgets,
     DisconnectRemoves, Mute, EnsureTopic

(* One notification is one more of the message told, and a new entry of the *)
(* log has none.                                                            *)
LEMMA ToldChanges ==
    ASSUME TypeOK, [Next]_vars
    PROVE  /\ \A i \in DOMAIN log : told[i] \in Nat
           /\ \A i \in DOMAIN log' \ DOMAIN log : told'[i] = 0
           /\ \A i \in DOMAIN log :
                \/ told'[i] = told[i]
                \/ i \in batch /\ Accept(i) /\ told'[i] = told[i] + 1
  <1>1. /\ DOMAIN log = 1..Len(log) /\ DOMAIN told = 1..Len(log) /\ Len(log) \in Nat
        /\ \A i \in DOMAIN log : told[i] \in Nat
    BY LenProperties, ElementOfSeq DEF TypeOK
  <1>2. ASSUME NEW j \in batch, Accept(j)
        PROVE  /\ log' = log
               /\ \A i \in DOMAIN log :
                    told'[i] = told[i] \/ (i = j /\ told'[i] = told[i] + 1)
    BY <1>1, <1>2 DEF Accept, server
  <1>3. ASSUME NEW e \in Change, Arrive(e)
        PROVE  /\ \A i \in DOMAIN log : told'[i] = told[i]
               /\ \A i \in DOMAIN log' \ DOMAIN log : told'[i] = 0
    <2>1. told' = Append(told, 0) /\ told \in Seq(Nat) /\ Len(told) = Len(log)
      BY <1>3 DEF Arrive, TypeOK
    <2>2. /\ \A i \in 1..Len(log) : told'[i] = told[i]
          /\ told'[Len(log) + 1] = 0
      BY <1>1, <2>1, AppendProperties
    <2>3. DOMAIN log' \subseteq DOMAIN log \cup {Len(log) + 1}
      BY SettledStays
    <2>4. QED
      BY <1>1, <2>2, <2>3
  <1>4. CASE UNCHANGED told
    <2>1. log' = log
      <3>1. ASSUME NEW e \in Change, Arrive(e) PROVE FALSE
        <4>1. told' = Append(told, 0) /\ told \in Seq(Nat)
          BY <3>1 DEF Arrive, TypeOK
        <4>2. Len(told') = Len(told) + 1 /\ Len(told) \in Nat
          BY <4>1, AppendProperties
        <4>3. QED
          BY <1>4, <4>2
      <3>2. QED
        BY <3>1 DEF vars, server, store, sync, handler, history, counters,
           Next, Watcher, MailServer, Handler, Restart,
           ResumeCheck, ResumeConnects, ResumeFails, OpenStream, Check, Baseline,
           CalendarAlert, StreamEnds, StartSync, Fetch, Answers, CallFails,
           PassOver, Accept, Refuse, ThreadNotFound, FinishSync, Destroy,
           Expire, LoginConnects, LoginStores, LoginAdopts, DisconnectForgets,
           DisconnectRemoves, Mute, EnsureTopic
    <2>2. QED
      BY <1>1, <1>4, <2>1
  <1>5. QED
    BY <1>1, <1>2, <1>3, <1>4, TellingMoves

LEMMA BatchMoves ==
    ASSUME TypeOK, [Next]_vars
    PROVE  /\ Fetch \/ batch' \subseteq batch
           /\ \/ \E i \in batch : PassOver(i)
              \/ hushed' = hushed
  BY DEF vars, server, store, sync, handler, history, counters, DropSync, Passed,
     Next, Watcher, MailServer, Handler, Restart,
     ResumeCheck, ResumeConnects, ResumeFails, OpenStream, Check, Baseline,
     CalendarAlert, StreamEnds, StartSync, Fetch, Answers, CallFails,
     PassOver, Accept, Refuse, ThreadNotFound, FinishSync, Arrive, Destroy,
     Expire, LoginConnects, LoginStores, LoginAdopts, DisconnectForgets,
     DisconnectRemoves, Mute, EnsureTopic

LEMMA FlightNumbers ==
    ASSUME TypeOK
    PROVE  /\ snap.cursor \in Int /\ snap.cursor <= Len(log) /\ Len(log) \in Nat
           /\ newState \in Nat /\ MaxChanges \in Nat /\ mem.cursor \in Int
           /\ DOMAIN log = 1..Len(log) /\ batch \subseteq DOMAIN log
  <1>1. Len(log) \in Nat /\ DOMAIN log = 1..Len(log) /\ batch \subseteq DOMAIN log
    BY LenProperties DEF TypeOK
  <1>2. newState \in 0..Len(log) /\ snap \in Record /\ mem \in Record
        /\ snap.cursor <= Len(log)
    BY DEF TypeOK
  <1>3. snap.cursor \in Int /\ mem.cursor \in Int
    BY <1>2
  <1>4. MaxChanges \in Nat
    BY BatchAssumption
  <1>5. newState \in Nat
    BY <1>1, <1>2
  <1>6. QED
    BY <1>1, <1>2, <1>3, <1>4, <1>5

-----------------------------------------------------------------------------
(* The filters the user ordered.                                            *)

AtWork == pc \in {"deliver", "fallback"}

(* The filters in memory are those the user ordered: no write of the        *)
(* watcher or of a login takes them back. A sync under way may have others; *)
(* one that has none in its hands yet has done nothing against the order,   *)
(* and one that has works within one batch. Every deed against the order    *)
(* is within the batch of one such sync: once it is over, later ones read   *)
(* the order.                                                               *)
Obeyed ==
    /\ order.mute = mem.muted
    /\ AtWork => /\ newState <= snap.cursor + MaxChanges
                 /\ \A i \in batch : snap.cursor < i /\ i <= newState
    /\ pc = "fetch" /\ snap.muted # mem.muted => Defiant = {}
    /\ AtWork /\ snap.muted # mem.muted =>
         \A i \in Defiant : snap.cursor < i /\ i <= newState
    /\ \E c \in Int : \A i \in Defiant : c < i /\ i <= c + MaxChanges

(* The order changes only with the filters in memory, and to what these are.*)
LEMMA OrderMoves ==
    ASSUME TypeOK, order.mute = mem.muted, [Next]_vars
    PROVE  /\ order'.mute = mem'.muted
           /\ \/ order' = order /\ mem'.muted = mem.muted
              \/ order'.at = Len(log) /\ log' = log
  <1> USE DEF vars, server, store, handler, history, counters
  <1> DEFINE Kept == order' = order /\ mem'.muted = mem.muted
             Goal == /\ order'.mute = mem'.muted
                     /\ Kept \/ (order'.at = Len(log) /\ log' = log)
  <1>1. mem \in Record
    BY DEF TypeOK
  <1>2. CASE Ordered /\ log' = log
    BY <1>2 DEF Ordered
  <1>3. CASE order' = order /\ mem' = mem
    BY <1>3
  <1>4. ASSUME NEW c \in Cursor, UpdateState(c) PROVE mem'.muted = mem.muted
    BY <1>1, <1>4 DEF UpdateState, StoreWrite
  <1>5. CASE Baseline
    <2>1. Len(log) \in Cursor
      BY DEF TypeOK
    <2>2. QED
      BY <1>4, <1>5, <2>1 DEF Baseline
  <1>6. CASE FinishSync
    <2>1. newState \in Cursor
      BY FlightNumbers
    <2>2. QED
      BY <1>4, <1>6, <2>1 DEF FinishSync
  <1>7. ASSUME NEW i \in batch, ThreadNotFound(i) PROVE Goal
    <2>1. mem'.muted = mem.muted
      BY <1>1, <1>7 DEF ThreadNotFound, ClearTopic, StoreWrite
    <2>2. QED
      BY <1>7, <2>1 DEF ThreadNotFound
  <1>8. CASE LoginStores
    BY <1>8 DEF LoginStores
  <1>9. CASE EnsureTopic
    BY <1>1, <1>9 DEF EnsureTopic, StoreWrite
  <1>10. CASE Mute \/ DisconnectRemoves \/ Restart
    BY <1>2, <1>10 DEF Mute, DisconnectRemoves, Restart
  <1>11. QED
    BY <1>3, <1>5, <1>6, <1>7, <1>8, <1>9, <1>10 DEF Next, Watcher, MailServer, Handler,
       ResumeCheck, ResumeConnects, ResumeFails, OpenStream, Check,
       CalendarAlert, StreamEnds, StartSync, Fetch, Answers, CallFails,
       PassOver, Accept, Refuse, Arrive, Destroy, Expire, LoginConnects,
       LoginAdopts, DisconnectForgets

(* A new order has not been defied yet; an old one is defied only by a sync  *)
(* that has other filters, over a message in its hands.                     *)
LEMMA DefiantMoves ==
    ASSUME TypeOK, Obeyed, [Next]_vars
    PROVE  /\ order' # order => Defiant' = {}
           /\ order' = order =>
                \A i \in Defiant' \ Defiant :
                    AtWork /\ i \in batch /\ snap.muted # mem.muted
  <1>1. /\ DOMAIN log = 1..Len(log) /\ Len(log) \in Nat
        /\ batch \subseteq DOMAIN log /\ hushed \subseteq DOMAIN log
    BY Numbers DEF TypeOK
  <1>2. snap.muted \in BOOLEAN /\ mem.muted \in BOOLEAN /\ order.mute = mem.muted
    BY DEF TypeOK, Obeyed
  <1>3. ASSUME order' # order PROVE Defiant' = {}
    <2>1. order'.at = Len(log) /\ log' = log
      BY <1>2, <1>3, OrderMoves
    <2>2. QED
      BY <1>1, <2>1 DEF Defiant
  <1>4. ASSUME order' = order, NEW i \in Defiant', i \notin Defiant
        PROVE  AtWork /\ i \in batch /\ snap.muted # mem.muted
    <2>1. /\ i \in DOMAIN log' /\ order.at < i /\ log'[i].listed
          /\ IF order.mute THEN told'[i] > 0 ELSE i \in hushed'
      BY <1>4 DEF Defiant
    <2>2. i \in DOMAIN log
      <3>1. i \in hushed' => i \in DOMAIN log
        BY <1>1, BatchMoves DEF PassOver
      <3>2. QED
        BY <2>1, <3>1, ToldChanges
    <2>3. log'[i] = log[i]
      BY <2>2, SettledStays
    <2>4. IF order.mute THEN ~(told[i] > 0) ELSE i \notin hushed
      BY <1>4, <2>1, <2>2, <2>3 DEF Defiant
    <2>5. CASE order.mute
      <3>1. i \in batch /\ Accept(i)
        BY <2>1, <2>2, <2>4, <2>5, ToldChanges
      <3>2. AtWork /\ ~snap.muted
        BY <2>1, <2>3, <3>1 DEF Accept, Sending, IsMuted, AtWork
      <3>3. QED
        BY <1>2, <2>5, <3>1, <3>2
    <2>6. CASE ~order.mute
      <3>1. i \in batch /\ PassOver(i) /\ IsMuted(log[i], snap)
        BY <2>1, <2>4, <2>6, BatchMoves DEF PassOver
      <3>2. AtWork /\ snap.muted
        BY <3>1 DEF PassOver, IsMuted, AtWork
      <3>3. QED
        BY <1>2, <2>6, <3>1, <3>2
    <2>7. QED
      BY <2>5, <2>6
  <1>5. QED
    BY <1>3, <1>4

LEMMA ObeyedStep == TypeOK /\ Obeyed /\ [Next]_vars => Obeyed'
  <1> SUFFICES ASSUME TypeOK, Obeyed, [Next]_vars PROVE Obeyed'
    OBVIOUS
  <1>1. /\ snap.cursor \in Int /\ newState \in Nat /\ MaxChanges \in Nat
        /\ Len(log) \in Nat /\ DOMAIN log = 1..Len(log)
        /\ batch \subseteq DOMAIN log /\ Defiant \subseteq DOMAIN log
    BY FlightNumbers DEF Defiant
  <1>2. order'.mute = mem'.muted
    BY OrderMoves DEF Obeyed
  <1>3. order' = order => mem'.muted = mem.muted
    BY <1>2 DEF Obeyed
  <1>4. CASE StartSync
    <2>1. pc' \notin {"deliver", "fallback"} /\ snap' = mem /\ mem' = mem
      BY <1>4 DEF StartSync, store
    <2>2. order' = order /\ ~AtWork
      BY <1>4 DEF StartSync, history, AtWork
    <2>3. Defiant' \subseteq Defiant
      BY <2>2, DefiantMoves
    <2>4. QED
      BY <1>2, <2>1, <2>3 DEF Obeyed, AtWork
  <1>5. CASE Fetch
    <2>1. /\ pc = "fetch" /\ pc' = "deliver" /\ snap' = snap /\ mem' = mem
          /\ order' = order /\ ~AtWork
          /\ newState' = Smaller(Len(log), snap.cursor + MaxChanges)
          /\ \A i \in batch' : snap.cursor < i /\ i <= newState'
      BY <1>5 DEF Fetch, Answers, Fetched, store, history, AtWork
    <2>2. newState' <= snap.cursor + MaxChanges
      BY <1>1, <2>1 DEF Smaller
    <2>3. Defiant' \subseteq Defiant
      BY <2>1, DefiantMoves
    <2>4. QED
      BY <1>2, <2>1, <2>2, <2>3 DEF Obeyed, AtWork
  <1>6. CASE \E i \in batch : PassOver(i) \/ Accept(i) \/ Refuse(i) \/ ThreadNotFound(i)
    <2>1. /\ AtWork /\ pc' \in {"deliver", "fallback"}
          /\ snap' = snap /\ newState' = newState /\ batch' \subseteq batch
          /\ order' = order
      BY <1>6 DEF PassOver, Accept, Refuse, ThreadNotFound, Passed, sync, history, AtWork
    <2>2. CASE snap.muted = mem.muted
      <3>1. Defiant' \subseteq Defiant
        BY <2>1, <2>2, DefiantMoves
      <3>2. QED
        BY <1>2, <1>3, <2>1, <2>2, <3>1 DEF Obeyed, AtWork
    <2>3. CASE snap.muted # mem.muted
      <3>1. \A i \in Defiant' : snap.cursor < i /\ i <= newState
        BY <2>1, <2>3, DefiantMoves DEF Obeyed
      <3>2. newState <= snap.cursor + MaxChanges
        BY <2>1 DEF Obeyed
      <3>3. \A i \in Defiant' : i \in Nat
        <4>1. Defiant' \subseteq Defiant \cup batch
          BY <2>1, DefiantMoves
        <4>2. QED
          BY <1>1, <4>1
      <3>4. \A i \in Defiant' : snap.cursor < i /\ i <= snap.cursor + MaxChanges
        BY <1>1, <3>1, <3>2, <3>3
      <3>5. QED
        BY <1>1, <1>2, <2>1, <3>1, <3>4 DEF Obeyed, AtWork
    <2>4. QED
      BY <2>2, <2>3
  <1>7. CASE UNCHANGED <<pc, sync>>
    <2>1. pc' = pc /\ snap' = snap /\ newState' = newState /\ batch' = batch
      BY <1>7 DEF sync
    <2>2. order' = order => Defiant' \subseteq Defiant
      <3> SUFFICES ASSUME order' = order, NEW i \in Defiant', i \notin Defiant
                   PROVE  FALSE
        OBVIOUS
      <3>1. i \in batch /\ i \in DOMAIN log
        BY <1>1, DefiantMoves
      <3>2. ~(\E j \in batch : PassOver(j) \/ Accept(j))
        BY <2>1 DEF PassOver, Accept, Passed
      <3>3. hushed' = hushed /\ told'[i] = told[i] /\ log'[i] = log[i]
        BY <3>1, <3>2, BatchMoves, ToldChanges, SettledStays
      <3>4. QED
        BY <3>1, <3>3 DEF Defiant
    <2>3. CASE order' = order
      BY <1>2, <1>3, <2>1, <2>2, <2>3 DEF Obeyed, AtWork
    <2>4. CASE order' # order
      <3>1. Defiant' = {}
        BY <2>4, DefiantMoves
      <3>2. QED
        BY <1>1, <1>2, <2>1, <3>1 DEF Obeyed, AtWork
    <2>5. QED
      BY <2>3, <2>4
  <1>8. CASE pc' \notin {"fetch", "deliver", "fallback"}
    <2>1. \E c \in Int : \A i \in Defiant' : c < i /\ i <= c + MaxChanges
      <3>1. CASE order' # order
        BY <1>1, <3>1, DefiantMoves
      <3>2. CASE order' = order
        <4>1. ~(\E j \in batch : PassOver(j) \/ Accept(j))
          BY <1>8 DEF PassOver, Accept, Passed
        <4>2. \A i \in Defiant' : i \in Defiant
          <5> SUFFICES ASSUME NEW i \in Defiant', i \notin Defiant PROVE FALSE
            OBVIOUS
          <5>1. i \in batch /\ i \in DOMAIN log
            BY <1>1, <3>2, DefiantMoves
          <5>2. /\ hushed' = hushed /\ told'[i] = told[i]
                /\ log'[i] = log[i]
            BY <4>1, <5>1, BatchMoves, ToldChanges, SettledStays
          <5>3. QED
            BY <3>2, <5>1, <5>2 DEF Defiant
        <4>3. QED
          BY <4>2 DEF Obeyed
      <3>3. QED
        BY <3>1, <3>2
    <2>2. QED
      BY <1>2, <1>8, <2>1 DEF Obeyed, AtWork
  <1>9. QED
    BY <1>4, <1>5, <1>6, <1>7, <1>8, FlightMoves

(* However commands, crashes, logins and failed writes interleave with the  *)
(* syncs, and for any log and batch size: no more mail is treated against   *)
(* the filters in force when it came than one sync fetches at once.         *)
THEOREM FiltersObeyed == Spec => []FiltersTakeHold
  <1>1. Init => Obeyed
    <2> SUFFICES ASSUME Init, TypeOK PROVE Obeyed
      BY InitType
    <2>1. Defiant = {}
      BY Numbers DEF Init, Defiant
    <2>2. order.mute = mem.muted /\ pc = "resume"
      BY DEF Init
    <2>3. 0 \in Int
      OBVIOUS
    <2>4. QED
      BY <2>1, <2>2, <2>3 DEF Obeyed, AtWork
  <1>2. TypeOK /\ Obeyed => FiltersTakeHold
    <2> SUFFICES ASSUME Obeyed, TypeOK PROVE FiltersTakeHold
      OBVIOUS
    <2>1. PICK c \in Int : \A i \in Defiant : c < i /\ i <= c + MaxChanges
      BY DEF Obeyed
    <2>2. MaxChanges \in Nat \ {0}
      BY BatchAssumption
    <2>3. Defiant \subseteq (c + 1)..(c + MaxChanges)
      <3>1. \A i \in Defiant : i \in Int
        BY FlightNumbers DEF Defiant
      <3>2. QED
        BY <2>1, <2>2, <3>1
    <2>4. /\ IsFiniteSet((c + 1)..(c + MaxChanges))
          /\ Cardinality((c + 1)..(c + MaxChanges)) = MaxChanges
      <3>1. c + 1 \in Int /\ c + MaxChanges \in Int
        BY <2>2
      <3>2. QED
        BY <2>2, <3>1, FS_Interval
    <2>5. QED
      BY <2>3, <2>4, FS_Subset DEF FiltersTakeHold
  <1>3. QED
    BY <1>1, <1>2, ObeyedStep, InitType, StepType, PTL DEF Spec

-----------------------------------------------------------------------------
(* The mail that was there before.                                          *)

(* Every state that a sync may ask from, or that may be made a cursor, is   *)
(* one of after the start.                                                  *)
Recent(state) == state = NoState \/ past <= state

Quiet ==
    /\ HistoryStaysQuiet
    /\ Recent(mem.cursor) /\ Recent(disk.cursor)
    /\ pc = "fetch" => past <= snap.cursor
    /\ pc \in {"deliver", "fallback"} => past <= newState
    /\ hpc = "captured" => past <= initial
    /\ \A i \in batch : past < i

LEMMA QuietStep == TypeOK /\ Quiet /\ [Next]_vars => Quiet'
  <1> SUFFICES ASSUME TypeOK, Quiet, [Next]_vars PROVE Quiet'
    OBVIOUS
  <1>1. /\ past' = past /\ past \in Nat /\ Len(log) \in Nat /\ past <= Len(log)
        /\ DOMAIN log = 1..Len(log)
        /\ mem.cursor \in Int /\ disk.cursor \in Int /\ snap.cursor \in Int
        /\ newState \in Nat /\ initial \in Nat
    <2>1. past' = past
      BY DEF vars, server, store, sync, handler, history, counters,
         Next, Watcher, MailServer, Handler, Restart,
         ResumeCheck, ResumeConnects, ResumeFails, OpenStream, Check, Baseline,
         CalendarAlert, StreamEnds, StartSync, Fetch, Answers, CallFails,
         PassOver, Accept, Refuse, ThreadNotFound, FinishSync, Arrive, Destroy,
         Expire, LoginConnects, LoginStores, LoginAdopts, DisconnectForgets,
         DisconnectRemoves, Mute, EnsureTopic
    <2>2. QED
      BY <2>1, Numbers DEF TypeOK
  <1>2. HistoryStaysQuiet'
    <2> SUFFICES ASSUME NEW i \in 1..past PROVE told'[i] = 0
      BY <1>1 DEF HistoryStaysQuiet
    <2>1. i \in DOMAIN log /\ i \notin batch
      BY <1>1 DEF Quiet
    <2>2. QED
      BY <2>1, ToldChanges DEF Quiet, HistoryStaysQuiet
  <1>3. Recent(mem.cursor)' /\ Recent(disk.cursor)'
    <2>1. CASE Baseline
      <3>1. UpdateState(Len(log)) /\ Len(log) \in 0..Len(log)
        BY <1>1, <2>1 DEF Baseline
      <3>2. QED
        BY <1>1, <3>1, UpdateType DEF Quiet, Recent
    <2>2. CASE FinishSync
      <3>1. UNCHANGED store \/ UpdateState(newState)
        BY <2>2 DEF FinishSync
      <3>2. newState \in 0..Len(log) /\ past <= newState
        BY <2>2 DEF FinishSync, Quiet, TypeOK
      <3>3. CASE UNCHANGED store
        BY <1>1, <3>3 DEF store, Quiet, Recent
      <3>4. CASE UpdateState(newState)
        BY <1>1, <3>2, <3>4, UpdateType DEF Quiet, Recent
      <3>5. QED
        BY <3>1, <3>3, <3>4
    <2>3. CASE LoginStores
      BY <1>1, <2>3 DEF LoginStores, Quiet, Recent
    <2>4. CASE /\ mem'.cursor \in {mem.cursor, disk.cursor, NoState}
               /\ disk'.cursor \in {mem.cursor, disk.cursor, NoState}
      BY <1>1, <2>4 DEF Quiet, Recent
    <2>5. QED
      BY <2>1, <2>2, <2>3, <2>4, CursorMoves
  <1>4. /\ pc' = "fetch" => past <= snap'.cursor
        /\ pc' \in {"deliver", "fallback"} => past <= newState'
    <2>1. CASE StartSync
      BY <1>1, <2>1 DEF StartSync, Quiet, Recent
    <2>2. CASE Fetch
      BY <1>1, <2>2, BatchAssumption DEF Fetch, Answers, Smaller, Quiet
    <2>3. CASE \E i \in batch : PassOver(i) \/ Accept(i) \/ Refuse(i) \/ ThreadNotFound(i)
      BY <1>1, <2>3 DEF PassOver, Accept, Refuse, ThreadNotFound, Passed, sync, Quiet
    <2>4. CASE UNCHANGED <<pc, sync>>
      BY <1>1, <2>4 DEF sync, Quiet
    <2>5. QED
      BY <2>1, <2>2, <2>3, <2>4, FlightMoves
  <1>5. hpc' = "captured" => past <= initial'
    <2>1. CASE UNCHANGED handler
      BY <1>1, <2>1 DEF handler, Quiet
    <2>2. CASE LoginConnects
      BY <1>1, <2>2 DEF LoginConnects
    <2>3. QED
      BY <2>1, <2>2 DEF vars, server, store, sync, handler, history, counters,
         Next, Watcher, MailServer, Handler, Restart,
         ResumeCheck, ResumeConnects, ResumeFails, OpenStream, Check, Baseline,
         CalendarAlert, StreamEnds, StartSync, Fetch, Answers, CallFails,
         PassOver, Accept, Refuse, ThreadNotFound, FinishSync, Arrive, Destroy,
         Expire, LoginStores, LoginAdopts, DisconnectForgets,
         DisconnectRemoves, Mute, EnsureTopic
  <1>6. \A i \in batch' : past < i
    <2>1. CASE Fetch
      <3>1. past <= snap.cursor /\ \A i \in batch' : snap.cursor < i /\ i \in DOMAIN log
        BY <2>1 DEF Fetch, Answers, Fetched, Quiet
      <3>2. QED
        BY <1>1, <3>1
    <2>2. CASE batch' \subseteq batch
      BY <2>2 DEF Quiet
    <2>3. QED
      BY <2>1, <2>2, BatchMoves
  <1>7. QED
    BY <1>1, <1>2, <1>3, <1>4, <1>5, <1>6 DEF Quiet, HistoryStaysQuiet, Recent

(* No mail of before the start is announced, neither after a login, which   *)
(* reads the server's state long before it stores it, nor for a record that *)
(* comes without a cursor.                                                  *)
THEOREM HistoryIsQuiet == Spec => []HistoryStaysQuiet
  <1>1. Init => Quiet
    <2>1. Init /\ TypeOK => \A i \in 1..past : told[i] = 0
      BY LenProperties DEF Init, TypeOK
    <2>2. Init /\ TypeOK => Recent(mem.cursor)
      <3> SUFFICES ASSUME Init, TypeOK PROVE Recent(mem.cursor)
        OBVIOUS
      <3>1. mem.cursor \in {NoState, past} /\ past \in Nat
        <4>1. past \in Nat /\ past = Len(log)
          BY DEF Init, TypeOK
        <4>2. CASE mem = NoRecord
          <5>1. mem.cursor = NoState
            BY <4>2
          <5>2. QED
            BY <4>1, <5>1
        <4>3. CASE mem \in [opted: {TRUE}, cursor: {NoState, Len(log)},
                            topic: BOOLEAN, muted: BOOLEAN]
          <5>1. mem.cursor \in {NoState, Len(log)}
            BY <4>3
          <5>2. QED
            BY <4>1, <5>1
        <4>4. QED
          BY <4>1, <4>2, <4>3 DEF Init
      <3>2. QED
        BY <3>1 DEF Recent
    <2>3. QED
      BY <2>1, <2>2, InitType DEF Init, Quiet, HistoryStaysQuiet
  <1>2. Quiet => HistoryStaysQuiet
    BY DEF Quiet
  <1>3. QED
    BY <1>1, <1>2, QuietStep, InitType, StepType, PTL DEF Spec

-----------------------------------------------------------------------------
(* Nothing is announced twice.                                              *)

InFlight == {"fetch", "deliver", "fallback"}
InHand == {"deliver", "fallback"}

(* Without a crash and a login, the cursor in memory is where a sync under  *)
(* way asked from, or the target has no record any more, and then gets none *)
(* again. What was told of is up to the cursor, or up to the state that the *)
(* sync at work will write; a watcher that was stopped may have told of     *)
(* more, but it is the last.                                                *)
OnceInPlace ==
    /\ hpc \notin {"captured", "stored"}
    /\ ~mem.opted => mem.cursor = NoState
    /\ pc \in InFlight => snap.cursor # NoState /\ (mem.opted => mem.cursor = snap.cursor)
    /\ pc \in InHand => snap.cursor <= newState
    /\ batch # {} => pc \in InHand
    /\ \A i \in batch : told[i] = 0 /\ i <= newState

ToldUpTo(i) ==
    /\ pc = "fetch" => i <= snap.cursor
    /\ pc \in InHand => i <= newState
    /\ pc \notin InHand \cup {"stopped"} => mem.cursor = NoState \/ i <= mem.cursor

Once ==
    restarts = 0 /\ logins = 0 =>
        /\ OnceInPlace
        /\ \A i \in DOMAIN log : told[i] <= 1 /\ (told[i] > 0 => ToldUpTo(i))


LEMMA CountersGrow ==
    ASSUME TypeOK, [Next]_vars, restarts' = 0, logins' = 0
    PROVE  restarts = 0 /\ logins = 0 /\ ~Restart /\ ~LoginConnects
  <1>1. restarts \in Nat /\ logins \in Nat
    BY BoundAssumption DEF TypeOK
  <1>2. CASE UNCHANGED <<restarts, logins>>
    BY <1>1, <1>2 DEF Restart, LoginConnects
  <1>3. CASE Restart \/ LoginConnects
    BY <1>1, <1>3 DEF Restart, LoginConnects
  <1>4. QED
    BY <1>2, <1>3 DEF vars, server, store, sync, handler, history, counters,
       Next, Watcher, MailServer, Handler,
       ResumeCheck, ResumeConnects, ResumeFails, OpenStream, Check, Baseline,
       CalendarAlert, StreamEnds, StartSync, Fetch, Answers, CallFails,
       PassOver, Accept, Refuse, ThreadNotFound, FinishSync, Arrive, Destroy,
       Expire, LoginStores, LoginAdopts, DisconnectForgets,
       DisconnectRemoves, Mute, EnsureTopic

(* What a step makes of the record, while there is neither crash nor login. *)
LEMMA RecordMoves ==
    ASSUME TypeOK, OnceInPlace, [Next]_vars, ~Restart
    PROVE  \/ mem'.opted = mem.opted /\ mem'.cursor = mem.cursor
           \/ DisconnectRemoves /\ mem'.opted = FALSE /\ mem'.cursor = NoState
           \/ /\ Baseline \/ FinishSync
              /\ mem.opted /\ mem'.opted
              /\ mem'.cursor = IF Baseline THEN Len(log) ELSE newState
  <1> USE DEF vars, server, store, handler, history, counters
  <1> DEFINE Kept == mem'.opted = mem.opted /\ mem'.cursor = mem.cursor
  <1>1. mem \in Record
    BY DEF TypeOK
  <1>2. ASSUME NEW i \in batch, ThreadNotFound(i) PROVE Kept
    BY <1>1, <1>2 DEF ThreadNotFound, ClearTopic, StoreWrite
  <1>3. CASE Mute \/ EnsureTopic
    BY <1>1, <1>3 DEF Mute, EnsureTopic, StoreWrite
  <1>4. CASE DisconnectRemoves
    BY <1>1, <1>4 DEF DisconnectRemoves, StoreWrite
  <1>5. CASE Baseline
    BY <1>1, <1>5 DEF Baseline, UpdateState, StoreWrite
  <1>6. CASE FinishSync
    <2>1. ~Baseline
      BY <1>6 DEF FinishSync, Baseline
    <2>2. QED
      BY <1>1, <1>6, <2>1 DEF FinishSync, UpdateState, StoreWrite
  <1>7. CASE UNCHANGED mem
    BY <1>7
  <1>8. QED
    BY <1>2, <1>3, <1>4, <1>5, <1>6, <1>7 DEF OnceInPlace, Next, Watcher, MailServer, Handler,
       ResumeCheck, ResumeConnects, ResumeFails, OpenStream, Check,
       CalendarAlert, StreamEnds, StartSync, Fetch, Answers, CallFails,
       PassOver, Accept, Refuse, Arrive, Destroy, Expire, LoginConnects, LoginStores,
       LoginAdopts, DisconnectForgets

(* Where the watcher goes.                                                  *)
LEMMA PcMoves ==
    ASSUME TypeOK, OnceInPlace, [Next]_vars, ~Restart
    PROVE  \/ StartSync \/ Fetch \/ Baseline \/ FinishSync
           \/ \E i \in batch :
                 PassOver(i) \/ Accept(i) \/ Refuse(i) \/ ThreadNotFound(i)
           \/ UNCHANGED <<pc, snap, newState, batch>>
           \/ /\ pc' \notin InFlight /\ batch' = {}
              /\ pc' = "stopped" \/ (pc \notin InHand \cup {"stopped"})
  BY DEF OnceInPlace, InFlight, InHand, vars, sync, DropSync, Next, Watcher, MailServer,
     Handler, Pc, TypeOK,
     ResumeCheck, ResumeConnects, ResumeFails, OpenStream, Check,
     CalendarAlert, StreamEnds, CallFails, Arrive, Destroy, Expire,
     LoginConnects, LoginStores, LoginAdopts, DisconnectForgets,
     DisconnectRemoves, Mute, EnsureTopic

LEMMA PlaceStep ==
    ASSUME TypeOK, TypeOK', Once, [Next]_vars, restarts' = 0, logins' = 0
    PROVE  OnceInPlace'
  <1>1. /\ OnceInPlace /\ ~Restart /\ ~LoginConnects
        /\ \A i \in DOMAIN log : told[i] <= 1 /\ (told[i] > 0 => ToldUpTo(i))
    BY CountersGrow DEF Once
  <1>2. /\ snap.cursor \in Int /\ snap.cursor <= Len(log) /\ Len(log) \in Nat
        /\ newState \in Nat /\ MaxChanges \in Nat
        /\ DOMAIN log = 1..Len(log) /\ batch \subseteq DOMAIN log
    BY FlightNumbers
  <1>3. hpc' \notin {"captured", "stored"}
    BY <1>1 DEF OnceInPlace, vars, handler, Next, Watcher, MailServer, Handler,
       ResumeCheck, ResumeConnects, ResumeFails, OpenStream, Check, Baseline,
       CalendarAlert, StreamEnds, StartSync, Fetch, Answers, CallFails,
       PassOver, Accept, Refuse, ThreadNotFound, FinishSync, Arrive, Destroy,
       Expire, LoginStores, LoginAdopts, DisconnectForgets,
       DisconnectRemoves, Mute, EnsureTopic
  <1>4. ~mem'.opted => mem'.cursor = NoState
    BY <1>1, RecordMoves DEF OnceInPlace
  <1>5. ASSUME pc' \in InFlight
        PROVE  /\ snap'.cursor # NoState /\ (mem'.opted => mem'.cursor = snap'.cursor)
               /\ pc' \in InHand => snap'.cursor <= newState'
    <2>1. ~Baseline /\ ~FinishSync
      BY <1>5 DEF InFlight, Baseline, FinishSync
    <2>2. mem'.opted => mem.opted /\ mem'.cursor = mem.cursor
      BY <1>1, <2>1, RecordMoves
    <2>3. CASE StartSync
      BY <1>5, <2>3 DEF StartSync, store, InFlight, InHand
    <2>4. CASE Fetch
      <3>1. snap' = snap /\ newState' = Smaller(Len(log), snap.cursor + MaxChanges)
            /\ pc = "fetch"
        BY <2>4 DEF Fetch, Answers
      <3>2. QED
        BY <1>1, <1>2, <2>2, <3>1 DEF Smaller, OnceInPlace, InFlight
    <2>5. CASE \E i \in batch :
                  PassOver(i) \/ Accept(i) \/ Refuse(i) \/ ThreadNotFound(i)
      <3>1. snap' = snap /\ newState' = newState /\ pc \in InHand
        BY <2>5 DEF PassOver, Accept, Refuse, ThreadNotFound, Passed, sync, InHand
      <3>2. QED
        BY <1>1, <2>2, <3>1 DEF OnceInPlace, InFlight, InHand
    <2>6. CASE UNCHANGED <<pc, snap, newState, batch>>
      BY <1>1, <1>5, <2>2, <2>6 DEF OnceInPlace
    <2>7. QED
      BY <1>1, <1>5, <2>1, <2>3, <2>4, <2>5, <2>6, PcMoves
  <1>6. (batch' # {} => pc' \in InHand) /\ \A i \in batch' : told'[i] = 0 /\ i <= newState'
    <2>1. CASE Fetch
      <3>1. /\ snap.cursor <= newState' /\ pc = "fetch" /\ pc' = "deliver"
            /\ told' = told
            /\ \A i \in batch' : i \in DOMAIN log /\ snap.cursor < i /\ i <= newState'
        BY <1>2, <2>1 DEF Fetch, Answers, Fetched, Smaller, history
      <3>2. ASSUME NEW i \in batch' PROVE told[i] = 0
        <4>1. told[i] \in Nat /\ i \in DOMAIN log /\ snap.cursor < i /\ i \in Nat
          BY <1>2, <3>1, ToldChanges
        <4>2. ~(told[i] > 0)
          BY <1>1, <1>2, <3>1, <4>1 DEF ToldUpTo
        <4>3. QED
          BY <4>1, <4>2
      <3>3. QED
        BY <3>1, <3>2 DEF InHand
    <2>2. CASE \E i \in batch :
                  PassOver(i) \/ Accept(i) \/ Refuse(i) \/ ThreadNotFound(i)
      <3>1. PICK j \in batch : PassOver(j) \/ Accept(j) \/ Refuse(j) \/ ThreadNotFound(j)
        BY <2>2
      <3>2. /\ newState' = newState /\ pc' \in InHand
            /\ \/ ThreadNotFound(j) /\ batch' = batch /\ told' = told
               \/ batch' = batch \ {j}
        BY <3>1 DEF PassOver, Accept, Refuse, ThreadNotFound, Passed, sync, history, InHand
      <3>3. ASSUME NEW i \in batch' PROVE told'[i] = 0
        <4>1. i \in batch /\ (batch' = batch \ {j} => i # j)
          BY <3>2
        <4>2. told'[i] = told[i]
          <5>1. i \in DOMAIN log
            BY <1>2, <4>1
          <5>2. CASE Accept(j)
            <6>1. i # j
              BY <4>1, <5>2 DEF Accept, Passed
            <6>2. told' = [told EXCEPT ![j] = @ + 1]
              BY <5>2 DEF Accept
            <6>3. QED
              BY <6>1, <6>2
          <5>3. CASE PassOver(j) \/ Refuse(j) \/ ThreadNotFound(j)
            BY <5>3 DEF PassOver, Refuse, ThreadNotFound, history
          <5>4. QED
            BY <3>1, <5>2, <5>3
        <4>3. QED
          BY <1>1, <4>1, <4>2 DEF OnceInPlace
      <3>4. QED
        BY <1>1, <3>2, <3>3 DEF OnceInPlace
    <2>3. CASE UNCHANGED <<pc, snap, newState, batch>>
      <3>1. ASSUME NEW i \in batch PROVE told'[i] = told[i]
        <4>1. pc \in InHand /\ i \in DOMAIN log
          BY <1>1, <1>2, <3>1 DEF OnceInPlace
        <4>2. ~Accept(i)
          BY <2>3, <3>1 DEF Accept, Passed
        <4>3. QED
          BY <4>1, <4>2, ToldChanges
      <3>2. QED
        BY <1>1, <2>3, <3>1 DEF OnceInPlace
    <2>4. CASE batch' = {}
      BY <2>4
    <2>5. StartSync => batch' = {}
      BY <1>1 DEF StartSync, OnceInPlace, InHand
    <2>6. Baseline \/ FinishSync => batch' = {}
      BY DEF Baseline, FinishSync, DropSync
    <2>7. QED
      BY <1>1, <2>1, <2>2, <2>3, <2>4, <2>5, <2>6, PcMoves
  <1>7. pc' \in InHand => pc' \in InFlight
    BY DEF InHand, InFlight
  <1>8. (pc \in InHand)' <=> pc' \in InHand
    BY DEF InHand
  <1>9. (pc \in InFlight)' <=> pc' \in InFlight
    BY DEF InFlight
  <1>10. QED
    BY <1>3, <1>4, <1>5, <1>6, <1>7, <1>8, <1>9 DEF OnceInPlace

LEMMA ToldStep ==
    ASSUME TypeOK, TypeOK', Once, [Next]_vars, restarts' = 0, logins' = 0,
           NEW i \in DOMAIN log'
    PROVE  told'[i] <= 1 /\ (told'[i] > 0 => ToldUpTo(i)')
  <1>1. /\ OnceInPlace /\ ~Restart /\ ~LoginConnects
        /\ \A j \in DOMAIN log : told[j] <= 1 /\ (told[j] > 0 => ToldUpTo(j))
    BY CountersGrow DEF Once
  <1>2. /\ snap.cursor \in Int /\ Len(log) \in Nat
        /\ newState \in Nat /\ MaxChanges \in Nat /\ mem.cursor \in Int
        /\ DOMAIN log = 1..Len(log) /\ batch \subseteq DOMAIN log
    BY FlightNumbers
  <1>3. CASE i \notin DOMAIN log
    BY <1>3, ToldChanges
  <1>4. CASE i \in batch /\ Accept(i)
    <2>1. /\ i \in DOMAIN log /\ told'[i] = 1 /\ pc' = "deliver"
          /\ newState' = newState /\ i <= newState
      <3>1. i \in DOMAIN log /\ told[i] = 0 /\ i <= newState
        BY <1>1, <1>2, <1>4 DEF OnceInPlace
      <3>2. i \in DOMAIN told /\ told' = [told EXCEPT ![i] = @ + 1]
        <4>1. told \in Seq(Nat) /\ Len(told) = Len(log)
          BY DEF TypeOK
        <4>2. DOMAIN told = 1..Len(log)
          BY <4>1, LenProperties
        <4>3. QED
          BY <1>2, <1>4, <3>1, <4>2 DEF Accept
      <3>3. told'[i] = 1
        BY <3>1, <3>2
      <3>4. pc' = "deliver" /\ newState' = newState
        BY <1>4 DEF Accept, Passed
      <3>5. QED
        BY <3>1, <3>3, <3>4
    <2>2. QED
      BY <2>1 DEF ToldUpTo, InHand
  <1>5. CASE i \in DOMAIN log /\ told'[i] = told[i]
    <2> SUFFICES ASSUME told[i] > 0 PROVE ToldUpTo(i)'
      BY <1>1, <1>5
    <2>1. ToldUpTo(i) /\ i \in Nat /\ i <= Len(log)
      BY <1>1, <1>2, <1>5
    <2>2. CASE Baseline
      <3>1. pc = "baseline" /\ pc' = "check"
        BY <2>2 DEF Baseline
      <3>2. mem'.cursor \in {mem.cursor, NoState, Len(log)}
        BY <1>1, <2>2, <3>1, RecordMoves
      <3>3. QED
        BY <1>2, <2>1, <3>1, <3>2 DEF ToldUpTo, InHand
    <2>3. CASE FinishSync
      <3>1. pc = "deliver" /\ pc' = "check" /\ i <= newState
        BY <2>1, <2>3 DEF FinishSync, ToldUpTo, InHand
      <3>2. mem'.cursor = NoState \/ mem'.cursor = newState
        <4>1. CASE ~mem.opted
          BY <1>1, <2>3, <4>1 DEF FinishSync, UpdateState, store, OnceInPlace
        <4>2. CASE mem.opted /\ newState = snap.cursor
          BY <1>1, <2>3, <3>1, <4>2 DEF FinishSync, store, OnceInPlace, InFlight
        <4>3. CASE mem.opted /\ newState # snap.cursor
          <5>1. mem \in Record
            BY DEF TypeOK
          <5>2. QED
            BY <2>3, <4>3, <5>1 DEF FinishSync, UpdateState, StoreWrite
        <4>4. QED
          BY <4>1, <4>2, <4>3
      <3>3. QED
        BY <3>1, <3>2 DEF ToldUpTo, InHand
    <2>4. CASE ~Baseline /\ ~FinishSync
      <3>1. mem'.cursor = mem.cursor \/ mem'.cursor = NoState
        BY <1>1, <2>4, RecordMoves
      <3>2. CASE StartSync
        BY <1>1, <2>1, <3>1, <3>2 DEF StartSync, ToldUpTo, InHand
      <3>3. CASE Fetch
        <4>1. pc = "fetch" /\ pc' = "deliver" /\ i <= snap.cursor
              /\ newState' = Smaller(Len(log), snap.cursor + MaxChanges)
          BY <2>1, <3>3 DEF Fetch, Answers, ToldUpTo
        <4>2. QED
          BY <1>2, <2>1, <4>1 DEF Smaller, ToldUpTo, InHand
      <3>4. CASE \E j \in batch :
                    PassOver(j) \/ Accept(j) \/ Refuse(j) \/ ThreadNotFound(j)
        BY <2>1, <3>4 DEF PassOver, Accept, Refuse, ThreadNotFound, Passed, sync,
                          ToldUpTo, InHand
      <3>5. CASE UNCHANGED <<pc, snap, newState, batch>>
        BY <2>1, <3>1, <3>5 DEF ToldUpTo
      <3>6. CASE /\ pc' \notin InFlight
                 /\ pc' = "stopped" \/ pc \notin InHand \cup {"stopped"}
        BY <2>1, <3>1, <3>6 DEF ToldUpTo, InFlight, InHand
      <3>7. QED
        BY <1>1, <2>4, <3>2, <3>3, <3>4, <3>5, <3>6, PcMoves
    <2>5. QED
      BY <2>2, <2>3, <2>4
  <1>6. QED
    BY <1>3, <1>4, <1>5, ToldChanges

(* Failed writes of the cursor, calls that are tried again, dead topics, and *)
(* the watcher's old copy of the record repeat no announcement.             *)
THEOREM NothingRepeated == Spec => []AnnouncedOnce
  <1>1. Init /\ TypeOK => Once
    <2> SUFFICES ASSUME Init, TypeOK PROVE Once
      OBVIOUS
    <2>1. OnceInPlace
      <3>1. mem.opted \/ mem.cursor = NoState
        <4>1. mem = NoRecord => mem.cursor = NoState
          OBVIOUS
        <4>2. mem \in [opted: {TRUE}, cursor: {NoState, Len(log)},
                       topic: BOOLEAN, muted: BOOLEAN] => mem.opted
          OBVIOUS
        <4>3. QED
          BY <4>1, <4>2 DEF Init
      <3>2. hpc = "idle" /\ pc = "resume" /\ batch = {}
        BY DEF Init
      <3>3. QED
        BY <3>1, <3>2 DEF OnceInPlace, InFlight, InHand
    <2>2. \A i \in DOMAIN log : told[i] = 0
      BY DEF Init
    <2>3. QED
      BY <2>1, <2>2 DEF Once
  <1>2. TypeOK /\ TypeOK' /\ Once /\ [Next]_vars => Once'
    BY PlaceStep, ToldStep DEF Once
  <1>3. Once => AnnouncedOnce
    BY DEF Once, AnnouncedOnce
  <1>4. QED
    BY <1>1, <1>2, <1>3, InitType, StepType, PTL DEF Spec

-----------------------------------------------------------------------------
(* MailDelivery.                                                            *)

USE DEF SettledChanges

(* A step lets mail arrive, or settles some of it, or moves the cursors and  *)
(* what a login passed over; it never does two of these at once.            *)
LEMMA OneThingAtATime ==
    ASSUME TypeOK, [Next]_vars
    PROVE  \/ /\ \E e \in Change : Arrive(e)
              /\ UNCHANGED <<mem, disk, base>>
           \/ UNCHANGED <<log, mem, disk, base>>
           \/ UNCHANGED <<log, told, refused, hushed, gone>>
  <1> USE DEF vars, server, store, sync, handler, history, counters
  <1>1. QED
    BY DEF Next, Watcher, MailServer, Handler, Restart,
         ResumeCheck, ResumeConnects, ResumeFails, OpenStream, Check, Baseline,
         CalendarAlert, StreamEnds, StartSync, Fetch, Answers, CallFails,
         PassOver, Accept, Refuse, ThreadNotFound, FinishSync, Arrive, Destroy,
         Expire, LoginConnects, LoginStores, LoginAdopts, DisconnectForgets,
         DisconnectRemoves, Mute, EnsureTopic

(* A record of the target's: the one in memory, or the one in the file.     *)
LEMMA DeliveryMoves ==
    ASSUME Inv, [Next]_vars, NEW c \in Int, NEW d \in Int,
           c <= Len(log), d <= Len(log'), -1 <= d,
           Covered(c), \A i \in DOMAIN log' : base' < i /\ i <= d => Settled(i)',
           UNCHANGED <<mem, disk>> => d = c
    PROVE  \/ /\ Len(log)' = Len(log) + 1 /\ UNCHANGED base /\ d = c
              /\ SettledChanges' \in {SettledChanges, SettledChanges \cup {Len(log) + 1}}
           \/ /\ SettledChanges' \in SUBSET (1..Len(log))
              /\ SettledChanges \subseteq SettledChanges'
              /\ UNCHANGED <<Len(log), base>> /\ d = c
           \/ /\ base' \in base..Len(log) /\ d \in -1..Len(log)
              /\ (base' + 1)..d \subseteq SettledChanges
              /\ UNCHANGED <<Len(log), SettledChanges>>
  <1>1. TypeOK /\ TypeOK'
    BY StepType DEF Inv
  <1>2. /\ DOMAIN log = 1..Len(log) /\ Len(log) \in Nat
        /\ DOMAIN log' = 1..Len(log') /\ Len(log') \in Nat
        /\ base \in Nat /\ base' \in Nat /\ base' <= Len(log') /\ base <= base'
    <2>1. log' \in Seq(Change) /\ base' \in past'..Len(log') /\ past' \in 0..Len(log')
      BY <1>1 DEF TypeOK
    <2>2. DOMAIN log' = 1..Len(log') /\ Len(log') \in Nat
      BY <2>1, LenProperties
    <2>3. QED
      BY <1>1, <2>1, <2>2, Numbers, SettledStays
  <1>3. SettledChanges \subseteq SettledChanges' /\ SettledChanges' \subseteq DOMAIN log'
    BY <1>1, SettledStays
  <1>4. ASSUME NEW e \in Change, Arrive(e), UNCHANGED <<mem, disk, base>>
        PROVE  /\ Len(log)' = Len(log) + 1 /\ UNCHANGED base /\ d = c
               /\ SettledChanges' \in {SettledChanges, SettledChanges \cup {Len(log) + 1}}
    <2>1. Len(log') = Len(log) + 1
      BY <1>1, <1>4, AppendProperties DEF Arrive, TypeOK
    <2>2. \A i \in DOMAIN log : Settled(i)' => Settled(i)
      <3>1. UNCHANGED <<gone, refused, hushed>>
        BY <1>4 DEF Arrive
      <3>2. \A i \in DOMAIN log : told'[i] = told[i] /\ log'[i] = log[i]
        BY <1>1, <1>4, AppendProperties, LenProperties DEF Arrive, TypeOK
      <3>3. QED
        BY <3>1, <3>2 DEF Settled
    <2>3. SettledChanges' \subseteq SettledChanges \cup {Len(log) + 1}
      BY <1>2, <2>1, <2>2
    <2>4. SettledChanges' = SettledChanges \/ SettledChanges' = SettledChanges \cup {Len(log) + 1}
      BY <1>3, <2>3
    <2>5. QED
      BY <1>4, <2>1, <2>4
  <1>5. CASE UNCHANGED <<log, mem, disk, base>>
    BY <1>2, <1>3, <1>5
  <1>6. CASE UNCHANGED <<log, told, refused, hushed, gone>>
    <2>1. \A i \in DOMAIN log : Settled(i)' <=> Settled(i)
      BY <1>6 DEF Settled
    <2>2. SettledChanges' = SettledChanges
      BY <1>6, <2>1
    <2>3. (base' + 1)..d \subseteq SettledChanges
      <3> SUFFICES ASSUME NEW i \in (base' + 1)..d PROVE i \in SettledChanges
        OBVIOUS
      <3> DEFINE b == base'
                 n == Len(log')
      <3>1. b \in Nat /\ n \in Nat /\ d <= n /\ i \in (b + 1)..d
        BY <1>2
      <3> HIDE DEF b, n
      <3>2. i \in 1..n /\ b < i /\ i <= d
        BY <3>1
      <3> USE DEF b, n
      <3>3. i \in DOMAIN log' /\ Settled(i)'
        BY <1>2, <3>2
      <3>4. QED
        BY <2>2, <3>3
    <2>4. base' \in base..Len(log) /\ d \in -1..Len(log)
      <3>1. Len(log') = Len(log)
        BY <1>6
      <3>2. QED
        BY <1>2, <3>1
    <2>5. QED
      BY <1>6, <2>2, <2>3, <2>4
  <1>7. QED
    BY <1>1, <1>4, <1>5, <1>6, OneThingAtATime

(* The initial state, and every step, of either cursor.                     *)
LEMMA DeliveryInit == Init => Memory!Init /\ File!Init
  <1> SUFFICES ASSUME Init PROVE Memory!Init /\ File!Init
    OBVIOUS
  <1>1. TypeOK
    BY InitType
  <1>2. /\ Len(log) \in Nat /\ DOMAIN log = 1..Len(log)
        /\ mem.cursor \in Int /\ mem.cursor <= Len(log)
        /\ mem.cursor >= -1 /\ disk = mem /\ base = Len(log)
    <2>1. mem.cursor \in Nat \cup {-1}
      <3>1. mem \in Record
        BY <1>1 DEF TypeOK
      <3>2. QED
        BY <3>1
    <2>2. QED
      BY <1>1, <2>1, Numbers DEF Init
  <1>3. SettledChanges \subseteq 1..Len(log)
    BY <1>2
  <1>4. QED
    BY <1>2, <1>3 DEF Memory!Init, File!Init

LEMMA DeliveryStep ==
    ASSUME Inv, [Next]_vars
    PROVE  [Memory!Next]_Memory!vars /\ [File!Next]_File!vars
  <1>1. TypeOK /\ TypeOK' /\ CursorNeverOvertakes /\ CursorNeverOvertakes'
    BY InvStep DEF Inv
  <1>2. /\ mem.cursor \in Int /\ mem.cursor <= Len(log)
        /\ disk.cursor \in Int /\ disk.cursor <= Len(log)
    BY <1>1, Numbers
  <1>3. /\ mem'.cursor \in Int /\ mem'.cursor <= Len(log') /\ -1 <= mem'.cursor
        /\ disk'.cursor \in Int /\ disk'.cursor <= Len(log') /\ -1 <= disk'.cursor
    <2>1. mem'.cursor \in Nat \cup {-1} /\ disk'.cursor \in Nat \cup {-1}
      <3>1. mem' \in Record /\ disk' \in Record
        BY <1>1 DEF TypeOK
      <3>2. QED
        BY <3>1
    <2>2. mem'.cursor <= Len(log') /\ disk'.cursor <= Len(log')
      BY <1>1 DEF TypeOK
    <2>3. QED
      BY <2>1, <2>2
  <1>4. [Memory!Next]_Memory!vars
    <2> DEFINE d == mem'.cursor
    <2>1. \A i \in DOMAIN log' : base' < i /\ i <= d => Settled(i)'
      BY <1>1 DEF CursorNeverOvertakes, Covered
    <2>2. Covered(mem.cursor) /\ (UNCHANGED <<mem, disk>> => d = mem.cursor)
      BY <1>1 DEF CursorNeverOvertakes
    <2> HIDE DEF SettledChanges
    <2>3. QED
      BY <1>2, <1>3, <2>1, <2>2, DeliveryMoves
      DEF Memory!Next, Memory!Arrive, Memory!Settle, Memory!Move, Memory!vars
  <1>5. [File!Next]_File!vars
    <2> DEFINE d == disk'.cursor
    <2>1. \A i \in DOMAIN log' : base' < i /\ i <= d => Settled(i)'
      BY <1>1 DEF CursorNeverOvertakes, Covered
    <2>2. Covered(disk.cursor) /\ (UNCHANGED <<mem, disk>> => d = disk.cursor)
      BY <1>1 DEF CursorNeverOvertakes
    <2> HIDE DEF SettledChanges
    <2>3. QED
      BY <1>2, <1>3, <2>1, <2>2, DeliveryMoves
      DEF File!Next, File!Arrive, File!Settle, File!Move, File!vars
  <1>6. QED
    BY <1>4, <1>5

(* The cursor in memory implements MailDelivery: mail arrives, is settled,  *)
(* or the cursor moves, and forward only over settled mail and over what a  *)
(* login passed over on purpose.                                            *)
THEOREM MemoryKeepsPromise == Spec => MemoryPromise
  BY InvInit, InvStep, DeliveryInit, DeliveryStep, PTL DEF Spec, MemoryPromise, Memory!Spec

(* So does the cursor in the file, whichever of its writes fail: a restarted *)
(* process goes on from a place that skips nothing.                         *)
THEOREM FileKeepsPromise == Spec => FilePromise
  BY InvInit, InvStep, DeliveryInit, DeliveryStep, PTL DEF Spec, FilePromise, File!Spec

=============================================================================
