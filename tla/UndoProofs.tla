------------------------------ MODULE UndoProofs ------------------------------
(***************************************************************************)
(* Proofs about Undo, for every value of its constants.                    *)
(***************************************************************************)
EXTENDS Undo, FiniteSetTheorems, TLAPS

USE DEF Place, None, Idle

-----------------------------------------------------------------------------
(* Type correctness, with what a handler holds at each of its steps.       *)

Shown(c) == {m \in Message : ChatOf[m] = c}
SlotsOf(c) == [msg: Shown(c), to: Place, fresh: BOOLEAN]
Triaged == [from: Place, sure: BOOLEAN]

Reading(c) == [step: {"read"}, msg: Shown(c), to: Filed]
Moving(c) ==
    [step: {"move", "answer", "record"}, msg: Shown(c), to: Filed, from: Place]
Showing(c) ==
    [step: {"count", "show", "edit"}, then: {"edit"}, open: Nat, msg: Shown(c)]
Taking(c) == [step: {"take"}, msg: Shown(c)]
Undoing(c) ==
    [step: {"count", "show", "check"}, then: {"check"}, open: Nat, msg: Shown(c),
     got: SlotsOf(c) \cup {None}]
Restoring(c) == [step: {"restore"}, msg: Shown(c), to: Place]
Forgetting == [step: {"count", "show"}, then: {"idle"}, open: Nat]

Holds(c) ==
    {Idle} \cup Reading(c) \cup Moving(c) \cup Showing(c) \cup Taking(c)
           \cup Undoing(c) \cup Restoring(c) \cup Forgetting

Typed ==
    /\ where \in [Message -> Place]
    /\ pending \in [Chat -> Slot \cup {None}]
    /\ \A c \in Chat : pending[c] \in SlotsOf(c) \cup {None}
    /\ gauge \in 0..Cardinality(Chat)
    /\ DOMAIN busy = Chat /\ \A c \in Chat : busy[c] \in Holds(c)
    /\ \A c \in Chat : At(c, "show") => busy[c].open <= Cardinality(Chat)
    /\ readers = {c \in Chat : At(c, "show")}
    /\ shown \subseteq Message
    /\ last \in [Message -> Triaged \cup {None}]
    /\ DOMAIN offered = Chat

(* The one undo a chat may still have is of a triage not undone yet, and    *)
(* leads back to where that found the message, as far as that is known; but *)
(* a triage of the same message at work has not yet written down its own.  *)
Owed(m, to) == last[m] # None /\ (last[m].sure => to = last[m].from)

OwingIn(c) ==
    /\ pending[c] # None =>
         \/ Owed(pending[c].msg, pending[c].to)
         \/ /\ busy[c].step \in {"answer", "record"}
            /\ busy[c].msg = pending[c].msg
    /\ busy[c].step \in {"answer", "record"} => Owed(busy[c].msg, busy[c].from)
    /\ busy[c] \in Undoing(c) =>
         /\ pending[c] = None
         /\ busy[c].got # None => Owed(busy[c].got.msg, busy[c].got.to)
    /\ At(c, "restore") => pending[c] = None /\ Owed(busy[c].msg, busy[c].to)

Owing == \A c \in Chat : OwingIn(c)

LEMMA Holding ==
    ASSUME NEW c, NEW h \in Holds(c)
    PROVE  /\ h.step = "read" => h \in Reading(c)
           /\ h.step \in {"move", "answer", "record"} => h \in Moving(c)
           /\ h.step = "edit" => h \in Showing(c)
           /\ h.step = "take" => h \in Taking(c)
           /\ h.step = "check" => h \in Undoing(c)
           /\ h.step = "restore" => h \in Restoring(c)
           /\ h.step \in {"count", "show"} =>
                h \in Showing(c) \cup Undoing(c) \cup Forgetting
           /\ h.step \in Step \cup {"idle"}
  BY DEF Holds, Reading, Moving, Showing, Taking, Undoing, Restoring, Forgetting, Step

(* A slot is not an empty one.                                             *)
LEMMA SlotsAreOpen == \A c : None \notin SlotsOf(c)
  <1>1. ASSUME NEW c, NEW s \in SlotsOf(c) PROVE DOMAIN s = {"msg", "to", "fresh"}
    BY DEF SlotsOf
  <1>2. DOMAIN None = {}
    OBVIOUS
  <1>3. {"msg", "to", "fresh"} # {}
    OBVIOUS
  <1>4. QED
    BY <1>1, <1>2, <1>3

(* Nor is the debt of a triage.                                            *)
LEMMA DebtsAreOwed == None \notin Triaged
  <1>1. ASSUME NEW s \in Triaged PROVE DOMAIN s = {"from", "sure"}
    BY DEF Triaged
  <1>2. DOMAIN None = {}
    OBVIOUS
  <1>3. {"from", "sure"} # {}
    OBVIOUS
  <1>4. QED
    BY <1>1, <1>2, <1>3

LEMMA OpenIsFinite ==
    /\ IsFiniteSet(Open) /\ Cardinality(Open) \in Nat
    /\ Cardinality(Open) <= Cardinality(Chat) /\ Cardinality(Chat) \in Nat
  <1>1. Open \subseteq Chat /\ IsFiniteSet(Chat)
    BY UndoAssumption DEF Open
  <1>2. QED
    BY <1>1, FS_Subset, FS_CardinalityType

(* One handler goes on, and the others stay where they are.                *)
Only(c) == DOMAIN busy' = Chat /\ \A d \in Chat \ {c} : busy'[d] = busy[d]

LEMMA TapHolds ==
    ASSUME Typed, NEW m \in Message, NEW to \in Filed, TapTriage(m, to)
    PROVE  LET c == ChatOf[m]
           IN  c \in Chat /\ Only(c) /\ busy'[c] \in Reading(c)
  BY UndoAssumption DEF Typed, TapTriage, Only, Reading, Shown

LEMMA UndoHolds ==
    ASSUME Typed, NEW m \in Message, TapUndo(m)
    PROVE  LET c == ChatOf[m]
           IN  c \in Chat /\ Only(c) /\ busy'[c] \in Taking(c)
  BY UndoAssumption DEF Typed, TapUndo, Only, Taking, Shown

LEMMA ReadHolds ==
    ASSUME Typed, NEW c \in Chat, ReadMailboxes(c)
    PROVE  /\ Only(c)
           /\ \/ busy'[c] = Idle
              \/ busy'[c] \in Moving(c) /\ busy'[c].step = "move"
  <1>1. busy[c] \in Reading(c)
    BY Holding DEF Typed, ReadMailboxes, At
  <1>2. where[busy[c].msg] \in Place
    BY <1>1 DEF Typed, Reading, Shown
  <1>3. CASE Ends(c)
    <2>1. Only(c) /\ busy'[c] = Idle
      BY <1>3 DEF Typed, Ends, Only
    <2>2. QED
      BY <2>1
  <1>4. CASE busy' = [busy EXCEPT ![c] = [step |-> "move", msg |-> @.msg, to |-> @.to,
                                          from |-> where[@.msg]]]
    <2>1. busy[c].msg \in Shown(c) /\ busy[c].to \in Filed
      BY <1>1 DEF Reading
    <2>2. /\ busy'[c] = [step |-> "move", msg |-> busy[c].msg, to |-> busy[c].to,
                         from |-> where[busy[c].msg]]
          /\ Only(c)
      BY <1>4 DEF Typed, Only
    <2>3. QED
      BY <1>2, <2>1, <2>2 DEF Moving
  <1>5. QED
    BY <1>3, <1>4 DEF ReadMailboxes

LEMMA MoveHolds ==
    ASSUME Typed, NEW c \in Chat, MoveMessage(c)
    PROVE  /\ Only(c)
           /\ \/ Moves(c, TRUE) /\ busy'[c] \in Moving(c) /\ busy'[c].step = "answer"
                 /\ busy'[c].msg = busy[c].msg /\ busy'[c].from = busy[c].from
              \/ busy'[c] = Idle /\ (Moves(c, FALSE) \/ UNCHANGED <<where, history>>)
  <1>1. busy[c] \in Moving(c)
    BY Holding DEF Typed, MoveMessage, At
  <1>2. CASE Ends(c)
    BY <1>2 DEF Typed, Ends, Only, MoveMessage, Goes, Moves
  <1>3. CASE Goes(c, "answer")
    <2>1. Only(c) /\ busy'[c] = [busy[c] EXCEPT !.step = "answer"]
      BY <1>3 DEF Typed, Goes, Only
    <2>2. /\ busy'[c] \in Moving(c) /\ busy'[c].step = "answer"
          /\ busy'[c].msg = busy[c].msg /\ busy'[c].from = busy[c].from
      BY <1>1, <2>1 DEF Moving
    <2>3. busy'[c] # Idle
      BY <2>2
    <2>4. Moves(c, TRUE)
      BY <2>3 DEF Typed, MoveMessage, Ends
    <2>5. QED
      BY <2>1, <2>2, <2>4
  <1>4. QED
    BY <1>2, <1>3 DEF MoveMessage

LEMMA AnswerHolds ==
    ASSUME Typed, NEW c \in Chat, Answer(c)
    PROVE  /\ Only(c)
           /\ \/ busy'[c] \in Moving(c) /\ busy'[c].step = "record" /\ last' = last
                 /\ busy'[c].msg = busy[c].msg /\ busy'[c].from = busy[c].from
              \/ busy'[c] = Idle /\ last' = [last EXCEPT ![busy[c].msg].sure = FALSE]
  <1>1. busy[c] \in Moving(c)
    BY Holding DEF Typed, Answer, At
  <1>2. QED
    BY <1>1 DEF Typed, Answer, Moving, Only, Ends, Goes

LEMMA RecordHolds ==
    ASSUME Typed, NEW c \in Chat, Record(c)
    PROVE  /\ Only(c) /\ busy'[c] \in Showing(c) /\ busy'[c].step = "count"
           /\ pending'[c] \in SlotsOf(c) /\ DOMAIN pending' = Chat
           /\ \A d \in Chat \ {c} : pending'[d] = pending[d]
           /\ pending'[c].msg = busy[c].msg /\ pending'[c].to = busy[c].from
  <1>1. busy[c] \in Moving(c)
    BY Holding DEF Typed, Record, At
  <1>2. QED
    BY <1>1 DEF Typed, Record, Moving, Showing, SlotsOf, Only

LEMMA CountHolds ==
    ASSUME Typed, NEW c \in Chat, Count(c)
    PROVE  /\ Only(c) /\ busy'[c].step = "show" /\ busy'[c].open = Cardinality(Open)
           /\ \/ busy'[c] \in Showing(c) \cup Forgetting
              \/ busy'[c] \in Undoing(c) /\ busy[c] \in Undoing(c)
                 /\ busy'[c].got = busy[c].got
  <1>1. busy[c] \in Showing(c) \cup Undoing(c) \cup Forgetting
    BY Holding DEF Typed, Count, At
  <1>2. Cardinality(Open) \in Nat
    BY OpenIsFinite
  <1>3. busy' = [busy EXCEPT ![c] = [busy[c] EXCEPT !.step = "show", !.open = Cardinality(Open)]]
    BY DEF Count
  <1>4. QED
    BY <1>1, <1>2, <1>3 DEF Typed, Showing, Undoing, Forgetting, Only

LEMMA ShowHolds ==
    ASSUME Typed, NEW c \in Chat, Show(c)
    PROVE  /\ Only(c)
           /\ \/ busy'[c] = Idle
              \/ busy'[c] \in Showing(c) /\ busy'[c].step = "edit"
              \/ busy'[c] \in Undoing(c) /\ busy'[c].step = "check"
                 /\ busy[c] \in Undoing(c) /\ busy'[c].got = busy[c].got
  <1>1. busy[c] \in Showing(c) \cup Undoing(c) \cup Forgetting
    BY Holding DEF Typed, Show, At
  <1>2. QED
    BY <1>1 DEF Typed, Show, Ends, Showing, Undoing, Forgetting, Only

LEMMA EditHolds ==
    ASSUME Typed, NEW c \in Chat, EditCard(c)
    PROVE  Only(c) /\ busy'[c] = Idle /\ shown' \subseteq Message
  <1>1. busy[c] \in Showing(c)
    BY Holding DEF Typed, EditCard, At
  <1>2. QED
    BY <1>1 DEF Typed, EditCard, Ends, Showing, Shown, Only

LEMMA TakeHolds ==
    ASSUME Typed, NEW c \in Chat, Take(c)
    PROVE  /\ Only(c) /\ busy'[c] \in Undoing(c) /\ busy'[c].step = "count"
           /\ busy'[c].got = pending[c]
           /\ DOMAIN offered' = Chat
           /\ pending'[c] = None /\ DOMAIN pending' = Chat
           /\ \A d \in Chat \ {c} : pending'[d] = pending[d]
  <1>1. busy[c] \in Taking(c)
    BY Holding DEF Typed, Take, At
  <1>2. QED
    BY <1>1 DEF Typed, Take, Tried, Taking, Undoing, Only

LEMMA CheckHolds ==
    ASSUME Typed, NEW c \in Chat, Check(c)
    PROVE  /\ Only(c) /\ busy[c] \in Undoing(c)
           /\ \/ busy'[c] = Idle
              \/ /\ busy'[c] \in Restoring(c) /\ busy[c].got # None
                 /\ busy'[c].msg = busy[c].got.msg /\ busy'[c].to = busy[c].got.to
  <1>1. busy[c] \in Undoing(c)
    BY Holding DEF Typed, Check, At
  <1>2. QED
    BY <1>1 DEF Typed, Check, Ends, Restoring, Undoing, SlotsOf, Only

LEMMA RestoreHolds ==
    ASSUME Typed, NEW c \in Chat, Restore(c)
    PROVE  /\ Only(c) /\ busy'[c] = Idle /\ busy[c] \in Restoring(c)
           /\ shown' \subseteq Message
           /\ \/ /\ where' = [where EXCEPT ![busy[c].msg] = busy[c].to]
                 /\ last' = [last EXCEPT ![busy[c].msg] = None]
              \/ UNCHANGED <<where, last>>
  <1>1. busy[c] \in Restoring(c)
    BY Holding DEF Typed, Restore, At
  <1>2. QED
    BY <1>1 DEF Typed, Restore, Ends, Restoring, Only

LEMMA ForgetHolds ==
    ASSUME Typed, NEW c \in Chat, Forget(c)
    PROVE  /\ Only(c) /\ busy'[c] \in Forgetting /\ busy'[c].step = "count"
           /\ pending'[c] = None /\ DOMAIN pending' = Chat
           /\ \A d \in Chat \ {c} : pending'[d] = pending[d]
           /\ last' \in [Message -> Triaged \cup {None}]
           /\ \A m \in Message : ChatOf[m] # c => last'[m] = last[m]
           /\ DOMAIN offered' = Chat
  BY DEF Typed, Forget, Forgetting, Only

LEMMA LapseHolds ==
    ASSUME Typed, NEW c \in Chat, Lapse(c)
    PROVE  /\ Only(c) /\ DOMAIN pending' = Chat /\ DOMAIN offered' = Chat
           /\ \A d \in Chat \ {c} : pending'[d] = pending[d]
           /\ \/ /\ busy' = busy /\ pending[c] # None
                 /\ pending'[c] \in SlotsOf(c)
                 /\ pending'[c].msg = pending[c].msg /\ pending'[c].to = pending[c].to
              \/ /\ pending' = pending
                 /\ busy[c] \in Undoing(c) /\ busy'[c] \in Undoing(c)
                 /\ busy'[c].step = busy[c].step /\ busy'[c].open = busy[c].open
                 /\ busy[c].got # None /\ busy'[c].got # None
                 /\ busy'[c].got.msg = busy[c].got.msg
                 /\ busy'[c].got.to = busy[c].got.to
  <1>1. CASE /\ pending[c] # None
             /\ pending' = [pending EXCEPT ![c].fresh = FALSE]
             /\ offered' = [offered EXCEPT ![c] = None]
             /\ UNCHANGED busy
    <2>1. pending[c] \in SlotsOf(c)
      BY <1>1 DEF Typed
    <2>2. pending' = [pending EXCEPT ![c] = [pending[c] EXCEPT !.fresh = FALSE]]
      BY <1>1
    <2>3. /\ pending'[c] = [pending[c] EXCEPT !.fresh = FALSE]
          /\ DOMAIN pending' = Chat
          /\ \A d \in Chat \ {c} : pending'[d] = pending[d]
      BY <2>2 DEF Typed
    <2>4. /\ pending'[c] \in SlotsOf(c)
          /\ pending'[c].msg = pending[c].msg /\ pending'[c].to = pending[c].to
      BY <2>1, <2>3 DEF SlotsOf
    <2>5. Only(c) /\ DOMAIN offered' = Chat
      BY <1>1 DEF Only, Typed
    <2>6. QED
      BY <1>1, <2>3, <2>4, <2>5
  <1>2. CASE /\ "got" \in DOMAIN busy[c] /\ busy[c].got # None /\ busy[c].got.fresh
             /\ busy' = [busy EXCEPT ![c].got.fresh = FALSE]
             /\ UNCHANGED <<pending, offered>>
    <2> DEFINE got == [busy[c].got EXCEPT !.fresh = FALSE]
    <2>1. busy[c] \in Undoing(c)
      BY <1>2 DEF Typed, Holds, Reading, Moving, Showing, Taking, Undoing, Restoring, Forgetting
    <2>2. busy' = [busy EXCEPT ![c] = [busy[c] EXCEPT !.got = got]]
      BY <1>2
    <2>3. Only(c) /\ busy'[c] = [busy[c] EXCEPT !.got = got]
      BY <2>2 DEF Typed, Only
    <2>4. busy[c].got \in SlotsOf(c)
      BY <1>2, <2>1 DEF Undoing
    <2>5. /\ got \in SlotsOf(c) /\ got.msg = busy[c].got.msg /\ got.to = busy[c].got.to
          /\ got # None
      <3>1. got \in SlotsOf(c) /\ got.msg = busy[c].got.msg /\ got.to = busy[c].got.to
        BY <2>4 DEF SlotsOf
      <3>2. got # None
        BY <3>1, SlotsAreOpen
      <3>3. QED
        BY <3>1, <3>2
    <2> HIDE DEF got
    <2>6. /\ busy'[c] \in Undoing(c) /\ busy'[c].got = got
          /\ busy'[c].step = busy[c].step /\ busy'[c].open = busy[c].open
      BY <2>1, <2>3, <2>5 DEF Undoing
    <2>7. QED
      BY <1>2, <2>1, <2>3, <2>5, <2>6 DEF Typed
  <1>3. QED
    BY <1>1, <1>2 DEF Lapse

LEMMA HoldsSets ==
    ASSUME NEW c
    PROVE  /\ Idle \in Holds(c) /\ Reading(c) \subseteq Holds(c)
           /\ Moving(c) \subseteq Holds(c) /\ Showing(c) \subseteq Holds(c)
           /\ Taking(c) \subseteq Holds(c) /\ Undoing(c) \subseteq Holds(c)
           /\ Restoring(c) \subseteq Holds(c) /\ Forgetting \subseteq Holds(c)
  BY DEF Holds

(* The handlers, the read lock and the counts held under it.               *)
BusyTyped ==
    /\ DOMAIN busy = Chat /\ \A c \in Chat : busy[c] \in Holds(c)
    /\ \A c \in Chat : At(c, "show") => busy[c].open <= Cardinality(Chat)
    /\ readers = {c \in Chat : At(c, "show")}

(* A step that neither takes nor lets go of the lock.                      *)
LEMMA LockKept ==
    ASSUME Typed, NEW c \in Chat, Only(c), busy'[c] \in Holds(c), readers' = readers,
           At(c, "show") <=> At(c, "show")',
           At(c, "show") => busy'[c].open = busy[c].open
    PROVE  BusyTyped'
  BY DEF Typed, BusyTyped, Only, At

LEMMA BusyStep ==
    ASSUME Typed, [Next]_vars
    PROVE  BusyTyped'
  <1>1. ASSUME NEW m \in Message, NEW to \in Filed, TapTriage(m, to) PROVE BusyTyped'
    BY <1>1, TapHolds, HoldsSets, LockKept DEF TapTriage, At, Reading
  <1>2. ASSUME NEW m \in Message, TapUndo(m) PROVE BusyTyped'
    BY <1>2, UndoHolds, HoldsSets, LockKept DEF TapUndo, At, Taking
  <1>3. ASSUME NEW c \in Chat, ReadMailboxes(c) PROVE BusyTyped'
    BY <1>3, ReadHolds, HoldsSets, LockKept DEF ReadMailboxes, At
  <1>4. ASSUME NEW c \in Chat, MoveMessage(c) PROVE BusyTyped'
    <2>1. Only(c) /\ busy'[c] \in Holds(c) /\ busy'[c].step # "show"
      <3>1. Only(c) /\ (busy'[c] # Idle => busy'[c] \in Moving(c) /\ busy'[c].step = "answer")
        BY <1>4, MoveHolds
      <3>2. QED
        BY <3>1, HoldsSets
    <2>2. busy[c].step # "show" /\ readers' = readers
      BY <1>4 DEF MoveMessage, At
    <2>3. QED
      BY <2>1, <2>2, LockKept DEF At
  <1>5. ASSUME NEW c \in Chat, Answer(c) PROVE BusyTyped'
    BY <1>5, AnswerHolds, HoldsSets, LockKept DEF Answer, At
  <1>6. ASSUME NEW c \in Chat, Record(c) PROVE BusyTyped'
    BY <1>6, RecordHolds, HoldsSets, LockKept DEF Record, At
  <1>7. ASSUME NEW c \in Chat, EditCard(c) PROVE BusyTyped'
    BY <1>7, EditHolds, HoldsSets, LockKept DEF EditCard, At
  <1>8. ASSUME NEW c \in Chat, Count(c) PROVE BusyTyped'
    <2>1. busy'[c] \in Holds(c)
      BY <1>8, CountHolds, HoldsSets
    <2>2. QED
      <3>1. /\ Only(c) /\ busy'[c].step = "show" /\ readers' = readers \cup {c}
            /\ busy'[c].open <= Cardinality(Chat)
        BY <1>8, CountHolds, OpenIsFinite DEF Count
      <3>2. BusyTyped
        BY DEF Typed, BusyTyped
      <3>3. QED
        BY <2>1, <3>1, <3>2 DEF BusyTyped, Only, At
  <1>9. ASSUME NEW c \in Chat, Show(c) PROVE BusyTyped'
    <2>1. busy'[c] \in Holds(c) /\ busy'[c].step # "show"
      BY <1>9, ShowHolds, HoldsSets
    <2>2. QED
      BY <1>9, <2>1, ShowHolds DEF Typed, BusyTyped, Only, At, Show
  <1>10. ASSUME NEW c \in Chat, Take(c) PROVE BusyTyped'
    BY <1>10, TakeHolds, HoldsSets, LockKept DEF Take, At
  <1>11. ASSUME NEW c \in Chat, Check(c) PROVE BusyTyped'
    BY <1>11, CheckHolds, HoldsSets, LockKept DEF Check, At, Restoring
  <1>12. ASSUME NEW c \in Chat, Restore(c) PROVE BusyTyped'
    BY <1>12, RestoreHolds, HoldsSets, LockKept DEF Restore, At
  <1>13. ASSUME NEW c \in Chat, Forget(c) PROVE BusyTyped'
    BY <1>13, ForgetHolds, HoldsSets, LockKept DEF Forget, At
  <1>14. ASSUME NEW c \in Chat, Lapse(c) PROVE BusyTyped'
    <2>1. CASE busy' = busy
      BY <1>14, <2>1 DEF Typed, BusyTyped, Lapse, At
    <2>2. CASE busy'[c] \in Undoing(c) /\ busy'[c].step = busy[c].step
               /\ busy'[c].open = busy[c].open
      BY <1>14, <2>2, LapseHolds, HoldsSets, LockKept DEF Lapse, At
    <2>3. QED
      BY <1>14, <2>1, <2>2, LapseHolds
  <1>15. CASE UNCHANGED <<busy, readers>>
    BY <1>15 DEF Typed, BusyTyped, At
  <1>16. CASE Restart
    BY <1>16, HoldsSets DEF Restart, BusyTyped, At
  <1>17. QED
    BY <1>1, <1>2, <1>3, <1>4, <1>5, <1>6, <1>7, <1>8, <1>9, <1>10, <1>11, <1>12,
       <1>13, <1>14, <1>15, <1>16
    DEF Next, vars, Triage, RefreshGauge, UndoTap, MoveElsewhere

(* The gauge shows a count of the slots, whenever it was made.             *)
LEMMA GaugeType ==
    ASSUME Typed, [Next]_vars
    PROVE  gauge' \in 0..Cardinality(Chat)
  <1>1. ASSUME NEW c \in Chat, Show(c) PROVE gauge' \in 0..Cardinality(Chat)
    <2>1. busy[c].open \in Nat /\ busy[c].open <= Cardinality(Chat)
      <3>1. busy[c] \in Showing(c) \cup Undoing(c) \cup Forgetting
        BY <1>1, Holding DEF Typed, Show, At
      <3>2. QED
        BY <1>1, <3>1 DEF Typed, Show, Showing, Undoing, Forgetting
    <2>2. QED
      BY <1>1, <2>1, OpenIsFinite DEF Show
  <1>2. CASE Restart
    BY <1>2, OpenIsFinite DEF Restart
  <1>3. CASE gauge' = gauge
    BY <1>3 DEF Typed
  <1>4. QED
    BY <1>1, <1>2, <1>3
    DEF Next, vars, Triage, RefreshGauge, UndoTap, TapTriage, TapUndo, MoveElsewhere,
        ReadMailboxes, MoveMessage, Answer, Record, Count, EditCard, Take, Check,
        Restore, Forget, Lapse

(* Mail is moved by a triage, an undo, or another client.                  *)
LEMMA MailMoves ==
    ASSUME Typed, [Next]_vars
    PROVE  \/ \E c \in Chat : MoveMessage(c) \/ Restore(c)
           \/ \E m \in Message : MoveElsewhere(m)
           \/ where' = where
  BY DEF Next, vars, Triage, RefreshGauge, UndoTap, TapTriage, TapUndo,
        ReadMailboxes, Answer, Record, Count, Show, EditCard, Take, Check,
        Forget, Lapse, Restart

(* What is owed for a message changes when it is triaged, when the answer   *)
(* to that is lost, when it is undone, and when nothing is owed any more.  *)
LEMMA DebtMoves ==
    ASSUME Typed, [Next]_vars
    PROVE  \/ \E c \in Chat : MoveMessage(c) \/ Answer(c) \/ Restore(c) \/ Forget(c)
           \/ Restart
           \/ last' = last
  BY DEF Next, vars, history, Triage, RefreshGauge, UndoTap, TapTriage, TapUndo,
        ReadMailboxes, Record, Count, Show, EditCard, Take, Check,
        Lapse, MoveElsewhere

LEMMA MailType ==
    ASSUME Typed, Owing, [Next]_vars
    PROVE  where' \in [Message -> Place] /\ last' \in [Message -> Triaged \cup {None}]
  <1>1. ASSUME NEW c \in Chat, MoveMessage(c)
        PROVE  where' \in [Message -> Place] /\ last' \in [Message -> Triaged \cup {None}]
    <2>1. busy[c] \in Moving(c)
      BY <1>1, Holding DEF Typed, MoveMessage, At
    <2>2. busy[c].msg \in Message /\ busy[c].to \in Place
      BY <2>1 DEF Moving, Shown
    <2>3. ASSUME NEW known \in BOOLEAN, Moves(c, known)
          PROVE  where' \in [Message -> Place] /\ last' \in [Message -> Triaged \cup {None}]
      <3> DEFINE debt == [from |-> where[busy[c].msg],
                          sure |-> known /\ busy[c].from = where[busy[c].msg]]
      <3>1. debt \in Triaged
        BY <2>2 DEF Typed, Triaged
      <3>2. last' = [last EXCEPT ![busy[c].msg] = debt]
            /\ where' = [where EXCEPT ![busy[c].msg] = busy[c].to]
        BY <2>3 DEF Moves
      <3> HIDE DEF debt
      <3>3. QED
        BY <2>2, <3>1, <3>2 DEF Typed
    <2>4. CASE UNCHANGED <<where, history>>
      BY <2>4 DEF Typed, history
    <2>5. QED
      BY <1>1, <2>3, <2>4, MoveHolds
  <1>2. ASSUME NEW c \in Chat, Restore(c)
        PROVE  where' \in [Message -> Place] /\ last' \in [Message -> Triaged \cup {None}]
    <2>1. busy[c].msg \in Message /\ busy[c].to \in Place
      BY <1>2, RestoreHolds DEF Restoring, Shown
    <2>2. QED
      BY <1>2, <2>1, RestoreHolds DEF Typed
  <1>3. ASSUME NEW m \in Message, MoveElsewhere(m)
        PROVE  where' \in [Message -> Place] /\ last' \in [Message -> Triaged \cup {None}]
    BY <1>3 DEF MoveElsewhere, history, Typed
  <1>4. CASE where' = where /\ last' = last
    BY <1>4 DEF Typed
  <1>5. ASSUME NEW c \in Chat, Answer(c)
        PROVE  where' \in [Message -> Place] /\ last' \in [Message -> Triaged \cup {None}]
    <2>1. CASE last' = last
      BY <1>5, <2>1 DEF Typed, Answer
    <2>2. CASE last' = [last EXCEPT ![busy[c].msg].sure = FALSE]
      <3>1. busy[c] \in Moving(c)
        BY <1>5, Holding DEF Typed, Answer, At
      <3>2. busy[c].msg \in Message /\ last[busy[c].msg] \in Triaged
        BY <1>5, <3>1 DEF Typed, Owing, OwingIn, Owed, Answer, At, Moving, Shown
      <3>3. [last[busy[c].msg] EXCEPT !.sure = FALSE] \in Triaged
        BY <3>2 DEF Triaged
      <3>4. last' = [last EXCEPT ![busy[c].msg] = [last[busy[c].msg] EXCEPT !.sure = FALSE]]
        BY <2>2
      <3>5. QED
        BY <1>5, <3>2, <3>3, <3>4 DEF Typed, Answer
    <2>3. QED
      BY <1>5, <2>1, <2>2, AnswerHolds
  <1>6. ASSUME NEW c \in Chat, Forget(c)
        PROVE  where' \in [Message -> Place] /\ last' \in [Message -> Triaged \cup {None}]
    BY <1>6, ForgetHolds DEF Typed, Forget
  <1>7. CASE Restart
    BY <1>7 DEF Restart, Typed
  <1>8. QED
    BY <1>1, <1>2, <1>3, <1>4, <1>5, <1>6, <1>7, MailMoves, DebtMoves

(* The slots, the cards and what is offered.                               *)
LEMMA SlotType ==
    ASSUME Typed, [Next]_vars
    PROVE  /\ pending' \in [Chat -> Slot \cup {None}]
           /\ \A c \in Chat : pending'[c] \in SlotsOf(c) \cup {None}
           /\ shown' \subseteq Message /\ DOMAIN offered' = Chat
  <1> DEFINE Goal == /\ pending' \in [Chat -> Slot \cup {None}]
                     /\ \A c \in Chat : pending'[c] \in SlotsOf(c) \cup {None}
                     /\ shown' \subseteq Message /\ DOMAIN offered' = Chat
  <1>0. \A c : SlotsOf(c) \subseteq Slot
    BY DEF SlotsOf, Shown, Slot
  <1>1. ASSUME NEW c \in Chat, Record(c) PROVE Goal
    <2> DEFINE slot == [msg |-> busy[c].msg, to |-> busy[c].from, fresh |-> TRUE]
    <2>1. pending' = [pending EXCEPT ![c] = slot]
      BY <1>1 DEF Record
    <2> HIDE DEF slot
    <2>2. slot \in Slot
      BY <1>0, <1>1, <2>1, RecordHolds DEF Typed
    <2>3. pending' \in [Chat -> Slot \cup {None}]
      BY <2>1, <2>2 DEF Typed
    <2>4. QED
      BY <1>1, <2>3, RecordHolds DEF Record, Typed, history
  <1>2. ASSUME NEW c \in Chat, Take(c) PROVE Goal
    BY <1>2, TakeHolds DEF Take, Typed
  <1>3. ASSUME NEW c \in Chat, Forget(c) PROVE Goal
    BY <1>3, ForgetHolds DEF Forget, Typed
  <1>4. ASSUME NEW c \in Chat, Lapse(c) PROVE Goal
    <2>1. pending' \in [Chat -> Slot \cup {None}]
      <3>1. CASE pending' = [pending EXCEPT ![c].fresh = FALSE]
        <4>1. pending' = [pending EXCEPT ![c] = [pending[c] EXCEPT !.fresh = FALSE]]
          BY <3>1
        <4>2. pending'[c] \in Slot \cup {None}
          BY <1>0, <1>4, LapseHolds DEF Typed
        <4>3. QED
          BY <4>1, <4>2 DEF Typed
      <3>2. CASE pending' = pending
        BY <3>2 DEF Typed
      <3>3. QED
        BY <1>4, <3>1, <3>2 DEF Lapse
    <2>2. QED
      BY <1>4, <2>1, LapseHolds DEF Lapse, Typed
  <1>5. ASSUME NEW c \in Chat, EditCard(c) PROVE Goal
    BY <1>5, EditHolds DEF EditCard, Typed, history
  <1>6. ASSUME NEW c \in Chat, Restore(c) PROVE Goal
    BY <1>6, RestoreHolds DEF Restore, Typed
  <1>7. CASE Restart
    BY <1>7 DEF Restart, Typed
  <1>8. ASSUME NEW c \in Chat, MoveMessage(c) PROVE Goal
    BY <1>8 DEF MoveMessage, Moves, Typed, history
  <1>9. CASE UNCHANGED <<pending, shown, offered>>
    BY <1>9 DEF Typed
  <1>10. QED
    BY <1>1, <1>2, <1>3, <1>4, <1>5, <1>6, <1>7, <1>8, <1>9
    DEF Next, vars, history, Triage, RefreshGauge, UndoTap, TapTriage, TapUndo,
        ReadMailboxes, Answer, Count, Show, Check, MoveElsewhere

LEMMA TypedStep == Typed /\ Owing /\ [Next]_vars => Typed'
  BY BusyStep, GaugeType, MailType, SlotType DEF Typed, BusyTyped

LEMMA TypedInit == Init => Typed
  <1>1. Init => BusyTyped
    BY HoldsSets DEF Init, BusyTyped, At
  <1>2. Init => where \in [Message -> Place] /\ last \in [Message -> Triaged \cup {None}]
    BY DEF Init
  <1>3. Init => gauge \in 0..Cardinality(Chat)
    BY OpenIsFinite DEF Init
  <1>4. QED
    BY <1>1, <1>2, <1>3 DEF Init, Typed, BusyTyped

-----------------------------------------------------------------------------
(* What is owed.                                                           *)
(* A handler that goes on leaves the other chats what they are owed.        *)
LEMMA OthersOwing ==
    ASSUME Typed, Owing, NEW c \in Chat, Only(c),
           \A d \in Chat \ {c} : pending'[d] = pending[d],
           \A m \in Message : ChatOf[m] # c => last'[m] = last[m],
           NEW d \in Chat \ {c}
    PROVE  OwingIn(d)'
  <1>1. /\ busy'[d] = busy[d] /\ pending'[d] = pending[d] /\ OwingIn(d)
        /\ busy[d] \in Holds(d) /\ pending[d] \in SlotsOf(d) \cup {None}
    BY DEF Only, Owing, Typed
  <1>3. pending[d] # None => pending[d].msg \in Shown(d)
    BY <1>1 DEF SlotsOf
  <1>4. busy[d].step \in {"answer", "record"} => busy[d].msg \in Shown(d)
    BY <1>1, Holding DEF Moving
  <1>5. busy[d] \in Undoing(d) /\ busy[d].got # None => busy[d].got.msg \in Shown(d)
    BY DEF Undoing, SlotsOf
  <1>6. At(d, "restore") => busy[d].msg \in Shown(d)
    BY <1>1, Holding DEF At, Restoring
  <1>7. pending[d] # None /\ ~Owed(pending[d].msg, pending[d].to) =>
          busy[d].step \in {"answer", "record"} /\ busy[d].msg = pending[d].msg
    BY <1>1 DEF OwingIn
  <1>8. pending'[d] # None =>
          \/ Owed(pending[d].msg, pending[d].to)'
          \/ busy'[d].step \in {"answer", "record"} /\ busy'[d].msg = pending'[d].msg
    <2> SUFFICES ASSUME pending[d] # None, Owed(pending[d].msg, pending[d].to)
                 PROVE  Owed(pending[d].msg, pending[d].to)'
      BY <1>1, <1>7
    <2>1. last'[pending[d].msg] = last[pending[d].msg]
      BY <1>3 DEF Shown
    <2>2. QED
      BY <1>1, <2>1 DEF Owed
  <1>9. busy'[d].step \in {"answer", "record"} => Owed(busy[d].msg, busy[d].from)'
    <2> SUFFICES ASSUME busy[d].step \in {"answer", "record"}
                 PROVE  Owed(busy[d].msg, busy[d].from)'
      BY <1>1
    <2>1. last'[busy[d].msg] = last[busy[d].msg] /\ Owed(busy[d].msg, busy[d].from)
      BY <1>1, <1>4 DEF Shown, OwingIn
    <2>2. QED
      BY <1>1, <2>1 DEF Owed
  <1>10. busy'[d] \in Undoing(d) =>
           /\ pending'[d] = None
           /\ busy'[d].got # None => Owed(busy[d].got.msg, busy[d].got.to)'
    <2> SUFFICES ASSUME busy[d] \in Undoing(d)
                 PROVE  /\ pending'[d] = None
                        /\ busy'[d].got # None => Owed(busy[d].got.msg, busy[d].got.to)'
      BY <1>1
    <2>1. pending[d] = None /\ (busy[d].got # None => Owed(busy[d].got.msg, busy[d].got.to))
      BY <1>1 DEF OwingIn
    <2>2. busy[d].got # None => last'[busy[d].got.msg] = last[busy[d].got.msg]
      BY <1>5 DEF Shown
    <2>3. QED
      BY <1>1, <2>1, <2>2 DEF Owed
  <1>11. At(d, "restore")' => pending'[d] = None /\ Owed(busy[d].msg, busy[d].to)'
    <2> SUFFICES ASSUME At(d, "restore")
                 PROVE  pending'[d] = None /\ Owed(busy[d].msg, busy[d].to)'
      BY <1>1 DEF At
    <2>1. /\ last'[busy[d].msg] = last[busy[d].msg] /\ Owed(busy[d].msg, busy[d].to)
          /\ pending[d] = None
      BY <1>1, <1>6 DEF Shown, OwingIn
    <2>2. QED
      BY <1>1, <2>1 DEF Owed
  <1>12. busy'[d] \in Undoing(d) <=> (busy[d] \in Undoing(d))'
    BY DEF Undoing, SlotsOf, Shown
  <1>13. QED
    BY <1>8, <1>9, <1>10, <1>11, <1>12 DEF OwingIn

LEMMA OneOwes ==
    ASSUME Typed, Owing, NEW c \in Chat, Only(c),
           \A d \in Chat \ {c} : pending'[d] = pending[d],
           \A m \in Message : ChatOf[m] # c => last'[m] = last[m],
           OwingIn(c)'
    PROVE  Owing'
  BY OthersOwing DEF Owing

(* An undo is in the slot, or out of it.                                   *)
LEMMA NotUndoing ==
    ASSUME NEW c
    PROVE  /\ Idle \notin Undoing(c)
           /\ \A h \in Reading(c) \cup Moving(c) \cup Taking(c) \cup Restoring(c)
                      \cup Showing(c) \cup Forgetting : h \notin Undoing(c)
  BY DEF Reading, Moving, Taking, Restoring, Showing, Forgetting, Undoing

LEMMA OwingStep == Typed /\ Owing /\ [Next]_vars => Owing'
  <1> SUFFICES ASSUME Typed, Owing, [Next]_vars PROVE Owing'
    OBVIOUS
  <1>1. ASSUME NEW m \in Message, NEW to \in Filed, TapTriage(m, to) PROVE Owing'
    <2> DEFINE c == ChatOf[m]
    <2>1. c \in Chat /\ Only(c) /\ busy'[c] \in Reading(c) /\ OwingIn(c)
          /\ pending' = pending /\ last' = last /\ At(c, "idle")
      BY <1>1, TapHolds DEF TapTriage, Owing, history
    <2> HIDE DEF c
    <2>2. OwingIn(c)'
      BY <2>1, NotUndoing DEF OwingIn, Owed, At, Reading
    <2>3. QED
      BY <2>1, <2>2, OneOwes
  <1>2. ASSUME NEW m \in Message, TapUndo(m) PROVE Owing'
    <2> DEFINE c == ChatOf[m]
    <2>1. c \in Chat /\ Only(c) /\ busy'[c] \in Taking(c) /\ OwingIn(c)
          /\ pending' = pending /\ last' = last /\ At(c, "idle")
      BY <1>2, UndoHolds DEF TapUndo, Owing, history
    <2> HIDE DEF c
    <2>2. OwingIn(c)'
      BY <2>1, NotUndoing DEF OwingIn, Owed, At, Taking
    <2>3. QED
      BY <2>1, <2>2, OneOwes
  <1>3. ASSUME NEW c \in Chat, ReadMailboxes(c) PROVE Owing'
    <2>1. OwingIn(c) /\ pending' = pending /\ last' = last /\ At(c, "read")
      BY <1>3 DEF ReadMailboxes, Owing, history
    <2>2. OwingIn(c)'
      BY <1>3, <2>1, ReadHolds, NotUndoing DEF OwingIn, Owed, At, Moving
    <2>3. QED
      BY <1>3, <2>1, <2>2, ReadHolds, OneOwes
  <1>4. ASSUME NEW c \in Chat, MoveMessage(c) PROVE Owing'
    <2>1. /\ OwingIn(c) /\ pending' = pending /\ At(c, "move") /\ busy[c] \in Moving(c)
          /\ pending[c] \in SlotsOf(c) \cup {None} /\ Only(c)
      BY <1>4, Holding, MoveHolds DEF MoveMessage, Owing, Typed, At
    <2>2. busy[c].msg \in Message /\ ChatOf[busy[c].msg] = c
      BY <2>1 DEF Moving, Shown
    <2>3. ASSUME NEW known \in BOOLEAN, Moves(c, known)
          PROVE  /\ \A m \in Message \ {busy[c].msg} : last'[m] = last[m]
                 /\ ~known => ~last'[busy[c].msg].sure
                 /\ last'[busy[c].msg] # None
                 /\ last'[busy[c].msg].sure => busy[c].from = last'[busy[c].msg].from
      <3> DEFINE debt == [from |-> where[busy[c].msg],
                          sure |-> known /\ busy[c].from = where[busy[c].msg]]
      <3>1. debt \in Triaged /\ (~known => ~debt.sure)
            /\ (debt.sure => busy[c].from = debt.from)
        BY <2>2 DEF Typed, Triaged
      <3>2. last' = [last EXCEPT ![busy[c].msg] = debt]
        BY <2>3 DEF Moves
      <3> HIDE DEF debt
      <3>3. /\ last'[busy[c].msg] = debt
            /\ \A m \in Message \ {busy[c].msg} : last'[m] = last[m]
        BY <2>2, <3>2 DEF Typed
      <3>4. QED
        BY <3>1, <3>3, DebtsAreOwed
    <2>4. CASE /\ Moves(c, TRUE)
               /\ busy'[c] \in Moving(c) /\ busy'[c].step = "answer"
               /\ busy'[c].msg = busy[c].msg /\ busy'[c].from = busy[c].from
      <3>1. /\ \A m \in Message \ {busy[c].msg} : last'[m] = last[m]
            /\ last'[busy[c].msg] # None
            /\ last'[busy[c].msg].sure => busy[c].from = last'[busy[c].msg].from
        BY <2>3, <2>4
      <3>2. OwingIn(c)'
        BY <2>1, <2>2, <2>4, <3>1, NotUndoing DEF OwingIn, Owed, At, SlotsOf, Shown
      <3>3. QED
        BY <2>1, <2>2, <3>1, <3>2, OneOwes
    <2>5. CASE busy'[c] = Idle /\ Moves(c, FALSE)
      <3>1. /\ \A m \in Message \ {busy[c].msg} : last'[m] = last[m]
            /\ last'[busy[c].msg] # None /\ ~last'[busy[c].msg].sure
        BY <2>3, <2>5
      <3>2. OwingIn(c)'
        BY <2>1, <2>2, <2>5, <3>1, NotUndoing DEF OwingIn, Owed, At, SlotsOf, Shown
      <3>3. QED
        BY <2>1, <2>2, <3>1, <3>2, OneOwes
    <2>6. CASE busy'[c] = Idle /\ last' = last
      <3>1. OwingIn(c)'
        BY <2>1, <2>6, NotUndoing DEF OwingIn, Owed, At
      <3>2. QED
        BY <2>1, <2>6, <3>1, OneOwes
    <2>7. QED
      BY <1>4, <2>4, <2>5, <2>6, MoveHolds DEF history
  <1>5. ASSUME NEW c \in Chat, Answer(c) PROVE Owing'
    <2>1. /\ OwingIn(c) /\ pending' = pending /\ At(c, "answer") /\ busy[c] \in Moving(c)
          /\ Only(c) /\ pending[c] \in SlotsOf(c) \cup {None}
      BY <1>5, Holding, AnswerHolds DEF Answer, Owing, Typed, At
    <2>2. CASE /\ busy'[c] \in Moving(c) /\ busy'[c].step = "record" /\ last' = last
               /\ busy'[c].msg = busy[c].msg /\ busy'[c].from = busy[c].from
      <3>1. OwingIn(c)'
        BY <2>1, <2>2, NotUndoing DEF OwingIn, Owed, At
      <3>2. QED
        BY <2>1, <2>2, <3>1, OneOwes
    <2>3. CASE busy'[c] = Idle /\ last' = [last EXCEPT ![busy[c].msg].sure = FALSE]
      <3>1. /\ busy[c].msg \in Message /\ ChatOf[busy[c].msg] = c
            /\ last[busy[c].msg] \in Triaged
        BY <2>1 DEF OwingIn, Owed, At, Moving, Shown, Typed
      <3>2. /\ \A m \in Message \ {busy[c].msg} : last'[m] = last[m]
            /\ last'[busy[c].msg] \in Triaged /\ ~last'[busy[c].msg].sure
        BY <2>3, <3>1 DEF Typed, Triaged
      <3>3. last'[busy[c].msg] # None
        BY <3>2, DebtsAreOwed
      <3>4. OwingIn(c)'
        BY <2>1, <2>3, <3>1, <3>2, <3>3, NotUndoing DEF OwingIn, Owed, At
      <3>5. QED
        BY <2>1, <3>1, <3>2, <3>4, OneOwes
    <2>4. QED
      BY <1>5, <2>2, <2>3, AnswerHolds
  <1>6. ASSUME NEW c \in Chat, Record(c) PROVE Owing'
    <2>1. /\ OwingIn(c) /\ last' = last /\ At(c, "record") /\ busy[c] \in Moving(c)
      BY <1>6, Holding DEF Record, Owing, Typed, At, history
    <2>2. OwingIn(c)'
      BY <1>6, <2>1, RecordHolds, NotUndoing DEF OwingIn, Owed, At
    <2>3. QED
      BY <1>6, <2>1, <2>2, RecordHolds, OneOwes
  <1>7. ASSUME NEW c \in Chat, EditCard(c) PROVE Owing'
    <2>1. OwingIn(c) /\ pending' = pending /\ last' = last /\ At(c, "edit")
      BY <1>7 DEF EditCard, Owing, history
    <2>2. OwingIn(c)'
      BY <1>7, <2>1, EditHolds, NotUndoing DEF OwingIn, Owed, At
    <2>3. QED
      BY <1>7, <2>1, <2>2, EditHolds, OneOwes
  <1>8. ASSUME NEW c \in Chat, Count(c) PROVE Owing'
    <2>1. OwingIn(c) /\ pending' = pending /\ last' = last /\ At(c, "count")
      BY <1>8 DEF Count, Owing, history
    <2>2. OwingIn(c)'
      BY <1>8, <2>1, CountHolds, NotUndoing DEF OwingIn, Owed, At
    <2>3. QED
      BY <1>8, <2>1, <2>2, CountHolds, OneOwes
  <1>9. ASSUME NEW c \in Chat, Show(c) PROVE Owing'
    <2>1. OwingIn(c) /\ pending' = pending /\ last' = last /\ At(c, "show")
      BY <1>9 DEF Show, Owing, history
    <2>2. OwingIn(c)'
      BY <1>9, <2>1, ShowHolds, NotUndoing DEF OwingIn, Owed, At
    <2>3. QED
      BY <1>9, <2>1, <2>2, ShowHolds, OneOwes
  <1>10. ASSUME NEW c \in Chat, Take(c) PROVE Owing'
    <2>1. OwingIn(c) /\ last' = last /\ At(c, "take")
      BY <1>10 DEF Take, Owing
    <2>2. OwingIn(c)'
      BY <1>10, <2>1, TakeHolds DEF OwingIn, Owed, At
    <2>3. QED
      BY <1>10, <2>1, <2>2, TakeHolds, OneOwes
  <1>11. ASSUME NEW c \in Chat, Check(c) PROVE Owing'
    <2>1. OwingIn(c) /\ last' = last /\ pending' = pending /\ At(c, "check")
      BY <1>11 DEF Check, Owing, history
    <2>2. OwingIn(c)'
      BY <1>11, <2>1, CheckHolds, NotUndoing DEF OwingIn, Owed, At, Restoring
    <2>3. QED
      BY <1>11, <2>1, <2>2, CheckHolds, OneOwes
  <1>12. ASSUME NEW c \in Chat, Restore(c) PROVE Owing'
    <2>1. OwingIn(c) /\ pending' = pending /\ At(c, "restore") /\ busy[c].msg \in Shown(c)
      BY <1>12, RestoreHolds DEF Restore, Owing, Restoring
    <2>2. OwingIn(c)'
      BY <1>12, <2>1, RestoreHolds, NotUndoing DEF OwingIn, Owed, At
    <2>3. \A m \in Message : ChatOf[m] # c => last'[m] = last[m]
      BY <1>12, <2>1, RestoreHolds DEF Shown, Typed
    <2>4. QED
      BY <1>12, <2>1, <2>2, <2>3, RestoreHolds, OneOwes
  <1>13. ASSUME NEW c \in Chat, Forget(c) PROVE Owing'
    <2>1. OwingIn(c)'
      BY <1>13, ForgetHolds, NotUndoing DEF OwingIn, At
    <2>2. QED
      BY <1>13, <2>1, ForgetHolds, OneOwes
  <1>14. ASSUME NEW c \in Chat, Lapse(c) PROVE Owing'
    <2>1. OwingIn(c) /\ last' = last
      BY <1>14 DEF Lapse, Owing
    <2>2. ASSUME /\ busy' = busy /\ pending[c] # None
                 /\ pending'[c] \in SlotsOf(c)
                 /\ pending'[c].msg = pending[c].msg /\ pending'[c].to = pending[c].to
          PROVE  OwingIn(c)'
      <3>1. busy[c] \notin Undoing(c) /\ ~At(c, "restore")
        BY <2>1, <2>2 DEF OwingIn
      <3>2. \/ Owed(pending[c].msg, pending[c].to)
            \/ busy[c].step \in {"answer", "record"} /\ busy[c].msg = pending[c].msg
        BY <2>1, <2>2 DEF OwingIn
      <3>3. busy[c].step \in {"answer", "record"} => Owed(busy[c].msg, busy[c].from)
        BY <2>1 DEF OwingIn
      <3>4. QED
        BY <2>1, <2>2, <3>1, <3>2, <3>3 DEF OwingIn, Owed, At
    <2>3. ASSUME /\ pending' = pending /\ busy[c] \in Undoing(c) /\ busy'[c] \in Undoing(c)
                 /\ busy'[c].step = busy[c].step /\ busy'[c].open = busy[c].open
                 /\ busy[c].got # None /\ busy'[c].got # None
                 /\ busy'[c].got.msg = busy[c].got.msg
                 /\ busy'[c].got.to = busy[c].got.to
          PROVE  OwingIn(c)'
      <3>1. /\ busy'[c].step \notin {"answer", "record"}
            /\ ~At(c, "restore")'
        BY <2>3 DEF Undoing, At
      <3>2. pending[c] = None /\ Owed(busy[c].got.msg, busy[c].got.to)
        BY <2>1, <2>3 DEF OwingIn
      <3>3. Owed(busy[c].got.msg, busy[c].got.to)'
        BY <2>1, <2>3, <3>2 DEF Owed
      <3>4. pending'[c] = None
        BY <2>3, <3>2
      <3>5. QED
        BY <3>1, <3>3, <3>4 DEF OwingIn
    <2>4. OwingIn(c)'
      <3>1. \/ /\ busy' = busy /\ pending[c] # None
               /\ pending'[c] \in SlotsOf(c)
               /\ pending'[c].msg = pending[c].msg /\ pending'[c].to = pending[c].to
            \/ /\ pending' = pending /\ busy[c] \in Undoing(c) /\ busy'[c] \in Undoing(c)
               /\ busy'[c].step = busy[c].step /\ busy'[c].open = busy[c].open
               /\ busy[c].got # None /\ busy'[c].got # None
               /\ busy'[c].got.msg = busy[c].got.msg
               /\ busy'[c].got.to = busy[c].got.to
        BY <1>14, LapseHolds
      <3>2. QED
        BY <2>2, <2>3, <3>1
    <2>5. QED
      BY <1>14, <2>1, <2>4, LapseHolds, OneOwes
  <1>15. CASE UNCHANGED <<busy, pending, last>>
    BY <1>15 DEF Owing, OwingIn, Owed, At
  <1>16. CASE Restart
    BY <1>16, NotUndoing DEF Restart, Owing, OwingIn, At
  <1>17. QED
    BY <1>1, <1>2, <1>3, <1>4, <1>5, <1>6, <1>7, <1>8, <1>9, <1>10, <1>11, <1>12,
       <1>13, <1>14, <1>15, <1>16
    DEF Next, vars, history, Triage, RefreshGauge, UndoTap, MoveElsewhere

-----------------------------------------------------------------------------
(* The gauge.                                                              *)

(* A count made under the read lock stays right until it is stored.        *)
Counted ==
    /\ GaugeIsExact
    /\ \A c \in Chat : At(c, "show") => busy[c].open = Cardinality(Open)

(* A step that touches neither slots nor gauge, nor what anyone counts.    *)
LEMMA CountKept ==
    ASSUME Typed, Counted, NEW c \in Chat, Only(c), Open' = Open, gauge' = gauge,
           busy[c].step \notin {"count", "show"}, busy'[c].step \notin {"count", "show"}
    PROVE  Counted'
  <1>1. \A d \in Chat : At(d, "show")' <=> At(d, "show")
    BY DEF At, Only
  <1>2. \A d \in Chat : At(d, "count")' <=> At(d, "count")
    BY DEF At, Only
  <1>3. \A d \in Chat : At(d, "show") => busy'[d] = busy[d]
    BY DEF At, Only
  <1>4. QED
    BY <1>1, <1>2, <1>3 DEF Counted, GaugeIsExact

(* The slots change only while no one counts, and then a count follows.    *)
LEMMA RecountDue ==
    ASSUME Typed, NEW c \in Chat, Only(c), CanWrite, busy[c].step # "show",
           busy'[c].step = "count"
    PROVE  Counted'
  <1>1. \A d \in Chat : ~At(d, "show")
    BY DEF Typed, CanWrite
  <1>2. At(c, "count")' /\ \A d \in Chat : ~At(d, "show")'
    BY <1>1 DEF At, Only
  <1>3. QED
    BY <1>2 DEF Counted, GaugeIsExact

LEMMA CountedStep == Typed /\ Counted /\ [Next]_vars => Counted'
  <1> SUFFICES ASSUME Typed, Counted, [Next]_vars PROVE Counted'
    OBVIOUS
  <1>1. ASSUME NEW m \in Message, NEW to \in Filed, TapTriage(m, to) PROVE Counted'
    BY <1>1, TapHolds, CountKept DEF TapTriage, At, Reading, Open
  <1>2. ASSUME NEW m \in Message, TapUndo(m) PROVE Counted'
    BY <1>2, UndoHolds, CountKept DEF TapUndo, At, Taking, Open
  <1>3. ASSUME NEW c \in Chat, ReadMailboxes(c) PROVE Counted'
    BY <1>3, ReadHolds, CountKept DEF ReadMailboxes, At, Open
  <1>4. ASSUME NEW c \in Chat, MoveMessage(c) PROVE Counted'
    <2>1. Only(c) /\ busy'[c].step \notin {"count", "show"}
      <3>1. Only(c) /\ (busy'[c] # Idle => busy'[c].step = "answer")
        BY <1>4, MoveHolds
      <3>2. QED
        BY <3>1
    <2>2. busy[c].step \notin {"count", "show"} /\ Open' = Open /\ gauge' = gauge
      BY <1>4 DEF MoveMessage, At, Open
    <2>3. QED
      BY <2>1, <2>2, CountKept
  <1>5. ASSUME NEW c \in Chat, Answer(c) PROVE Counted'
    BY <1>5, AnswerHolds, CountKept DEF Answer, At, Open
  <1>6. ASSUME NEW c \in Chat, Record(c) PROVE Counted'
    BY <1>6, RecordHolds, RecountDue DEF Record, At
  <1>7. ASSUME NEW c \in Chat, EditCard(c) PROVE Counted'
    BY <1>7, EditHolds, CountKept DEF EditCard, At, Open
  <1>8. ASSUME NEW c \in Chat, Count(c) PROVE Counted'
    <2>1. Open' = Open /\ At(c, "show")' /\ busy'[c].open = Cardinality(Open)
      BY <1>8, CountHolds DEF Count, Open, At
    <2>2. \A d \in Chat \ {c} : At(d, "show")' => busy'[d].open = Cardinality(Open)
      BY <1>8, CountHolds DEF Counted, Only, At
    <2>3. QED
      BY <2>1, <2>2 DEF Counted, GaugeIsExact
  <1>9. ASSUME NEW c \in Chat, Show(c) PROVE Counted'
    <2>1. Open' = Open /\ gauge' = Cardinality(Open)
      BY <1>9 DEF Show, Open, Counted
    <2>2. Only(c) /\ busy'[c].step # "show"
      BY <1>9, ShowHolds
    <2>3. \A d \in Chat : At(d, "show")' => busy'[d].open = Cardinality(Open)
      BY <2>2 DEF Counted, Only, At
    <2>4. QED
      BY <2>1, <2>3 DEF Counted, GaugeIsExact
  <1>10. ASSUME NEW c \in Chat, Take(c) PROVE Counted'
    BY <1>10, TakeHolds, RecountDue DEF Take, At
  <1>11. ASSUME NEW c \in Chat, Check(c) PROVE Counted'
    BY <1>11, CheckHolds, CountKept DEF Check, At, Restoring, Open
  <1>12. ASSUME NEW c \in Chat, Restore(c) PROVE Counted'
    BY <1>12, RestoreHolds, CountKept DEF Restore, At, Open
  <1>13. ASSUME NEW c \in Chat, Forget(c) PROVE Counted'
    BY <1>13, ForgetHolds, RecountDue DEF Forget, At
  <1>14. ASSUME NEW c \in Chat, Lapse(c) PROVE Counted'
    <2>1. Open' = Open /\ gauge' = gauge
      <3>1. \A d \in Chat : pending'[d] # None <=> pending[d] # None
        BY <1>14, LapseHolds, SlotsAreOpen
      <3>2. QED
        BY <1>14, <3>1 DEF Open, Lapse
    <2>2. \A d \in Chat : busy'[d].step = busy[d].step
                         /\ (At(d, "show") => busy'[d].open = busy[d].open)
      BY <1>14, LapseHolds DEF Only
    <2>3. QED
      BY <2>1, <2>2 DEF Counted, GaugeIsExact, At
  <1>15. CASE UNCHANGED <<busy, pending, gauge>>
    BY <1>15 DEF Counted, GaugeIsExact, At, Open
  <1>16. CASE Restart
    <2>1. Open' = {}
      BY <1>16 DEF Restart, Open
    <2>2. gauge' = Cardinality(Open') /\ \A c \in Chat : ~At(c, "show")'
      BY <1>16, <2>1, FS_EmptySet DEF Restart, At
    <2>3. QED
      BY <2>2 DEF Counted, GaugeIsExact
  <1>17. QED
    BY <1>1, <1>2, <1>3, <1>4, <1>5, <1>6, <1>7, <1>8, <1>9, <1>10, <1>11, <1>12,
       <1>13, <1>14, <1>15, <1>16
    DEF Next, vars, Triage, RefreshGauge, UndoTap, MoveElsewhere

-----------------------------------------------------------------------------
(* The theorems.                                                           *)

IInv == Typed /\ Counted /\ Owing

LEMMA IInvInit == Init => IInv
  <1> SUFFICES ASSUME Init PROVE IInv
    OBVIOUS
  <1>1. \A c \in Chat : ~At(c, "show")
    BY DEF Init, At
  <1>2. gauge = Cardinality(Open)
    <2>1. Open = {}
      BY DEF Init, Open
    <2>2. QED
      BY <2>1, FS_EmptySet DEF Init
  <1>3. Owing
    BY NotUndoing DEF Init, Owing, OwingIn, At
  <1>4. QED
    BY <1>1, <1>2, <1>3, TypedInit DEF IInv, Counted, GaugeIsExact

LEMMA IInvStep == IInv /\ [Next]_vars => IInv'
  BY TypedStep, CountedStep, OwingStep DEF IInv

LEMMA Invariance == Spec => []IInv
  BY IInvInit, IInvStep, PTL DEF Spec

(* The handler that takes a step, which is no restoring one unless it       *)
(* restores.                                                               *)
Leaves(c) == Only(c) /\ (Restore(c) \/ busy[c].step # "restore")

LEMMA HandlerMoves ==
    ASSUME Typed, [Next]_vars
    PROVE  Restart \/ UNCHANGED busy \/ \E c \in Chat : Leaves(c)
  <1>1. ASSUME NEW m \in Message, NEW to \in Filed, TapTriage(m, to)
        PROVE  \E c \in Chat : Leaves(c)
    BY <1>1, TapHolds DEF TapTriage, At, Leaves
  <1>2. ASSUME NEW m \in Message, TapUndo(m) PROVE \E c \in Chat : Leaves(c)
    BY <1>2, UndoHolds DEF TapUndo, At, Leaves
  <1>3. ASSUME NEW c \in Chat, Triage(c) PROVE Leaves(c)
    <2>1. Only(c)
      BY <1>3, ReadHolds, MoveHolds, AnswerHolds, RecordHolds, EditHolds DEF Triage
    <2>2. busy[c].step # "restore"
      BY <1>3 DEF Triage, At, ReadMailboxes, MoveMessage, Answer, Record, EditCard
    <2>3. QED
      BY <2>1, <2>2 DEF Leaves
  <1>4. ASSUME NEW c \in Chat, RefreshGauge(c) PROVE Leaves(c)
    BY <1>4, CountHolds, ShowHolds DEF RefreshGauge, Leaves, At, Count, Show
  <1>5. ASSUME NEW c \in Chat, UndoTap(c) PROVE Leaves(c)
    BY <1>5, TakeHolds, CheckHolds, RestoreHolds DEF UndoTap, Leaves, At, Take, Check
  <1>6. ASSUME NEW c \in Chat, Forget(c) PROVE Leaves(c)
    BY <1>6, ForgetHolds DEF Forget, Leaves, At
  <1>7. ASSUME NEW c \in Chat, Lapse(c) PROVE UNCHANGED busy \/ Leaves(c)
    BY <1>7, LapseHolds DEF Undoing, Leaves
  <1>8. QED
    BY <1>1, <1>2, <1>3, <1>4, <1>5, <1>6, <1>7 DEF Next, vars, MoveElsewhere

(* The maps, the lock and what each handler holds keep their types.        *)
THEOREM TypeCorrect == Spec => []TypeOK
  <1>1. Typed => TypeOK
    <2> SUFFICES ASSUME Typed PROVE TypeOK
      OBVIOUS
    <2>2. \A c \in Chat : pending[c] # None => ChatOf[pending[c].msg] = c
      BY DEF Typed, SlotsOf, Shown
    <2>3. \A c \in Chat : busy[c].step \in Step \cup {"idle"}
      BY Holding DEF Typed
    <2>4. QED
      BY <2>2, <2>3 DEF Typed, TypeOK
  <1>2. QED
    BY <1>1, Invariance, PTL DEF IInv

(* However the chats' triages, undos and counts interleave, and for any     *)
(* number of chats, the gauge shows the number of pending undos whenever no *)
(* count is under way.                                                     *)
THEOREM GaugeNeverDrifts == Spec => []GaugeIsExact
  <1>1. IInv => GaugeIsExact
    BY DEF IInv, Counted
  <1>2. QED
    BY <1>1, Invariance, PTL

(* An undo restores what the last triage of the message moved, and only     *)
(* that.                                                                   *)
THEOREM UndoIsExact == Spec => RestoreIsExact
  <1> DEFINE Exact(c) ==
        At(c, "restore") /\ ~At(c, "restore")'
          => /\ last[busy[c].msg] # None
             /\ last[busy[c].msg].sure =>
                  where'[busy[c].msg] \in {where[busy[c].msg], last[busy[c].msg].from}
  <1>1. ASSUME IInv, [Next]_vars, NEW c \in Chat PROVE Exact(c)
    <2> SUFFICES ASSUME At(c, "restore"), ~At(c, "restore")' PROVE Exact(c)
      OBVIOUS
    <2>1. Owed(busy[c].msg, busy[c].to) /\ busy[c].msg \in Message
      BY <1>1, Holding DEF IInv, Typed, Owing, OwingIn, At, Restoring, Shown
    <2>2. Restore(c) \/ Restart
      <3>1. ASSUME NEW d \in Chat, Leaves(d), ~Restore(d) PROVE FALSE
        BY <3>1 DEF Leaves, Only, At
      <3>2. ~UNCHANGED busy
        BY DEF At
      <3>3. PICK d \in Chat : Leaves(d) \/ Restart
        BY <1>1, <3>2, HandlerMoves DEF IInv
      <3>4. CASE Restart
        BY <3>4
      <3>5. CASE Leaves(d)
        <4>1. Restore(d)
          BY <3>1, <3>5
        <4>2. d = c
          BY <3>5 DEF Leaves, Only, At
        <4>3. QED
          BY <4>1, <4>2
      <3>6. QED
        BY <3>3, <3>4, <3>5
    <2>3. where'[busy[c].msg] \in {where[busy[c].msg], busy[c].to}
      BY <1>1, <2>1, <2>2, RestoreHolds DEF IInv, Typed, Restart
    <2>4. QED
      BY <2>1, <2>3 DEF Owed
  <1>2. IInv /\ [Next]_vars => [\A c \in Chat : Exact(c)]_vars
    BY <1>1
  <1>3. QED
    BY <1>2, Invariance, PTL DEF Spec, RestoreIsExact

====
