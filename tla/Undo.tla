-------------------------------- MODULE Undo --------------------------------
(***************************************************************************)
(* Triage and its undo: perform_triage_action and the "u" arm of           *)
(* callback_handler in src/bot.rs, the one pending undo per chat and its   *)
(* gauge in src/state.rs. The taps of a chat are handled one at a time,    *)
(* those of several chats side by side; other mail clients move messages   *)
(* at any moment.                                                          *)
(***************************************************************************)
EXTENDS Integers, FiniteSets

CONSTANTS
    Chat,
    Message,   \* messages shown in some chat, each with its account
    ChatOf,    \* the chat a message is shown in
    Home,      \* the sets of mailboxes other mail clients file messages in
    Filed,     \* the mailbox sets of archive, junk and delete
    MayLose,   \* whether Telegram may fail to take the answer to a tap
    MaxTriages, MaxMoves, MaxRestarts \* bounds

ASSUME UndoAssumption ==
    /\ ChatOf \in [Message -> Chat] /\ IsFiniteSet(Chat)
    /\ MaxTriages \in Nat /\ MaxMoves \in Nat /\ MaxRestarts \in Nat
    /\ MayLose \in BOOLEAN

Place == Home \cup Filed
None == <<>>

(* A PendingUndo: the account travels with the message, and the deadline   *)
(* is kept as whether it has passed.                                       *)
Slot == [msg: Message, to: Place, fresh: BOOLEAN]

Step == {"read", "move", "answer", "record", "count", "show", "edit",
         "take", "check", "restore"}
Idle == [step |-> "idle"]

VARIABLES
    where,   \* the mailboxes each message is in, on the mail server
    pending, \* state.pending_undo: per chat, a slot or None
    gauge,   \* metrics.pending_undos
    busy,    \* per chat, the handler at work: Idle, or what it holds
    readers, \* the chats whose handler holds pending_undo's read lock
    shown,   \* the messages that have an Undo button on some card
    last,    \* history: per message, the last triage not undone yet, or None
    offered, \* history: per chat, the message whose undo should work, or None
    triages, moves, restarts \* how often so far

history == <<last, offered>>
bounds == <<triages, moves, restarts>>
vars == <<where, pending, gauge, busy, readers, shown, history, bounds>>

Ends(c) == busy' = [busy EXCEPT ![c] = Idle]
Goes(c, step) == busy' = [busy EXCEPT ![c].step = step]
At(c, step) == busy[c].step = step

(* Mutant: the map is changed while another task reads it.                 *)
CanWriteAlways == TRUE

(* The RwLock of pending_undo: no writer while someone reads.              *)
CanWrite == readers = {}

-----------------------------------------------------------------------------
(* Triage.                                                                 *)

(* A tap on Archive, Spam or Delete, on any card of the message.           *)
TapTriage(m, to) ==
    LET c == ChatOf[m] IN
    /\ At(c, "idle") /\ triages < MaxTriages
    /\ triages' = triages + 1
    /\ busy' = [busy EXCEPT ![c] = [step |-> "read", msg |-> m, to |-> to]]
    /\ UNCHANGED <<where, pending, gauge, readers, shown, history, moves, restarts>>

(* mailbox_ids_of; when it fails, the tap is answered and that is all.     *)
ReadMailboxes(c) ==
    /\ At(c, "read")
    /\ \/ Ends(c)
       \/ busy' = [busy EXCEPT ![c] = [step |-> "move", msg |-> @.msg, to |-> @.to,
                                       from |-> where[@.msg]]]
    /\ UNCHANGED <<where, pending, gauge, readers, shown, history, bounds>>

(* The move, in one request. History: where the message really came from,  *)
(* and whether the undo to be recorded, if any, will take it back there.   *)
Moves(c, known) ==
    LET m == busy[c].msg IN
    /\ where' = [where EXCEPT ![m] = busy[c].to]
    /\ last' = [last EXCEPT ![m] =
                   [from |-> where[m], sure |-> known /\ busy[c].from = where[m]]]
    /\ offered' = [offered EXCEPT ![c] = IF known THEN m ELSE None]

(* The server did it; or it did and the reply was lost; or it did not.     *)
MoveMessage(c) ==
    /\ At(c, "move")
    /\ \/ Moves(c, TRUE) /\ Goes(c, "answer")
       \/ Moves(c, FALSE) /\ Ends(c)
       \/ Ends(c) /\ UNCHANGED <<where, history>>
    /\ UNCHANGED <<pending, gauge, readers, shown, bounds>>

(* answer_callback_query, whose failure ends the handler.                  *)
Answer(c) ==
    /\ At(c, "answer")
    /\ \/ Goes(c, "record") /\ UNCHANGED last
       \/ MayLose /\ Ends(c) /\ last' = [last EXCEPT ![busy[c].msg].sure = FALSE]
    /\ UNCHANGED <<where, pending, gauge, readers, shown, offered, bounds>>

Record(c) ==
    /\ At(c, "record") /\ CanWrite
    /\ pending' = [pending EXCEPT ![c] =
                      [msg |-> busy[c].msg, to |-> busy[c].from, fresh |-> TRUE]]
    /\ busy' = [busy EXCEPT ![c] =
                   [step |-> "count", then |-> "edit", open |-> 0, msg |-> @.msg]]
    /\ UNCHANGED <<where, gauge, readers, shown, history, bounds>>

-----------------------------------------------------------------------------
(* refresh_undo_gauge: the count is stored before its read lock is let go. *)

Open == {c \in Chat : pending[c] # None}

Count(c) ==
    /\ At(c, "count")
    /\ readers' = readers \cup {c}
    /\ busy' = [busy EXCEPT ![c].step = "show", ![c].open = Cardinality(Open)]
    /\ UNCHANGED <<where, pending, gauge, shown, history, bounds>>

(* Mutant: the read lock is never let go.                                  *)
ShowKeepsLock(c) ==
    /\ At(c, "show")
    /\ gauge' = busy[c].open
    /\ IF busy[c].then = "idle"
       THEN Ends(c)
       ELSE busy' = [busy EXCEPT ![c].step = busy[c].then, ![c].open = 0]
    /\ UNCHANGED <<where, pending, readers, shown, history, bounds>>

Show(c) ==
    /\ At(c, "show")
    /\ gauge' = busy[c].open
    /\ readers' = readers \ {c}
    /\ IF busy[c].then = "idle"
       THEN Ends(c)
       ELSE busy' = [busy EXCEPT ![c].step = busy[c].then, ![c].open = 0]
    /\ UNCHANGED <<where, pending, shown, history, bounds>>

(* The card gets its Undo button; a failed edit is ignored.                *)
EditCard(c) ==
    /\ At(c, "edit")
    /\ \/ shown' = shown \cup {busy[c].msg}
       \/ UNCHANGED shown
    /\ Ends(c)
    /\ UNCHANGED <<where, pending, gauge, readers, history, bounds>>

-----------------------------------------------------------------------------
(* Undo.                                                                   *)

TapUndo(m) ==
    LET c == ChatOf[m] IN
    /\ At(c, "idle") /\ m \in shown
    /\ busy' = [busy EXCEPT ![c] = [step |-> "take", msg |-> m]]
    /\ UNCHANGED <<where, pending, gauge, readers, shown, history, bounds>>

(* History: an undo that is tried is no longer owed.                       *)
Tried(c, m) ==
    offered' = [offered EXCEPT ![c] = IF @ = m THEN None ELSE @]

(* Mutant: the slot is looked at and left where it is.                     *)
TakeCopies(c) ==
    /\ At(c, "take") /\ CanWrite
    /\ busy' = [busy EXCEPT ![c] =
                   [step |-> "count", then |-> "check", open |-> 0,
                    msg |-> @.msg, got |-> pending[c]]]
    /\ UNCHANGED pending
    /\ Tried(c, busy[c].msg)
    /\ UNCHANGED <<where, gauge, readers, shown, last, bounds>>

(* Whatever the slot holds is taken out of it.                             *)
Take(c) ==
    /\ At(c, "take") /\ CanWrite
    /\ busy' = [busy EXCEPT ![c] =
                   [step |-> "count", then |-> "check", open |-> 0,
                    msg |-> @.msg, got |-> pending[c]]]
    /\ pending' = [pending EXCEPT ![c] = None]
    /\ Tried(c, busy[c].msg)
    /\ UNCHANGED <<where, gauge, readers, shown, last, bounds>>

(* An expired undo, or one of another message, is only answered.           *)
Check(c) ==
    LET got == busy[c].got IN
    /\ At(c, "check")
    /\ IF got # None /\ got.fresh /\ got.msg = busy[c].msg
       THEN busy' = [busy EXCEPT ![c] =
                        [step |-> "restore", msg |-> @.msg, to |-> got.to]]
       ELSE Ends(c)
    /\ UNCHANGED <<where, pending, gauge, readers, shown, history, bounds>>

(* restore_mailboxes; it too may fail, with or without having worked. The   *)
(* card then gets its menu back, when Telegram takes the answer and the     *)
(* edit and no other card of the message has the button.                    *)
Restore(c) ==
    LET m == busy[c].msg IN
    /\ At(c, "restore")
    /\ \/ /\ where' = [where EXCEPT ![m] = busy[c].to]
          /\ last' = [last EXCEPT ![m] = None]
          /\ shown' \in {shown, shown \ {m}}
       \/ UNCHANGED <<where, last, shown>>
    /\ Ends(c)
    /\ UNCHANGED <<pending, gauge, readers, offered, bounds>>

-----------------------------------------------------------------------------
(* /logout, other mail clients, time and restarts.                         *)

(* AppState::forget; a tap after it works again once there is a login.     *)
Forget(c) ==
    /\ At(c, "idle") /\ CanWrite
    /\ pending' = [pending EXCEPT ![c] = None]
    /\ busy' = [busy EXCEPT ![c] = [step |-> "count", then |-> "idle", open |-> 0]]
    /\ last' = [m \in Message |-> IF ChatOf[m] = c THEN None ELSE last[m]]
    /\ offered' = [offered EXCEPT ![c] = None]
    /\ UNCHANGED <<where, gauge, readers, shown, bounds>>

MoveElsewhere(m) ==
    /\ moves < MaxMoves
    /\ moves' = moves + 1
    /\ \E place \in Home \ {where[m]} : where' = [where EXCEPT ![m] = place]
    /\ UNCHANGED <<pending, gauge, busy, readers, shown, history, triages, restarts>>

(* The thirty seconds of UNDO_WINDOW pass, for the slot or for what a       *)
(* handler took out of it.                                                  *)
Lapse(c) ==
    /\ \/ /\ pending[c] # None /\ pending[c].fresh
          /\ pending' = [pending EXCEPT ![c].fresh = FALSE]
          /\ offered' = [offered EXCEPT ![c] = None]
          /\ UNCHANGED busy
       \/ /\ "got" \in DOMAIN busy[c] /\ busy[c].got # None /\ busy[c].got.fresh
          /\ busy' = [busy EXCEPT ![c].got.fresh = FALSE]
          /\ UNCHANGED <<pending, offered>>
    /\ UNCHANGED <<where, gauge, readers, shown, last, bounds>>

(* Nothing of this survives the process: only the cards and the mail do.   *)
Restart ==
    /\ restarts < MaxRestarts
    /\ restarts' = restarts + 1
    /\ pending' = [c \in Chat |-> None] /\ gauge' = 0
    /\ busy' = [c \in Chat |-> Idle] /\ readers' = {}
    /\ last' = [m \in Message |-> None]
    /\ offered' = [c \in Chat |-> None]
    /\ UNCHANGED <<where, shown, triages, moves>>

-----------------------------------------------------------------------------

Init ==
    /\ where \in [Message -> Home]
    /\ pending = [c \in Chat |-> None] /\ gauge = 0
    /\ busy = [c \in Chat |-> Idle] /\ readers = {} /\ shown = {}
    /\ last = [m \in Message |-> None] /\ offered = [c \in Chat |-> None]
    /\ triages = 0 /\ moves = 0 /\ restarts = 0

Triage(c) ==
    ReadMailboxes(c) \/ MoveMessage(c) \/ Answer(c) \/ Record(c) \/ EditCard(c)

RefreshGauge(c) == Count(c) \/ Show(c)

UndoTap(c) == Take(c) \/ Check(c) \/ Restore(c)

Next ==
    \/ \E m \in Message, to \in Filed : TapTriage(m, to)
    \/ \E m \in Message : TapUndo(m) \/ MoveElsewhere(m)
    \/ \E c \in Chat : \/ Triage(c) \/ RefreshGauge(c) \/ UndoTap(c)
                       \/ Forget(c) \/ Lapse(c)
    \/ Restart

Spec == Init /\ [][Next]_vars

-----------------------------------------------------------------------------
(* Properties.                                                             *)

TypeOK ==
    /\ where \in [Message -> Place]
    /\ pending \in [Chat -> Slot \cup {None}]
    /\ \A c \in Chat : pending[c] # None => ChatOf[pending[c].msg] = c
    /\ gauge \in 0..Cardinality(Chat)
    /\ \A c \in Chat : busy[c].step \in Step \cup {"idle"}
    /\ readers = {c \in Chat : At(c, "show")}
    /\ shown \subseteq Message

(* state.rs:86-88 says that the gauge never drifts from the map. It holds   *)
(* because the count is stored under the read lock it was taken under: two  *)
(* chats may count at the same time, but no one changes the map in between. *)
GaugeIsExact ==
    (\A c \in Chat : ~At(c, "count") /\ ~At(c, "show"))
        => gauge = Cardinality(Open)

(* An undo that restores a message undoes a triage of that message, made by *)
(* this process since the last login and not undone before, and puts the    *)
(* message in the mailboxes it was in right before it: unless another mail  *)
(* client moved the message between the read and the move, or a later move  *)
(* of the same message was left without its undo.                           *)
RestoreIsExact ==
    [][\A c \in Chat : LET m == busy[c].msg IN
          At(c, "restore") /\ ~At(c, "restore")'
              => /\ last[m] # None
                 /\ last[m].sure => where'[m] \in {where[m], last[m].from}]_vars

(* README.md:265-267 says that every triage action leaves an Undo that can  *)
(* be used for thirty seconds. A tap on the dead Undo button of an earlier  *)
(* message takes the chat's one slot, and the last action loses its undo.   *)
LastIsUndoable ==
    \A c \in Chat : At(c, "idle") /\ offered[c] # None
        => pending[c] # None /\ pending[c].msg = offered[c]

=============================================================================
