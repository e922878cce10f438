------------------------------ MODULE Buttons -------------------------------
(***************************************************************************)
(* What the buttons of one message of the chat reach, while commands change *)
(* the accounts behind them (the listings and callback_handler of           *)
(* src/bot.rs): a mail's keyboard names the account's slot or the shared    *)
(* mailbox, or nothing for the first login's account; so do the lists of    *)
(* /accounts and /partages. A press comes at any time, from any keyboard    *)
(* the message has shown. Texts shows that the data of a button keeps what  *)
(* it names.                                                               *)
(*                                                                         *)
(* A client is taken to be connected to what its slot holds now. A pending  *)
(* undo is Undo's subject; here it is there or not.                         *)
(***************************************************************************)
EXTENDS Record, Texts

VARIABLES
    card,   \* the message, or NoCard
    chosen  \* history: the language of the last /lang, None without one

buttonVars == <<card, chosen>>
buttonsVars == <<recordVars, buttonVars>>

-----------------------------------------------------------------------------
(* What a name leads to: a mailbox, told apart by its account's address or  *)
(* by its own id, or None.                                                  *)

Holds(slot) ==
    IF slot \in Connected(record) THEN Spelled[record.accounts[slot].of] ELSE None

(* Mutant: a name that leads nowhere leads to the first account.            *)
FallsBack(ref) ==
    IF ref \in OptedIn(record) /\ ParentSlot(record, ref) # None THEN ref
    ELSE Holds(IF ref \in Connected(record) THEN ref ELSE PrimarySlot(record))

(* client_for_shared, then client_for_account, or client_for.               *)
Mailbox(ref) ==
    IF ref \in OptedIn(record) /\ ParentSlot(record, ref) # None THEN ref
    ELSE Holds(IF ref = None THEN PrimarySlot(record) ELSE ref)

(* What a name on a list leads to: the account an "x" button disconnects,   *)
(* or the one through which an "s" button opens a shared mailbox.           *)
Named(x) == IF x.kind = "mail" THEN Mailbox(x.ref) ELSE Holds(OptInSlot(x.ref))

-----------------------------------------------------------------------------
(* A mail's keyboard (Keys of Texts).                                       *)

(* Mutant: the letter's case is left out of account.                        *)
FaceOfAction(key) == [read |-> key # "e", expanded |-> key \in {"e", "E"}]

Face(key) == [read |-> key \in {"E", "C"}, expanded |-> key \in {"e", "E"}]

NoCard == [kind |-> "none"]

(* A card is fresh while the record has not vanished since it was sent; a   *)
(* mail's is misled once it was marked through a name that went astray.     *)
MailCard(ref, of) ==
    [kind |-> "mail", ref |-> ref, of |-> of, fresh |-> TRUE,
     read |-> FALSE, keys |-> Keys(FALSE, FALSE), marked |-> FALSE, misled |-> FALSE]

(* A keyboard that is replaced may still be tapped on by a slow client.     *)
Shows(read, keys) == card' = [card EXCEPT !.read = read, !.keys = @ \cup keys]

(* What a card's name does not tell by itself. The first login's account is *)
(* named by nothing, that is by the order of the slots; and its slot's id   *)
(* is given out again once the record has vanished.                         *)
NameIsGood(x) ==
    /\ x.ref = None => x.fresh /\ PrimarySlot(record) \in {Default, None}
    /\ x.ref = Default => x.fresh

-----------------------------------------------------------------------------
(* The messages the bot sends.                                              *)

(* Mutant: it is not looked whether the target is still there.               *)
NotifyAnyway(t) == card' = MailCard(t, Mailbox(t))

(* A watcher's notification names its target.                               *)
Notify(t) ==
    /\ Mailbox(t) # None
    /\ card' = MailCard(t, Mailbox(t))

(* The first login's account goes without a name in what is listed.         *)
Ref(slot) == IF slot = Default THEN None ELSE slot

(* A result of /search.                                                     *)
Found(slot) ==
    /\ slot \in Connected(record)
    /\ card' = MailCard(Ref(slot), Holds(slot))

(* A line of /accounts, or of /logout with several accounts.                *)
Listed(slot) ==
    /\ slot \in Connected(record)
    /\ card' = [kind |-> "account", ref |-> slot, of |-> Holds(slot), fresh |-> TRUE]

(* A line of /partages.                                                     *)
Offered(slot, m) ==
    /\ slot \in Connected(record) /\ m \in Access[record.accounts[slot].of]
    /\ card' = [kind |-> "share", ref |-> Ref(slot), of |-> Holds(slot), m |-> m,
                fresh |-> TRUE]

Send ==
    /\ card = NoCard
    /\ \/ \E t \in SlotId \cup Shared : Notify(t)
       \/ \E slot \in SlotId : Found(slot) \/ Listed(slot)
       \/ \E slot \in SlotId, m \in Shared : Offered(slot, m)
    /\ UNCHANGED <<recordVars, chosen>>

-----------------------------------------------------------------------------
(* callback_handler.                                                        *)

Press(key) ==
    /\ card.kind = "mail" /\ key \in card.keys
    /\ UNCHANGED <<recordVars, chosen>>

(* The menu opens and closes without a look at any account.                 *)
Toggle(key) ==
    /\ key \in {"e", "E", "c", "C"} /\ Press(key)
    /\ Shows(Face(key).read, Keys(Face(key).read, Face(key).expanded))

(* If the request fails, nothing changes.                                   *)
MarkRead ==
    LET mailbox == Mailbox(card.ref) IN
    /\ Press("r") /\ mailbox # None
    /\ card' = [card EXCEPT !.read = TRUE, !.keys = @ \cup Keys(TRUE, TRUE),
                            !.marked = @ \/ mailbox = card.of,
                            !.misled = @ \/ ~NameIsGood(card)]

(* The message is moved and its keyboard becomes an undo button.            *)
Triage(key) ==
    /\ key \in {"a", "j", "d"} /\ Press(key) /\ Mailbox(card.ref) # None
    /\ Shows(FALSE, {"u"})

TakeBack ==
    /\ Press("u") /\ Mailbox(card.ref) # None
    /\ Shows(FALSE, Keys(FALSE, FALSE))

-----------------------------------------------------------------------------
(* The commands, those of the buttons of lists among them. The message      *)
(* outlives the accounts; /lang's choice goes with the record.              *)

ChatCommand ==
    /\ \/ AccountCommand /\ chosen' = IF Exists(record') THEN chosen ELSE None
       \/ \E language \in Supported : SetLanguage(language) /\ chosen' = language
    /\ card' = IF card = NoCard THEN NoCard
               ELSE [card EXCEPT !.fresh = @ /\ Exists(record')]

ButtonsInit ==
    /\ RecordInit
    /\ card = NoCard /\ chosen = None

ButtonsNext ==
    \/ Send \/ ChatCommand \/ MarkRead \/ TakeBack
    \/ \E key \in {"e", "E", "c", "C"} : Toggle(key)
    \/ \E key \in {"a", "j", "d"} : Triage(key)

ButtonsSpec == ButtonsInit /\ [][ButtonsNext]_buttonsVars

-----------------------------------------------------------------------------
(* Properties.                                                             *)

Letters == (UNION {Keys(read, expanded) : read, expanded \in BOOLEAN}) \cup {"u"}
Mailboxes == {Spelled[a] : a \in Account} \cup Shared

(* The types of the message; it was sent for a mailbox there is.             *)
ButtonsTypeOK ==
    /\ chosen \in Supported \cup {None}
    /\ card # NoCard =>
         /\ card.ref \in SlotId \cup Shared \cup {None}
         /\ card.of \in Mailboxes /\ card.fresh \in BOOLEAN
         /\ card.kind = "mail" => card.keys \subseteq Letters
         /\ card.kind = "share" => card.m \in Shared

(* bot.rs:1424-1429 and format.rs:253-263: whatever the user connected and   *)
(* disconnected since a message was sent, a press of its buttons acts on the *)
(* mailbox it was sent for (disconnects that account, opens a shared mailbox *)
(* through it), or on none if that one is not connected any more. The first  *)
(* login's account is an exception as soon as another is first in order, or *)
(* the record has vanished meanwhile.                                       *)
RoutedToItsMailbox ==
    card # NoCard /\ NameIsGood(card) =>
        Named(card) = IF card.ref \in Targets(record) \cup {None} /\ Exists(record)
                      THEN card.of ELSE None

(* A message that shows a mail as read has marked that very mail as read, in *)
(* its own mailbox, through any opening and closing of the menu, undo and   *)
(* late tap on an older keyboard (format.rs:275-288, bot.rs:1541-1552).     *)
ReadMarkIsTrue ==
    card.kind = "mail" /\ card.read => card.marked \/ card.misled

(* bot.rs:209-211: a deliberate /lang is what the chat is answered in until  *)
(* its record vanishes, whatever later logins detect.                       *)
ChosenLanguageStays ==
    chosen # None => \A code \in Code : Resolve(record.language, code) = chosen

=============================================================================
