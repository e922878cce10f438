------------------------------ MODULE Writing ------------------------------
(***************************************************************************)
(* The bot writes into a chat: a mail read in full, part by part, of which  *)
(* Telegram may refuse some; a keyboard, and then a button of it is pressed; *)
(* a notification. What the reader gets is compared with what there was to  *)
(* read (the functions are those of Texts).                                 *)
(***************************************************************************)
EXTENDS Texts, FiniteSets

CONSTANTS
    Text,      \* the texts of mails
    Id,        \* the ids of messages, mailboxes and slots
    Generated, \* those of slots
    Field      \* what mail puts into the fields of a notification

(* No id holds a colon (RFC 8620, 1.2); a slot's has eight characters.      *)
ASSUME WritingAssumption ==
    /\ Text \subseteq Seq(STRING) /\ Field \subseteq Seq(STRING)
    /\ \A id \in Id \cup Generated :
         id \in Seq(STRING) \ {<<>>} /\ \A i \in DOMAIN id : id[i] # Colon
    /\ <<"p">> \notin Generated

VARIABLE writing \* what the bot is writing, and what came of it

Unwritten == [kind |-> "nothing"]

-----------------------------------------------------------------------------
(* Telegram's reading of MarkdownV2: an escaped character stands for itself, *)
(* [label](url) is a link, > at the start of a line quotes it, and any other *)
(* reserved character is an error.                                          *)

Plain(c) == [kind |-> "text", text |-> <<c>>, to |-> <<>>]
Quote == [kind |-> "quote", text |-> <<>>, to |-> <<>>]
Link(label, url) == [kind |-> "link", text |-> label, to |-> url]

Literal(acc, c) ==
    CASE acc.mode = "text" -> [acc EXCEPT !.items = Append(@, Plain(c)), !.esc = FALSE]
      [] acc.mode = "label" -> [acc EXCEPT !.label = Append(@, c), !.esc = FALSE]
      [] acc.mode = "url" -> [acc EXCEPT !.url = Append(@, c), !.esc = FALSE]
      [] OTHER -> [acc EXCEPT !.ok = FALSE]

AtLineStart(items) == items = <<>> \/ Last(items) = Plain(NewLine)

Markup(acc, c) ==
    CASE acc.mode = "text" /\ c = "[" -> [acc EXCEPT !.mode = "label"]
      [] acc.mode = "text" /\ c = ">" /\ AtLineStart(acc.items) ->
            [acc EXCEPT !.items = Append(@, Quote)]
      [] acc.mode = "label" /\ c = "]" -> [acc EXCEPT !.mode = "bracket"]
      [] acc.mode = "bracket" /\ c = "(" -> [acc EXCEPT !.mode = "url"]
      [] acc.mode = "url" /\ c = ")" ->
            [acc EXCEPT !.mode = "text", !.label = <<>>, !.url = <<>>,
                        !.items = Append(@, Link(acc.label, acc.url))]
      [] OTHER -> [acc EXCEPT !.ok = FALSE]

ReadChar(acc, c) ==
    IF acc.esc THEN Literal(acc, c)
    ELSE IF c = "\\" THEN [acc EXCEPT !.esc = TRUE]
    ELSE IF acc.mode = "url" /\ c # ")" THEN Literal(acc, c)
    ELSE IF c \in Reserved THEN Markup(acc, c)
    ELSE Literal(acc, c)

Unread == [mode |-> "text", esc |-> FALSE, ok |-> TRUE, items |-> <<>>,
           label |-> <<>>, url |-> <<>>]

ReadMarkup(markup) ==
    LET end == FoldLeft(ReadChar, Unread, markup)
    IN [ok |-> end.ok /\ ~end.esc /\ end.mode = "text", items |-> end.items]

-----------------------------------------------------------------------------
(* What the bot does.                                                       *)

(* "Lire tout": a blank text is replaced by a notice of one line.            *)
ReadAll(text) ==
    LET shown == IF Trimmed(text) = <<>> THEN <<"empty">> ELSE text
    IN writing' = [kind |-> "text", text |-> shown, chunks |-> chunk_text(shown),
                   arrived |-> {}, failed |-> {}]

(* A part that is refused is noted, for a last message, and the rest is sent. *)
SendPart ==
    LET n == Cardinality(writing.arrived \cup writing.failed) + 1 IN
    /\ writing.kind = "text" /\ n <= Len(writing.chunks)
    /\ writing' \in {[writing EXCEPT !.arrived = @ \cup {n}],
                     [writing EXCEPT !.failed = @ \cup {n}]}

(* A mail's keyboard in one of its states, or the undo button.              *)
Offer(id, ref) ==
    \E shown \in {notification_keyboard(id, ref, read, expanded) :
                     read, expanded \in BOOLEAN} \cup {undo_keyboard(id, ref)} :
        writing' = [kind |-> "mail", id |-> id, ref |-> ref, shown |-> shown]

(* A line of /partages.                                                     *)
OfferShared(id, slot) ==
    writing' = [kind |-> "toggle", id |-> id, ref |-> slot,
                shown |-> shared_accounts_keyboard({[id |-> id, parent |-> slot]})]

Tap ==
    /\ writing.kind \in {"mail", "toggle"}
    /\ \E data \in writing.shown :
         writing' = [kind |-> "tapped", on |-> writing, data |-> data,
                     does |-> callback_handler(data)]

Announce(one, other) ==
    writing' = [kind |-> "notice", one |-> one, other |-> other,
                sent |-> notification_text(<<one>>, <<other>>, other, <<one, other>>, one)]

StartWriting ==
    /\ writing = Unwritten
    /\ \/ \E text \in Text : ReadAll(text)
       \/ \E id \in Id, ref \in Id \cup {NoRef} : Offer(id, ref)
       \/ \E id \in Id, slot \in Generated \cup {NoRef} : OfferShared(id, slot)
       \/ \E one, other \in Field : Announce(one, other)

WritingInit == writing = Unwritten
WritingNext == StartWriting \/ SendPart \/ Tap

WritingSpec == WritingInit /\ [][WritingNext]_writing

-----------------------------------------------------------------------------
(* Properties.                                                             *)

Worded(lines) ==
    FlattenSeq([i \in DOMAIN lines |-> IF lines[i] = <<>> THEN <<>> ELSE <<lines[i]>>])

(* Where, in characters, each of a sequence of texts ends.                  *)
End(texts, k) == Len(FlattenSeq(SubSeq(texts, 1, k)))
Ends(texts) == {End(texts, k) : k \in DOMAIN texts}

(* The parts of a mail hold its whole text in order (format.rs:428-438): no  *)
(* part is empty or over the limit; the next one begins only where this one *)
(* has no room for its first line; only line feeds are lost between two; and *)
(* only a line that exceeds a part is cut.                                  *)
ChunksHoldTheText ==
    writing.kind = "text" =>
        LET chunks == writing.chunks
            pieces == Worded(FlattenSeq([i \in DOMAIN chunks |-> Lines(chunks[i])]))
            lines == Worded(Lines(writing.text))
        IN /\ \A i \in DOMAIN chunks : Units(chunks[i]) \in 1..MaxLen
           /\ \A i \in 1..(Len(chunks) - 1) :
                 Units(chunks[i]) + 1 + Units(Lines(chunks[i + 1])[1]) > MaxLen
           /\ FlattenSeq(pieces) = FlattenSeq(lines)
           /\ Ends(lines) \subseteq Ends(pieces)
           /\ \A k \in DOMAIN lines : Units(lines[k]) <= MaxLen =>
                 Ends(pieces) \cap (End(lines, k - 1) + 1)..(End(lines, k) - 1) = {}

(* A press of any button that is shown does what the button says to the      *)
(* message, the mailbox and the account it was made for, its data is within  *)
(* Telegram's limit, and a message's buttons are all there or none, collapsed *)
(* or expanded, read or unread (format.rs:244-263, bot.rs:1431-1439).        *)
ButtonsSurviveTheTrip ==
    /\ writing.kind = "mail" =>
         writing.shown = {} <=> undo_keyboard(writing.id, writing.ref) = {}
    /\ writing.kind = "tapped" =>
         LET button == writing.on IN
         /\ Size(writing.data) <= DataLimit
         /\ writing.does =
              IF button.kind = "toggle"
              THEN [op |-> "toggle", ref |-> button.ref, id |-> button.id]
              ELSE [op |-> "mail", action |-> <<writing.data[1]>>,
                    ref |-> button.ref, id |-> button.id]

(* What the reader is to see of a notification.                             *)
Plainly(text) == [i \in DOMAIN text |-> Plain(text[i])]
Shown(text) == truncate(Trimmed(text), FieldLimit)
Seen(name, address, subject, names, preview) ==
    LET shown == SubSeq(names, 1, IF Len(names) > MaxShown THEN MaxShown ELSE Len(names))
        url == mailto_url(truncate(address, FieldLimit))
        sender == Sender(<<name>>, <<address>>)
        lines == Lines(Shown(preview))
    IN Joined(<<IF url = <<>> THEN Plainly(sender) ELSE <<Link(sender, url)>>,
                Plainly(Shown(subject)),
                Plainly(Joined([i \in DOMAIN shown |->
                                   truncate(shown[i], FieldLimit) \o <<" ", "(", ".", ")">>],
                               <<",">>)
                          \o (IF Len(names) > MaxShown THEN <<"(", "+", ")">> ELSE <<>>)),
                Joined([i \in DOMAIN lines |-> <<Quote>> \o Plainly(lines[i])],
                       Plainly(<<NewLine>>))>>,
              Plainly(<<NewLine>>))

(* Whatever a mail's fields hold, Telegram accepts the notification and shows *)
(* them as they are: the sender as one link to its address, each line of the *)
(* preview quoted, and no other link, quote or markup (format.rs:394-427).   *)
MarkdownReadsBack ==
    writing.kind = "notice" =>
        LET one == writing.one  other == writing.other IN
        ReadMarkup(writing.sent) =
            [ok |-> TRUE, items |-> Seen(one, other, other, <<one, other>>, one)]

=============================================================================
