------------------------------- MODULE Texts --------------------------------
(***************************************************************************)
(* What the bot writes into a chat (src/format.rs): a long mail cut into    *)
(* messages, the data of its buttons and how a press is told apart, and a   *)
(* notification's MarkdownV2. Pure functions; Writing compares what they    *)
(* return with what the reader is to get.                                   *)
(*                                                                         *)
(* A text is a sequence of characters, a wide one being a character of two  *)
(* UTF-16 units. An id is a sequence of letters, none of which is a colon   *)
(* (RFC 8620, 1.2). Wording is left out, and so is a line's carriage return.*)
(***************************************************************************)
EXTENDS Integers, SequencesExt

CONSTANTS
    MaxLen,     \* the units a message may have
    DataLimit,  \* the bytes a button's data may have
    FieldLimit, \* the characters of a notification's field that are shown
    MaxShown    \* the attachments a notification names

ASSUME TextsAssumption ==
    /\ MaxLen \in Nat \ {0, 1} /\ DataLimit \in Nat
    /\ FieldLimit \in Nat /\ MaxShown \in Nat

NewLine == "\n"
Wide == "W"
Width(c) == IF c = Wide THEN 2 ELSE 1
Units(text) == FoldLeft(LAMBDA sum, c : sum + Width(c), 0, text)

-----------------------------------------------------------------------------
(* A long mail is cut into messages.                                       *)

TakeChar(acc, c) ==
    IF c = NewLine THEN [done |-> Append(acc.done, acc.line), line |-> <<>>]
    ELSE [acc EXCEPT !.line = Append(@, c)]

(* str::lines: the last line needs no line feed.                            *)
Lines(text) ==
    LET end == FoldLeft(TakeChar, [done |-> <<>>, line |-> <<>>], text)
    IN IF end.line = <<>> THEN end.done ELSE Append(end.done, end.line)

Flush(cut) == [chunks |-> Append(cut.chunks, cut.current), current |-> <<>>]

(* Mutant: a character counts as one unit.                                  *)
PutCharCountingChars(cut, c) ==
    LET room == IF Len(cut.current) + 1 > MaxLen THEN Flush(cut) ELSE cut
    IN [room EXCEPT !.current = Append(@, c)]

PutChar(cut, c) ==
    LET room == IF Units(cut.current) + Width(c) > MaxLen THEN Flush(cut) ELSE cut
    IN [room EXCEPT !.current = Append(@, c)]

PutLine(cut, line) ==
    LET tight == /\ cut.current # <<>>
                 /\ Units(cut.current) + Units(line) + 1 > MaxLen
        room == IF tight THEN Flush(cut) ELSE cut
    IN IF Units(line) > MaxLen THEN FoldLeft(PutChar, room, line)
       ELSE [room EXCEPT !.current =
                IF @ = <<>> THEN line ELSE Append(@, NewLine) \o line]

chunk_text(text) ==
    LET end == FoldLeft(PutLine, [chunks |-> <<>>, current |-> <<>>], Lines(text))
    IN IF text = <<>> THEN <<<<"empty">>>>
       ELSE IF end.current = <<>> THEN end.chunks ELSE Flush(end).chunks

-----------------------------------------------------------------------------
(* A button's data, and what a press of it does.                            *)

Size(data) == Len(data)
Colon == ":"
NoRef == <<>>   \* the account's slot, or the shared mailbox, is not named

(* Slots, mailboxes and messages are named by their ids.                    *)
action_callback_data(action, ref, id) ==
    IF ref = NoRef THEN <<action, Colon>> \o id
    ELSE <<action, Colon>> \o ref \o <<Colon>> \o id

(* Mutant: the limit is held against the id alone.                          *)
FitsByIdAlone(action, ref, id) == Len(id) <= DataLimit

Fits(action, ref, id) == Size(action_callback_data(action, ref, id)) <= DataLimit

(* A mail's actions, without their rows. The letter of the menu carries     *)
(* whether the mail was read.                                               *)
Keys(read, expanded) ==
    IF ~expanded THEN {"a", "d", IF read THEN "E" ELSE "e"}
    ELSE {"f", "a", "j", "d"} \cup (IF read THEN {"n", "C"} ELSE {"r", "c"})

notification_keyboard(id, ref, read, expanded) ==
    IF ~Fits("d", ref, id) THEN {}
    ELSE {action_callback_data(key, ref, id) : key \in Keys(read, expanded)}

undo_keyboard(id, ref) ==
    IF ~Fits("u", ref, id) THEN {} ELSE {action_callback_data("u", ref, id)}

(* One button for each shared mailbox whose data fits; the first login's    *)
(* account is not named.                                                    *)
shared_accounts_keyboard(items) ==
    {action_callback_data("s", x.parent, x.id) :
        x \in {y \in items : Fits("s", y.parent, y.id)}}

(* splitn(3, ':').                                                          *)
SplitN(data) ==
    LET one == SelectInSeq(data, LAMBDA c : c = Colon)
        two == SelectInSubSeq(data, one + 1, Len(data), LAMBDA c : c = Colon)
        from(i, j) == SubSeq(data, i, j)
    IN IF one = 0 THEN <<data>>
       ELSE IF two = 0 THEN <<from(1, one - 1), from(one + 1, Len(data))>>
       ELSE <<from(1, one - 1), from(one + 1, two - 1), from(two + 1, Len(data))>>

(* A shared mailbox's toggle, an account's disconnection, or an action on a *)
(* message. (The buttons of /threads and /logout have data of their own.)   *)
callback_handler(data) ==
    LET parts == SplitN(data)
        ref == IF Len(parts) = 3 THEN parts[2] ELSE NoRef
    IN IF Len(parts) < 2 THEN [op |-> "nothing"]
       ELSE CASE parts[1] = <<"s">> ->
                   [op |-> "toggle", ref |-> IF ref = <<"p">> THEN NoRef ELSE ref,
                    id |-> parts[Len(parts)]]
              [] parts[1] = <<"x">> -> [op |-> "disconnect", slot |-> parts[2]]
              [] OTHER -> [op |-> "mail", action |-> parts[1], ref |-> ref,
                           id |-> parts[Len(parts)]]

-----------------------------------------------------------------------------
(* A notification's MarkdownV2.                                             *)

Reserved == {"_", "*", "[", "]", "(", ")", "~", "backquote", ">", "#", "+", "-", "=",
             "|", "{", "}", ".", "!", "\\"}
Blank == {" ", NewLine}

Escape(text, special) ==
    FlattenSeq([i \in DOMAIN text |->
                   IF text[i] \in special THEN <<"\\", text[i]>> ELSE <<text[i]>>])

escape_markdown(text) == Escape(text, Reserved)
escape_markdown_url(text) == Escape(text, {")", "\\"})

truncate(text, limit) ==
    IF Len(text) > limit THEN Append(SubSeq(text, 1, limit), "...") ELSE text

(* str::trim.                                                               *)
Trimmed(text) ==
    LET first == SelectInSeq(text, LAMBDA c : c \notin Blank)
        last == SelectLastInSeq(text, LAMBDA c : c \notin Blank)
    IN IF first = 0 THEN <<>> ELSE SubSeq(text, first, last)

mailto_url(address) ==
    FlattenSeq([i \in DOMAIN address |->
                   IF address[i] \in Blank THEN <<>> ELSE <<address[i]>>])

(* An absent name or address is <<>>, one that is there <<text>>; an unknown *)
(* sender is not worded.                                                    *)
Sender(name, address) ==
    LET shown == truncate(address[1], FieldLimit) IN
    IF name \in {<<>>, <<(<<>>)>>} THEN shown
    ELSE truncate(name[1], FieldLimit) \o <<" ", "<">> \o shown \o <<">">>

from_field(name, address) ==
    LET url == mailto_url(truncate(address[1], FieldLimit))
        display == escape_markdown(Sender(name, address))
    IN IF address = <<>> THEN <<>>
       ELSE IF url = <<>> THEN display
       ELSE <<"[">> \o display \o <<"]", "(">> \o escape_markdown_url(url) \o <<")">>

Joined(texts, separator) ==
    FlattenSeq([i \in DOMAIN texts |->
                   IF i = 1 THEN texts[i] ELSE separator \o texts[i]])

blockquote(escaped) ==
    LET lines == Lines(escaped)
    IN Joined([i \in DOMAIN lines |-> <<">">> \o lines[i]], <<NewLine>>)

(* A name, its size in brackets; what is over the limit is counted.         *)
attachments_field(names) ==
    LET shown == SubSeq(names, 1, IF Len(names) > MaxShown THEN MaxShown ELSE Len(names))
        one(i) == escape_markdown(truncate(shown[i], FieldLimit))
                    \o <<" ", "\\", "(">> \o escape_markdown(<<".">>) \o <<"\\", ")">>
        rest == IF Len(names) > MaxShown THEN escape_markdown(<<"(", "+", ")">>) ELSE <<>>
    IN Joined([i \in DOMAIN shown |-> one(i)], <<",">>) \o rest

(* Mutant: a field is cut after it was escaped.                             *)
PreviewCutLate(preview) ==
    blockquote(truncate(escape_markdown(Trimmed(preview)), FieldLimit))

Preview(preview) ==
    blockquote(escape_markdown(truncate(Trimmed(preview), FieldLimit)))

notification_text(name, address, subject, names, preview) ==
    Joined(<<from_field(name, address),
             escape_markdown(truncate(Trimmed(subject), FieldLimit)),
             attachments_field(names), Preview(preview)>>, <<NewLine>>)

=============================================================================
