------------------------------- MODULE MCUndo -------------------------------
(* A small instance of Undo: one chat with two messages, one with a single *)
(* one; each message starts in the inbox, or in the inbox and a label.     *)
EXTENDS Undo, TLC

CONSTANTS c1, c2, m1, m2, m3

Chats == {c1, c2}
Messages == {m1, m2, m3}
ShownIn == m1 :> c1 @@ m2 :> c1 @@ m3 :> c2
Homes == {{"inbox"}, {"inbox", "label"}}
Archived == {{"archive"}}
=============================================================================
