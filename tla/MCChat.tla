------------------------------- MODULE MCChat -------------------------------
(***************************************************************************)
(* A chat with three slot ids, one of each side of the first login's in     *)
(* their order, two accounts of which a server spells one in two ways, and  *)
(* one shared mailbox. What buttons reach, what becomes of the topics and   *)
(* what is written into the chat share no state besides the record, so that *)
(* one run checks them side by side: each behaviour is of one of them.      *)
(***************************************************************************)
EXTENDS Topics, Buttons, Writing, TLC

VARIABLE part

MCSlotId == {"b", "default", "z"}
MCRank == "b" :> 1 @@ "default" :> 2 @@ "z" :> 3
MCAccount == {"one", "One", "two"}
MCSpelled == "one" :> "one" @@ "One" :> "one" @@ "two" :> "two"
MCShared == {"m"}
MCAccess == "one" :> {"m"} @@ "One" :> {"m"} @@ "two" :> {}
MCCode == {"none", "fr-FR"}
MCDetected == "none" :> "none" @@ "fr-FR" :> "fr"

(* Nothing, or a file of an older version with two accounts.                *)
MCOldRecords ==
    {NoRecord,
     [of |-> "one", extra |-> "b" :> "two", language |-> None, threads |-> None,
      shared |-> "m" :> [parent |-> None, thread |-> NoTopic]]}

(* Texts of up to six characters, one of them wide.                         *)
MCText == BoundedSeq({"x", Wide, NewLine}, 6)
MCId == BoundedSeq({"i", "p"}, 3) \ {<<>>}
MCGenerated == [1..2 -> {"i", "p"}]
MCField == BoundedSeq({"x", " ", "*", "]", ")", "\\", ">", NewLine}, 2)

Init ==
    /\ part \in {"topics", "buttons", "writing"}
    /\ TopicsInit /\ ButtonsInit /\ WritingInit

Next ==
    /\ UNCHANGED part
    /\ \/ part = "topics" /\ TopicsNext /\ UNCHANGED <<buttonVars, writing>>
       \/ part = "buttons" /\ ButtonsNext /\ UNCHANGED <<topicVars, writing>>
       \/ part = "writing" /\ WritingNext /\ UNCHANGED <<recordVars, topicVars, buttonVars>>

Spec == Init /\ [][Next]_<<part, topicsVars, buttonVars, writing>>
=============================================================================
