----------------------------- MODULE MCMailSync -----------------------------
(* MailSync on small change logs. *)
EXTENDS MailSync

Entry(created, roles, draft, own, listed) ==
    [created |-> created, roles |-> roles, draft |-> draft, own |-> own,
     listed |-> listed]

Newsletter == Entry(TRUE, {"inbox"}, FALSE, FALSE, TRUE)
SentToSelf == Entry(TRUE, {"inbox", "sent"}, FALSE, TRUE, TRUE)

MCChange == {Newsletter, SentToSelf}
MCChangeLive == {Newsletter}
=============================================================================
