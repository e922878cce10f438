---------------------------- MODULE MCLifecycle ----------------------------
(* Lifecycle for a chat with one or two accounts and a shared mailbox.      *)
EXTENDS Lifecycle

MCDefault == "default"
MCOneAccount == {"default"}
MCTwoAccounts == {"default", "3f"}
MCShared == {"team"}
MCParent == [s \in {"team"} |-> "default"]
=============================================================================
