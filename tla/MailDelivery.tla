---------------------------- MODULE MailDelivery ----------------------------
(***************************************************************************)
(* What a sync cursor promises. The account has `total` changes, of which  *)
(* those in `settled` need nothing more (announced, filtered, refused by   *)
(* Telegram, destroyed, or never news). The cursor may fall back at any    *)
(* time - a crash, a login that read the server's state earlier - which    *)
(* repeats work, but it moves forward only over settled changes and over   *)
(* those a login passed over on purpose, which is how far `base` reaches.  *)
(***************************************************************************)
EXTENDS Integers

VARIABLES total, settled, cursor, base

vars == <<total, settled, cursor, base>>

Init ==
    /\ total \in Nat
    /\ settled \subseteq 1..total
    /\ cursor \in -1..total
    /\ base = total

Arrive ==
    /\ total' = total + 1
    /\ settled' \in {settled, settled \cup {total + 1}}
    /\ UNCHANGED <<cursor, base>>

Settle ==
    /\ settled' \in SUBSET (1..total) /\ settled \subseteq settled'
    /\ UNCHANGED <<total, cursor, base>>

Move ==
    /\ base' \in base..total
    /\ cursor' \in -1..total
    /\ cursor' <= cursor \/ (base' + 1)..cursor' \subseteq settled
    /\ UNCHANGED <<total, settled>>

Next == Arrive \/ Settle \/ Move

Spec == Init /\ [][Next]_vars
=============================================================================
