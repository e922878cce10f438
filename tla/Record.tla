------------------------------- MODULE Record -------------------------------
(***************************************************************************)
(* A chat's record (struct Account of src/store.rs): its account slots, the *)
(* shared mailboxes it opted into, its language and its topic preference.  *)
(* First what src/store.rs reads from it and makes of it, and how a record *)
(* of an older version is read; then what each command and watcher of the  *)
(* chat may do to it, each as one step. Buttons has buttons act on such a  *)
(* record; Topics shows the commands' real steps to be steps of this one.  *)
(*                                                                         *)
(* What a slot connects to (server, token, cursor) is one value with its   *)
(* address; ids of shared mailboxes are taken to differ between servers.   *)
(***************************************************************************)
EXTENDS Integers

CONSTANTS
    SlotId,      \* the ids of account slots
    Rank,        \* their order, which is that of the map they are kept in
    Default,     \* the id of the first login's slot; the others are generated
    Account,     \* accounts, by their address as a server spells it
    Spelled,     \* the address without regard to case
    Shared,      \* the ids of shared mailboxes
    Access,      \* those an account can open
    Code,        \* Telegram's language codes, None among them
    Detected,    \* the language we have for a code, or None
    BotLanguage, \* the operator's default
    OldRecords,  \* what the process may find in the file
    MaxTopics    \* bound: topics created

None == "none"   \* no parent, no language, no preference
Supported == {"en", "fr"}

ASSUME RecordAssumption ==
    /\ Default \in SlotId /\ SlotId \cap Shared = {}
    /\ None \notin SlotId \cup Shared /\ None \in Code
    /\ Rank \in [SlotId -> Nat]
    /\ \A s, u \in SlotId : Rank[s] = Rank[u] => s = u
    /\ Detected \in [Code -> Supported \cup {None}]
    /\ MaxTopics \in Nat

VARIABLES
    record, \* the chat's record
    used    \* history: the slot ids ever given out

recordVars == <<record, used>>

NoTopic == 0

(* A map with no entry, and the record a chat without one stands for.       *)
Nothing == <<>>
NoRecord == [accounts |-> Nothing, shared |-> Nothing,
             language |-> None, threads |-> None]

Connected(r) == DOMAIN r.accounts
OptedIn(r) == DOMAIN r.shared
Targets(r) == Connected(r) \cup OptedIn(r)
Exists(r) == Connected(r) # {}

Put(map, key, value) ==
    [k \in DOMAIN map \cup {key} |-> IF k = key THEN value ELSE map[k]]
Without(map, keys) == [k \in DOMAIN map \ keys |-> map[k]]

-----------------------------------------------------------------------------
(* Reading a record.                                                       *)

(* The first slot of the map.                                              *)
PrimarySlot(r) ==
    IF ~Exists(r) THEN None
    ELSE CHOOSE s \in Connected(r) : \A u \in Connected(r) : Rank[s] <= Rank[u]

(* Mutant: addresses are compared as they are written.                     *)
HoldersAsWritten(r, account) ==
    {s \in Connected(r) : r.accounts[s].of = account}

(* The slots that hold an account's address, whatever its case.            *)
Holders(r, account) ==
    {s \in Connected(r) : Spelled[r.accounts[s].of] = Spelled[account]}

ContainsEmail(r, account) == Holders(r, account) # {}

IsChildOf(share, slot) ==
    share.parent = slot \/ (share.parent = None /\ slot = Default)

Children(r, slot) == {m \in OptedIn(r) : IsChildOf(r.shared[m], slot)}

ParentSlot(r, m) ==
    LET parent == r.shared[m].parent IN
    IF parent = None THEN PrimarySlot(r)
    ELSE IF parent \in Connected(r) THEN parent ELSE None

Thread(r, t) ==
    IF t \in Connected(r) THEN r.accounts[t].thread
    ELSE IF t \in OptedIn(r) THEN r.shared[t].thread ELSE NoTopic

-----------------------------------------------------------------------------
(* Changing it.                                                            *)

AddAccount(r, slot, account) ==
    [r EXCEPT !.accounts = Put(@, slot, [of |-> account, thread |-> NoTopic])]

(* The shared mailboxes go with the account, the record with the last one. *)
RemoveAccount(r, slot) ==
    IF Connected(r) \subseteq {slot} THEN NoRecord
    ELSE [r EXCEPT !.accounts = Without(@, {slot}),
                   !.shared = IF slot \in Connected(r)
                              THEN Without(@, Children(r, slot)) ELSE @]

SetShared(r, m, parent) ==
    [r EXCEPT !.shared = Put(@, m, [parent |-> parent, thread |-> NoTopic])]

RemoveShared(r, m) == [r EXCEPT !.shared = Without(@, {m})]

(* What is not in the record any more is left out of it.                   *)
SetThread(r, t, topic) ==
    IF t \in Connected(r) THEN [r EXCEPT !.accounts[t].thread = topic]
    ELSE IF t \in OptedIn(r) THEN [r EXCEPT !.shared[t].thread = topic] ELSE r

-----------------------------------------------------------------------------
(* Reading the file. An older version kept the first account in the record *)
(* itself and the others in a map beside it; a shared mailbox of the first *)
(* account named no parent.                                                *)

(* Mutant: a shared mailbox that names no parent is left as it is.          *)
ParentsAsWritten(shared) == shared

WithParents(shared) ==
    [m \in DOMAIN shared |->
        IF shared[m].parent # None THEN shared[m]
        ELSE [shared[m] EXCEPT !.parent = Default]]

Unified(old) ==
    [accounts |-> old.accounts, shared |-> WithParents(old.shared),
     language |-> old.language, threads |-> old.threads]

Legacy(old) ==
    LET slot(account) == [of |-> account, thread |-> NoTopic]
        extras == [s \in DOMAIN old.extra |-> slot(old.extra[s])]
        first == Put(Nothing, Default, slot(old.of))
    IN [accounts |-> [s \in {Default} \cup DOMAIN extras |->
                         IF s \in DOMAIN extras THEN extras[s] ELSE first[s]],
        shared |-> WithParents(old.shared),
        language |-> old.language, threads |-> old.threads]

(* The two are told apart by the map of accounts.                          *)
Read(old) == IF "accounts" \in DOMAIN old THEN Unified(old) ELSE Legacy(old)

(* What the file holds of a chat: no address twice, and shared mailboxes    *)
(* through an account there is, the first login's where none is named.      *)
KeptAccounts(slots) ==
    /\ DOMAIN slots \subseteq SlotId
    /\ slots \in [DOMAIN slots -> [of: Account, thread: {NoTopic}]]
    /\ \A s, u \in DOMAIN slots : Spelled[slots[s].of] = Spelled[slots[u].of] => s = u

KeptShared(shared, slots) ==
    \A m \in DOMAIN shared :
        LET parent == IF shared[m].parent = None THEN Default ELSE shared[m].parent IN
        /\ m \in Shared
        /\ shared[m] \in [parent: SlotId \cup {None}, thread: {NoTopic}]
        /\ parent \in DOMAIN slots /\ m \in Access[slots[parent].of]

Kept(old) ==
    /\ old.language \in Supported \cup {None} /\ old.threads \in {"on", "off", None}
    /\ IF "accounts" \in DOMAIN old
       THEN /\ old = NoRecord \/ DOMAIN old.accounts # {}
            /\ KeptAccounts(old.accounts) /\ KeptShared(old.shared, old.accounts)
       ELSE LET slots == [s \in {Default} \cup DOMAIN old.extra |->
                    [of |-> IF s = Default THEN old.of ELSE old.extra[s],
                     thread |-> NoTopic]]
            IN /\ Default \notin DOMAIN old.extra
               /\ KeptAccounts(slots) /\ KeptShared(old.shared, slots)

(* An address is one account however it is spelled; and what a file of a     *)
(* past run holds was written by it. Topics are numbered from boot on.      *)
ASSUME FileAssumption ==
    /\ \A a, b \in Account : Spelled[a] = Spelled[b] => Access[a] = Access[b]
    /\ \A old \in OldRecords : Kept(old)

-----------------------------------------------------------------------------
(* What the chat's commands, and the watchers, do to the record.            *)

(* The stored preference, the message's language, the operator's, English.  *)
Resolve(stored, code) ==
    IF stored \in Supported THEN stored
    ELSE IF Detected[code] # None THEN Detected[code]
    ELSE IF BotLanguage \in Supported THEN BotLanguage ELSE "en"

Becomes(r) == record' = r /\ used' = used \cup Connected(r)

Fresh == SlotId \ (used \cup {Default})

(* An account that is connected keeps its slot.                             *)
LoginSlots(account) ==
    LET holders == Holders(record, account) IN
    IF holders # {}
    THEN {s \in holders : \A u \in holders : Rank[s] <= Rank[u]}
    ELSE IF ~Exists(record) THEN {Default} ELSE Fresh

(* Mutant: the language of the message is stored.                           *)
SeededAnew(r, code) == [r EXCEPT !.language = Resolve(None, code)]

(* The language the login was answered in is stored with it.                *)
Seeded(r, code) == [r EXCEPT !.language = Resolve(record.language, code)]

(* A storage error ends the command after the account is in memory.         *)
LoginTo(slot, account, code, saved) ==
    LET added == AddAccount(record, slot, account)
    IN Becomes(IF saved THEN Seeded(added, code) ELSE added)

Login(account, code) ==
    \E slot \in LoginSlots(account), saved \in BOOLEAN :
        LoginTo(slot, account, code, saved)

(* /comptes <url> <token>.                                                  *)
AddTo(slot, account) ==
    /\ Exists(record) /\ ~ContainsEmail(record, account)
    /\ slot \in Fresh
    /\ Becomes(AddAccount(record, slot, account))

Disconnect(slot) == Becomes(RemoveAccount(record, slot))
Logout == Exists(record) /\ Becomes(NoRecord)

(* The button of a shared mailbox, by the slot it names, None for the first *)
(* login's: on with access through that slot, off whatever it names.        *)
OptInSlot(ref) == IF ref = None THEN PrimarySlot(record) ELSE ref

OptIn(ref, m) ==
    /\ m \notin OptedIn(record) /\ OptInSlot(ref) \in Connected(record)
    /\ m \in Access[record.accounts[OptInSlot(ref)].of]
    /\ Becomes(SetShared(record, m, OptInSlot(ref)))

OptOut(m) == m \in OptedIn(record) /\ Becomes(RemoveShared(record, m))

SetLanguage(language) ==
    Exists(record) /\ Becomes([record EXCEPT !.language = language])

SetThreads(on) == Exists(record) /\ Becomes([record EXCEPT !.threads = on])

(* A topic is created for a target, or found to be gone.                    *)
StoreThread(t, topic) ==
    t \in Targets(record) /\ Becomes(SetThread(record, t, topic))

RecordInit ==
    record \in {Read(old) : old \in OldRecords} /\ used = Connected(record)

AccountCommand ==
    \/ \E account \in Account, code \in Code : Login(account, code)
    \/ \E slot \in SlotId, account \in Account : AddTo(slot, account)
    \/ \E slot \in Connected(record) : Disconnect(slot)
    \/ Logout
    \/ \E ref \in SlotId \cup {None}, m \in Shared : OptIn(ref, m)
    \/ \E m \in Shared : OptOut(m)

RecordNext ==
    \/ AccountCommand
    \/ \E language \in Supported : SetLanguage(language)
    \/ \E on \in {"on", "off"} : SetThreads(on)
    \/ \E t \in Targets(record), topic \in 0..MaxTopics : StoreThread(t, topic)

RecordSpec == RecordInit /\ [][RecordNext]_recordVars

-----------------------------------------------------------------------------
(* Properties.                                                             *)

(* The record is empty or has an account; its parts are of their types.     *)
RecordTypeOK ==
    /\ used \subseteq SlotId /\ Connected(record) \subseteq used
    /\ OptedIn(record) \subseteq Shared
    /\ record = NoRecord \/ Exists(record)
    /\ \A s \in Connected(record) : record.accounts[s] \in
         [of: Account, thread: 0..MaxTopics]
    /\ \A m \in OptedIn(record) : record.shared[m] \in
         [parent: SlotId, thread: 0..MaxTopics]
    /\ record.language \in Supported \cup {None}
    /\ record.threads \in {"on", "off", None}

(* No address is connected twice, however a server spells it, by whatever    *)
(* mix of /login and /accounts (bot.rs:310-316 and 522).                    *)
AddressOnce ==
    \A s, u \in Connected(record) :
        Spelled[record.accounts[s].of] = Spelled[record.accounts[u].of] => s = u

(* A shared mailbox of the record is opened through an account of the record *)
(* that may open it (store.rs:299-305), also where the file of an older     *)
(* version named no parent, and whatever accounts came and went since.      *)
SharedIsOpenedByParent ==
    \A m \in OptedIn(record) :
        /\ ParentSlot(record, m) \in Connected(record)
        /\ m \in Access[record.accounts[ParentSlot(record, m)].of]

=============================================================================
