# jmap2telegram in TLA+

jmap2telegram is a Telegram bot that watches JMAP mailboxes and posts new mail
to the chats that connected them. This directory holds TLA+ models of it, the
TLC configurations that check them, and TLAPS proofs. Every definition was
translated from the code under `src/src/`; `PROJECT.json` names, for each, the
lines it stands for.

## 1. The system

| Component | State | Operations | Talks to |
|---|---|---|---|
| Mail sync (`watcher.rs`, `jmap.rs`) | per watched mailbox: the `last_state` cursor, in the record | `run_once`, `sync_and_notify`, `fetch_changed_emails` | JMAP server, Telegram, store, topics |
| Reconnection (`watcher.rs`) | per watcher: backoff, failure count, `notified_broken` | the loop of `spawn` around `run_once` | Telegram (two notices), health |
| Lifecycle (`accounts.rs`, `state.rs`) | maps of cached clients and of watcher handles, each under a tokio `RwLock` | `adopt_account`, `adopt_shared`, `spawn_boot_resume`, `forget*`, `client_for*` | every command handler, every resume |
| Store (`store.rs`) | the records in memory, `state.enc`, `state.tmp`, `master.key`, `persist_lock` | `set`, `add_account`, `update_*`, `remove*`, `mute`, `persist`; `open`, `load_or_create_key` | file system; called from every handler and watcher |
| Record (`store.rs`, `i18n.rs`) | a chat's accounts, shared mailboxes, language, topic preference | `add_account`, `remove_account`, `set_shared`, `parent_slot`, `primary_slot`, reading old files, `i18n::resolve` | every handler |
| Triage and undo (`bot.rs`, `state.rs`) | one pending undo per chat, a gauge | `perform_triage_action`, the undo arm of `callback_handler` | JMAP server, Telegram, metrics |
| Topics (`topics.rs`) | `thread_id` of each slot and shared mailbox | `ensure_slot_topic`, `ensure_shared_topic`, `delete_topic`, `sync_all_topics`, `target_thread_id` | Telegram, store, the locks of the watcher maps |
| Commands and buttons (`bot.rs`) | none of their own; what a message's buttons name | `/login`, `/logout`, `/accounts`, `/shared`, `/lang`, `/threads`, `callback_handler` | all of the above |
| Formats (`format.rs`) | none | `notification_text`, callback data and keyboards, `chunk_text` | - |
| Session setup (`jmap.rs`) | none | `connect`, `connect_shared`, host checks | JMAP server |
| Health and metrics (`health.rs`) | registry of watchers, counters | `register`, `deregister*`, `update`, HTTP answers | probes |
| Boot (`main.rs`) | none | resumes every record, then dispatches | all |

How they interact. The dispatcher runs one chat's updates one at a time and the
updates of different chats side by side. Beside the handlers run one task per
watcher and, after boot, one per mailbox to be resumed. All of them share the
store (a synchronous lock around memory, another around a save), the maps of
clients and watchers (asynchronous locks, the watcher maps' held across calls
to Telegram while a topic is created) and the undo map. Watchers are stopped in
two ways: a teardown aborts the handle it finds in the map, at whatever `await`
the task has reached; and a watcher that finds its target gone from the record
ends by itself.

What is hard, and what correctness means:

* **Mail sync.** The cursor is written once per batch, from a copy of the record
  read before many awaits; saves fail, topics die in the middle of a batch, the
  process crashes, `/login` resets the cursor while the old watcher syncs. No
  incoming mail may be passed over in silence; nothing but a crash or a login
  may repeat one; the mailbox's history stays quiet; a `/mute` or `/unmute` holds
  from the next sync on, and no write takes it back; the cursor reaches every
  change.
* **Reconnection.** Alarms are earned, in time in every outage and not only in the
  first, alternate with the all-clear, and stand while an outage lasts.
* **Lifecycle.** Two adoptions of the same mailbox, a resume that connects after
  its mailbox was removed, commands that wait for a lock held over the network.
  No watcher that no map holds, no account without a watcher, no removed mailbox
  watched for ever, no command that never ends.
* **Store.** Concurrent saves of older and newer snapshots, a crash at any
  point of a save, a power failure before the directory reached the disk, a
  failed save after memory was changed, a stop in the middle of making the key
  without which nothing can be read. The file is whole, opens with the key
  beside it, is one moment of memory, and has what was acknowledged.
* **Undo.** One slot per chat for buttons on many cards; taps in any order; a
  server that moved the message but whose answer was lost; other mail clients.
  An undo restores exactly what was before; the gauge agrees with the map.
* **Record and topics.** Commands change the record in several steps, adoptions
  create topics while holding a lock of the watchers, `/threads` creates them
  holding none, boot creates them for what it read before, teardowns delete them
  before they wait for the locks, and the user deletes them too. A topic that
  exists is recorded or its loss is explained; nothing that was removed comes
  back; an address is connected once; a shared mailbox is opened by its parent.
* **Buttons.** A message's buttons stay in the chat while accounts come and go,
  ids are given out again, and older keyboards are tapped late. A press acts on
  the mailbox the message was sent for, or on none.
* **Texts.** Telegram counts UTF-16 units, limits a button's data to 64 bytes and
  rejects a message with one reserved character too many; any part of a long
  mail may be refused. What the reader gets is what there was to read.

`PROJECT.json` lists these hazards one by one, at their lines.

## 2. Modules

| Module | Models | Role |
|---|---|---|
| `MailSync` | one mailbox's watcher from wake-up to cursor write, its boot resume, the mail server, and the commands that touch its record | detailed specification |
| `MailDelivery` | what a cursor promises: it passes only what is settled | abstract specification that `MailSync` implements twice, for the cursor in memory and the one on disk |
| `MailSyncProofs` | - | theorems about `MailSync` |
| `ReconnectProofs` | - | theorems about `Reconnect` |
| `Lifecycle` | one chat's resumes, watchers, maps, locks and commands | detailed specification |
| `LifecycleProofs` | - | theorems about `Lifecycle` |
| `Store` | the record store with every writer, every step of a save, and the opening of the store with its key | detailed specification |
| `StoreProofs` | - | theorems about `Store` |
| `Record` | a chat's record, how it is read, and what each command or watcher may do to it | abstract specification that `Topics` implements |
| `RecordProofs` | - | theorems about `Record`, and a lemma for each of its operations |
| `Topics` | the topics of a chat, between those who create and those who delete them | detailed specification |
| `Buttons` | the buttons of one message, while commands change the accounts | detailed specification, over `Record` and `Texts` |
| `ChatProofs` | - | theorems about `Topics` and about `Buttons`, over those about `Record` |
| `Texts` | chunks, callback data, keyboards, MarkdownV2 | pure functions |
| `Writing` | their use: a text sent in parts, a button offered and pressed, a notification | state machine around `Texts` |
| `WritingProofs` | - | laws of the functions of `Texts`, and theorems about `Writing` |
| `Reconnect` | the retry loop around one connection | detailed specification |
| `Undo` | triage, undo and the gauge for several chats | detailed specification |
| `UndoProofs` | - | theorems about `Undo` |
| `MCMailSync`, `MCLifecycle`, `MCStore`, `MCUndo` | - | values of the constants for TLC |
| `MCChat` | `Topics`, `Buttons` and `Writing` beside each other | their constants, and one specification for all three |

A definition whose comment begins with "Mutant" is a faulty variant of the one
after it; nothing uses it. Each property has one (`mutants` in `PROJECT.json`)
under which TLC refutes it, so no property holds merely by the model's shape.

### MailSync

A JMAP state is a position in the account's change log: state *n* is the state
after the first *n* changes. `log` is that log, `gone` the messages destroyed
since, `horizon` the oldest state the server still calculates changes from. A
change is reduced to what the code decides by: whether it created a message, the
roles of its folders, the `$draft` keyword, whether it is the user's own, and
whether the chat's mute filter matches it (`listed`).

`pc` follows the code: `resume`/`connecting` is `accounts::resume_target_with`,
`backoff`/`check`/`select` is `run_once`, `baseline`/`fetch`/`deliver`/`fallback`
is `sync_and_notify`. Steps lie between awaits. `snap` is the copy of the record
that a sync keeps to its end; `mem` and `disk` are the record in memory and in
the file. A save fails or not, at each write. Simplifications: `UpdateState`
changes memory and saves in one step (`Store` has the steps between); the
record is that of one mailbox, and mute filters may stay when it goes because
the chat may have other accounts; filters are one bit. `order` is a history
variable: what the user last ordered of the filters (or was left with by a crash),
and how long the log was then. `FiltersTakeHold` measures the syncs against it.

### Lifecycle

The chat's targets are accounts and shared mailboxes; each kind has its own map
of clients and of watchers. A step lies between awaits, and an adoption that
creates a topic keeps the map locked from `Adopt` to `Release`. A handler's
command is a sequence of phases (`connect`, `deregister`, `unclient`, `unwatch`,
`adopt`, `holding`, `remove`), a teardown running once per target in `cur`. An
aborted task dies at its await; one that has already decided to leave finishes.
Credentials, labels and cursors are left out.

### Store

A record is the number of the change that wrote it, so that two records are
equal only if they are the same. Each task stands at a step of `persist`: lock,
serialise, create, write, rename, sync the directory, return. `file` and `key`
are the two entries of the directory as a process sees them; `remains` is the
set of directories a power failure may leave, since a rename or a new file is
durable only after the directory was synced. The temporary file's content is
synced before the rename.

`boot` is the opening of the store: a process finds the key, or makes it
(`create_new`, write, flush: three steps that may be cut short between any two),
then reads the records or refuses to start. `content` is what the key's file
holds; `trusted` is a key that a process wrote and did not live to flush and the
next one read, and `lost` what a power failure may make of it. Two assumptions
about the machine are stated in the module: a power failure leaves the directory
as it was at one moment since its last sync, and an unsynced file in any state.

Encryption and the old record formats are left out here (the latter are in
`Record`): the properties tell apart only which changes an image includes, which
key opens it, and whether it is whole. Permission bits and a second process on
the same volume are left out. `remove_account`'s two lock sections are merged;
no other command of the chat can run between them.

### Reconnect

The loop with its real constants. The counters of failed attempts stop at
`MaxFailures`, above the threshold, which loses nothing: beyond the threshold
the code compares, it does not count. A late `OptOut` is a removal whose abort
missed the task.

### Undo

A message stands for its account and id; a place is a set of mailboxes. The
handler of each chat goes step by step through the code's awaits, and the read
lock of `refresh_undo_gauge` is a set of readers that keeps writers out. `fresh`
stands for the deadline. Requests fail with and without effect.

### Record and Topics

`record` is `struct Account`: a map from slot ids to an address and a thread, a
map from shared mailboxes to a parent and a thread, a language and a topic
preference. What a slot connects to (server, token, cursor) is one value with its
address, and an address may be spelled in two ways. Slot ids have the order of
the `BTreeMap` they are keys of, because `primary_slot` is the first of them.
`Read` is what `store.rs` makes of a file, of this version or an older one.
`FileAssumption` says what a file holds: no address twice, each shared mailbox
through an account there is, and no topic ids, since the model numbers topics from
boot on.

`RecordNext` lists what any command or watcher may do to the record, each as one
step. `Topics` has the real steps: between two awaits a command may wait for a
watcher lock, for an adoption that creates a topic over the network, or for the
network itself, and what it does then it decides on values read before. The
property `RecordPromise` (`[][RecordNext]_recordVars`) says that it is still one
of those whole steps: no removed account comes back with a topic, no step undoes
another's.

In `Topics`, `making` has the creations under way: by an adoption of the handler
(`adopt`) or of boot (`boot`), which hold the lock of that kind of watchers
meanwhile, or by `/threads` (`sync`), which holds none. `job` is the handler's
command between two awaits. `lost` is a history variable: each step that makes a
topic unreachable, in a way the property's comment names, puts it there, so that
`StrayTopicsAreExplained` finds any other. Clients and streams are left to
`Lifecycle`; a crash is not modelled here (section 7).

### Buttons

`card` is one message of the chat: what its buttons name (`ref`), the mailbox it
was sent for (`of`), and for a mail the keyboards it has shown; any button of
these may be pressed, since a client may be slow to show the latest. Beside it
run all commands of `Record`. Two history fields serve the exemptions of
`NameIsGood`: `fresh` (the record has not vanished since) and `misled`. A client
is taken to be connected to what its slot holds now; that is `Lifecycle`'s. A
pending undo is `Undo`'s; here an undo may succeed or not.

### Texts and Writing

Texts are sequences of characters, of which one stands for those of two UTF-16
units and one for the line feed; the functions follow `format.rs` and are written
with folds. The text of a message is reduced to what is decided by: the wording,
dates and sizes of a notification are left out, its escaping, cutting, quoting,
links and joining are not. An id has no colon (RFC 8620); it may be anything else,
also `p`, the letter that stands for "no slot" in a shared mailbox's button.

`Writing` uses them: a text is cut and its parts are sent, each arriving or
refused; a keyboard is offered and one of its buttons pressed; a notification is
sent. Telegram's reading of MarkdownV2 is external, and modelled as strictly as
its documentation words it: an unescaped reserved character is an error.

## 3. Runs

| Run | Question | Bounds and why they are enough |
|---|---|---|
| `mailsync` | Is mail lost or repeated, is the mailbox's history announced, is a command about the filters defied? | three changes in batches of two: a batch of two, a second batch, mail arriving during both; one crash, one login, one other command, any number of failed saves and dead topics. A loss needs a cursor and a message on either side of it; three changes give two such pairs within one sync and across two. Three listed messages after a `/mute` are one more than the batch that may defy it. The entries are a newsletter in the inbox, which the filter matches, and the user's own mail to themselves in the inbox and the Sent folder, which the filter matches too; the sync's properties tell a message only as news or not, and as one the filter matches or not; the theorems hold for entries of every kind, with `SkipReasonCorrect` for the order of the filters. |
| `mailsync_live` | Does the cursor reach every change, and does `MailSync` implement `MailDelivery`? | two changes in batches of one, so a backlog needs two wake-ups; one destroyed message; a server that forgets; a mailbox in its parent's topic |
| `lifecycle` | Do two commands, with resumes, leave a stray watcher or an unwatched account? | two accounts, one shared mailbox, four tasks (the most the three targets and one relogin use at once), two commands: a race here is between one command, another after it and a resume |
| `lifecycle_live` | Do commands end and removed mailboxes get abandoned, across a crash? | one account with its shared mailbox, one command, one restart: the two lock orders that exist |
| `lifecycle_relogin` | The doc's claim about opted-in mailboxes; violated, see section 6 | one account, its shared mailbox, one command |
| `store` | Is the file whole, readable, current and consistent? | two chats with a handler and a watcher each: four savers in each other's way; four changes; two crashes or power failures, because the worst case of the key takes one process that dies before the flush and a power failure after the next; symmetric chats |
| `store_erasure` | The doc's claim about erasure; violated | two changes, no crash |
| `reconnect` | Are alarms earned, alternating, and do they stand? | the real schedule: all its 8 delays, and failures to twice the threshold; any number of outages and recoveries |
| `reconnect_notice` | The doc's claim about the second notice; violated | the same |
| `undo` | Is an undo exact, and the gauge too? | two chats, one with two messages: an undo of another message, of another chat; two triages, one move by another client, one restart |
| `undo_stale` | The doc's claim that each triage leaves an undo; violated | the same, with Telegram taking every answer |
| `chat` | Are topics kept or explained, does each command do one whole thing to the record, do buttons act on their mailbox, is what is shown what there was? | three slot ids, one before and one after the first login's; two accounts, one spelled in two ways; one shared mailbox; no record or one of an old file. Topics: two are created at most, which is enough for one to replace, outlive or duplicate another; two commands, beside three targets resumed at boot. Buttons: no bound on commands or presses. Texts: all of up to six characters for parts of three units, so two to six parts with cuts at, before and after a line and a wide character; ids of up to three letters around a data limit of seven; all pairs of fields of two characters from eight kinds, cut to one |

`MCChat` is a sum, not a product: `Topics`, `Buttons` and `Writing` share no state
but the record, and only one of them moves in a behaviour. `RecordPromise` holds of
the topics' behaviours for the reason above, and of the buttons' because these run
the record's own commands.

Deadlock is not checked: with its bounds exhausted each model may stop (and in
`Reconnect` a watcher may end). That nothing waits for ever is stated by the
liveness properties instead.

## 4. Fairness

* `MailSync`: weak fairness of the watcher's own steps. Strong fairness of
  `StartSync`: each time the stream opens, the poll timer fires at once and then
  every five minutes, whatever else wakes the loop. Strong fairness of `Fetch`,
  `Baseline` and `ResumeConnects`: a server asked again and again answers again
  and again. Nothing is assumed of Telegram, of the user, of arriving mail, of
  saves.
* `Lifecycle`: strong fairness of the handler's step and of a resume's steps
  that take a lock, since every network call of theirs has a timeout and tokio's
  `RwLock` is handed out in the order of the requests; strong fairness of
  opening a stream (the server comes back); weak fairness of the other steps.
* `Reconnect`: weak fairness of an attempt's end, of the loop's error arm and of
  the retry after a sleep. How long a stream stays open is not assumed, so it
  may stay open for ever.
* `Store`, `Undo` and the `chat` run state safety only: a topic, an undo or a part of a
  text that Telegram refuses is not tried again by the code.

## 5. Proofs

Eight modules hold theorems. Each proves inductive invariants of a component or
two, checked by TLC on the instance of section 3 before it was proved, and derives the
properties from it; all hold for every value of the constants that the named
assumptions allow, and for any number of accounts, chats, changes and commands.

### Mail sync (`MailSyncProofs`)

`TypeCorrect` (`TypeOK`), `NothingLost` (`CursorNeverOvertakes`), `SyncKeepsHold`
(`SyncInFlight`). `NothingLost`: neither the cursor in memory nor the one in the
file is past an incoming message that was not offered to Telegram, filtered or
destroyed, nor passed over by a login. It is not inductive: nothing in it forbids a
sync in progress to hold a `newState` beyond messages it already dropped, and
`FinishSync` would then break it. The inductive invariant is

    Inv == TypeOK /\ CursorNeverOvertakes /\ SyncInFlight

where `SyncInFlight` says what a sync's stale copies still guarantee: it asks
from a covered state only, and each message up to the state it will write is
settled or still in its batch. The argument then goes: settled changes stay
settled (`SettledStays`), so a covered cursor stays covered while it does not
move (`CoveredStays`); only `Baseline`, `FinishSync` and `LoginStores` move a
cursor forward (`CursorMoves`), and each has its own reason - a baseline and a
login move `base` along, a finished sync has an empty batch; only `StartSync`,
`Fetch` and the handling of one message change a sync in flight (`FlightMoves`).
`SkipReasonCorrect` ties the code's chain of filters to the README's words
(`Incoming`).

`MemoryKeepsPromise` and `FileKeepsPromise` are the two refinements of
`MailDelivery`: every step is, for the cursor in memory and for the one in the file,
a step of the abstract specification or a stutter.

`FiltersObeyed` (`FiltersTakeHold`), `HistoryIsQuiet` (`HistoryStaysQuiet`) and
`NothingRepeated` (`AnnouncedOnce`) have invariants of their own. `Obeyed` says that
the filters in memory are those the user ordered, whoever wrote the record last;
that a sync with older ones has defied the order within the batch in its hands only,
or not yet; and that all mail treated against the order lies within the window of one
batch, because a sync that starts later reads the order. `Quiet` adds that every state
which may become a cursor is one of after the start. `Once` speaks of behaviours without crash and
login: the cursor is where the sync under way asked from or has gone for good, the
batch is untold, and what was told of is up to the cursor or up to the state the
sync will write.

### Reconnection (`ReconnectProofs`)

For every schedule and threshold: `ScheduleIsKept` (`BackoffTypeOK`, the backoff within
its bounds), `NoticesInTurn` (`NoticesAlternate`), `AlarmsAreEarned` (`AlarmIsEarned`)
and `AlarmsAreGiven` (`AlarmInTime`, stated beside its proof: no alarm is missing, in
a later outage either; `OutageIsAnnounced` is what TLC checks of it). That follows from `CountIsDue`: while the loop waits or tries, the counter is the number
of failures since a stream was open, and the flag is up from the threshold on.
`AlarmsAreEarned` needs `CountIsEarned`: the code's counter is never ahead
of the attempts that failed since a stream was open - except while an open stream's
end has not been handled, when the counter is stale and about to be reset.

### Lifecycle (`LifecycleProofs`)

`TypeCorrect` (`TypeOK`), `NoStrayWatcher` (`WatcherIsHeld`), `NoOrphan`
(`SharedHasParent`), `NoAccountForgotten` (`AccountIsWatched`), from

    IInv == /\ Types /\ HandlerInPlace /\ ParentsHeld /\ HandleOwns /\ WatcherIsHeld
            /\ LockHeld /\ AccountsHeld

`HandlerInPlace` says what each phase of a command knows of it. `LockHeld`: a map's
lock is held by one holder, the handler or the resume that creates a topic.
`HandleOwns`: a handle is of a task for its own target, so the only place where a
task starts (`StartsTask`) and the only ones where a handle goes (a teardown, which
aborts it, and the end of the process) keep every living watcher in its map.
`AccountsHeld` is the strengthening that `AccountIsWatched` needs: it holds in the
midst of commands, except for the accounts that the command is about to adopt or
remove (`Exempt`), and says also that no watcher which has left is still in the map
for a resume or a login to mistake for a working one.

### Store (`StoreProofs`)

* `LockIsHeld` (`TypeOK`), with the lock held exactly by the task that saves.
* `NextProcessOpens` (`FileIsWhole`). The inductive invariant,
  `KeyComesFirst`, says more than the file: also each image a task still has in
  its hands (`Ready`) is whole and under the key in memory, which is in the
  directory, flushed, and in every directory a power failure may leave, before
  the first image is made.
* `AcknowledgedIsKept` (`AckedIsInFile`) and `SyncedIsKept` (`SyncedSurvives`).
  Both follow from `SavesInOrder`: an image in a
  task's hands is as new as the file and as everything acknowledged, includes the
  change the task is to save, and once renamed leaves `mine <= file.upto` until
  the answer is given. That the order cannot be broken rests on the lemma
  `HandOver`: while a task has an image nobody else saves, and only `Snapshot`,
  which takes memory as it is, makes one.
* `NoMixedFile` (`FileIsOneMoment`), from `OneMoment`: memory never turns
  back to an earlier value of a record (`MemoryMoves`), so an image that agreed
  with it keeps agreeing on what has not been touched since (`MomentStays`).

### Undo (`UndoProofs`)

`TypeCorrect` (`TypeOK`), `GaugeNeverDrifts` (`GaugeIsExact`) and the action
property `UndoIsExact` (`RestoreIsExact`), from `IInv == Typed /\ Counted /\ Owing`.
`Counted` says, besides `GaugeIsExact`, that a count made under the read lock is still
right when it is stored: no slot changes under a reader. `Owing` follows a place from
hand to hand: what a handler has yet to write down after a move, what its slot holds
and what an undo has taken out of it is where the last triage took the message from,
as far as that is known; and while an undo is being done the slot is empty.

### Record (`RecordProofs`)

`TypeCorrect` (`RecordTypeOK`), `NoAddressTwice` (`AddressOnce`),
`EveryShareIsOpened` (`SharedIsOpenedByParent`), from

    IInv == Good(record) /\ used \subseteq SlotId /\ Connected(record) \subseteq used

where `Good(r)` says that `r` has its types, holds no address twice, has only
shared mailboxes whose parent is connected and may open them, and is `NoRecord` or has
an account. Each operation on a record has a lemma (`AddingIsGood`, `RemovingIsGood`,
`OptingInIsGood`, ...) with its whole effect, and these are all that `Topics` and
`Buttons` need to know. `SharedIsOpenedByParent` is why `Good` has the other parts: a
login replaces the account of a slot under which mailboxes hang, and keeps them
openable only because the slot it takes holds the same address. Two assumptions are
needed for that: two spellings of an address have the same `Access` (they are one
account), and the file of a past run is as `FileAssumption` says. Reading is part of
the proof (`ReadingIsGood`): an old file's shared mailboxes that name no parent are
given one that is there.

### Topics (`ChatProofs`, first part)

`RecordIsImplemented` (`TopicsSpec => RecordPromise`) is a refinement: every step of
the commands with their awaits, of boot and of the watchers is to the record one
whole step of `Record`. `RecordStaysGood` takes `Record`'s own theorems over.
`TopicsTypeCorrect` (`TopicsTypeOK`) and `NoStrayTopic` (`StrayTopicsAreExplained`)
follow from

    TopicsInv == IInv /\ Typed /\ OneAtATime /\ InHand /\ Recording

`OneAtATime` is what the locks give: of the adoptions of one kind one at a time
creates a topic, the handler makes one at a time, and two creations for one target
know of each other. `InHand`: what a command is removing is still there when it comes
to it, and its topics of the time it looked are deleted or lost. `Recording`: recorded
topics were created and are distinct (`Numbered`, `Distinct`), an existing one is
recorded or lost (`Explained`), an undisturbed creation is its target's first
(`First`), and without `Dedicated` a shared mailbox has no topic (`Plain`). The
operator's `Dedicated` does not change between the runs of a process here.

### Buttons (`ChatProofs`, second part)

`ButtonsTypeCorrect` (`ButtonsTypeOK`), `EveryPressIsRouted` (`RoutedToItsMailbox`),
`MarksAreTrue` (`ReadMarkIsTrue`), `ChoiceStays` (`ChosenLanguageStays`), from
`ButtonsInv`, which adds to `Record`'s invariant three parts. `Reaches`: a message
that names a slot names one that was given out (`used`), and as long as that slot is
connected it holds the account the message was sent for - a slot keeps its account
(`SlotStays`, proved of each command by `CommandLeaves`) and an id is given out once,
except the first login's after the record has vanished, when the message is not
`fresh`. `MarkIsEarned`: not only the keyboard shown but every keyboard that a slow
client may still show bears a read mark only if the mail was marked.
`ChoiceIsStored`: the chosen language is the stored one, not just the one answered in.
That a first slot exists, for the names left out, needs the least of a set of ranks;
it comes from the well-foundedness of `<` on the naturals (`FirstSlot`).

### Texts and Writing (`WritingProofs`)

`EveryButtonReadsBack` (`ButtonsSurviveTheTrip`), `PartsHoldTheText`
(`ChunksHoldTheText`) and `NotificationReadsBack` (`MarkdownReadsBack`), for texts,
ids and fields of any length, any set of characters, any limits
(`TextsAssumption`: a part has room for a wide character) and any ids without a colon
(`WritingAssumption`, which also says that no slot is called `p`). The invariant of
the state machine, `WritingInv`, says only that what is being written is what a
function of `Texts` returned, so that the work lies in the functions.

*Induction.* The library's induction theorems take an operator, which the provers
cannot instantiate. `NatInduct` and `SeqInduct` say the same of a set: a set that has
the empty sequence, and with each sequence those that are one element longer, has all.
The first comes from the well-foundedness of `<` on the naturals.

*Folds.* `FoldLeft` and `FlattenSeq` take operators too, and are defined by a
recursive function over sets of indexes. `Fold` has a function for its step and is
defined by the run of its intermediate values. `StepsExist` and `WalkFolds` show that
the recursion over index sets has a solution and that any solution ends where `Fold`
ends; `UnitsFold`, `TakeFold`, `PutCharFold`, `PutLineFold` and `ReadFold` bring each
fold of the model to that form. From then on each is known by what it does to the
empty sequence, to one element more and to a concatenation.

*Buttons.* An id has no colon, so the first colon of a button's data ends its letter
and the second one, if a reference is named, the reference (`SplitTwo`, `SplitThree`,
`DataReadsBack`). Every letter is one character, which is why a message's buttons fit all or
none (`SizeIs`).

*Parts.* `GoodCut` is the invariant of the loop of `chunk_text` over lines: the parts
that are done are within the limit and each closed by the line after it (`Filled`),
and the words of the parts - their lines that hold something - split the words of the
lines put so far (`Split`): equal when flattened, with an end wherever a line ends and
none within a line that fits. One line more keeps it (`PutLineKeeps`), in two cases.
A line that fits a part goes there whole. One that does not is put character by
character, and `Cutting` is the invariant of that inner loop: all pieces but the last
are full up to a wide character.

*Notifications.* `Is` says where the reader of MarkdownV2 is. An escaped text moves it by
exactly that text, in a text, a link's label and a link's url, each with its own set of
escaped characters (`EscapedTextIsRead`, `EscapedLabelIsRead`, `EscapedUrlIsRead`). `Reads`
says that a piece of markup shows what was meant after any items of a set - after
anything, or at the start of a line - so that pieces compose (`ReadsThen`): a link is one
item (`LinkReads`), a quote mark is a quote only at the start of a line, and each of the
preview's lines is one, because escaping neither adds nor removes a line feed
(`TookEscaped`, `QuotedReads`). `NotificationReads` puts the four fields together, for
any fields and any number of attachments.

### What is only model-checked

* Liveness under fairness, out of the provers' reach: `EveryChangeReached`,
  `CommandsEnd`, `RemovedIsAbandoned`, `OutageIsAnnounced`.
* The four runs that expect a violation: a counterexample is the answer.

## 6. Where the code and its documents differ

Four runs expect a violation; the finding in `PROJECT.json` quotes the lines.

1. `lifecycle_relogin`: `forget_account` tears down the shared mailboxes under an
   account, and `/login` to a known address brings back only the account. They
   stay opted in, unwatched, until the next restart.
2. `store_erasure`: a removal whose save fails has already changed memory. The
   user is told that there is nothing to log out; trying again reports success
   without writing; the record is on disk and is resumed at the next boot.
3. `reconnect_notice`: the notice that a connection is back is sent only when
   the recovered stream drops again.
4. `undo_stale`: a tap on the dead Undo button of an earlier message takes the
   chat's only slot, and the last action loses its undo.

Beside these, the models show by name, as an exemption in a property or a case of a
history variable, what a reader of the code may want to know:

* *A button that names no slot.* Results of `/search` and lines of `/partages` leave
  out the id of the first login's account, and are resolved to the least slot id
  (`bot.rs:867`, `bot.rs:1440-1446`, `format.rs:250-257`). A generated id may come before
  `default`: then such a button acts on the other account (`NameIsGood`).
* *An id given out again.* When the record has vanished, the next login's slot is
  `default` once more, and buttons of older messages act on the new account.
* *A connection that fails.* A command over all accounts ends at the first that
  cannot connect (`bot.rs:1082`).
* *Topics that outlive their target* (`lost` in `Topics`). Disconnecting an account
  deletes its topic, not those of the shared mailboxes that go with it. A login
  to a connected address forgets the slot's topic and makes a second. The ids of
  the topics to delete are read before the locks are waited for, so one that a boot
  adoption stores meanwhile stays behind. `/threads` and an adoption may each make
  a topic for the same target, and the later one is recorded.
* *A boot adoption that comes late.* If it began before the record vanished and a new
  login took the slot `default`, it stores its topic, named for the old account, for
  the new one.
* *A dead topic of the parent.* A shared mailbox that posts into its parent's topic
  forgets its own thread when that topic is gone, not its parent's (`ThreadNotFound`),
  so that each later mail is refused there first and sent again to the root chat
  (`watcher.rs:482-494`).
* *The key.* A process that stops between creating and writing `master.key` leaves
  an empty file, which ends every later boot until it is deleted; no records exist
  by then. One that stops between writing and flushing it leaves a key the next
  process trusts without a flush (`store.rs:763-776`, `store.rs:826`), so that a power
  failure may still take it when records depend on it.
* *Ids of shared mailboxes* are keys of their own: two servers that use the same one
  share an entry. `Record` takes them to differ.
* *The length of a notification.* Each field is bounded, in characters, not in the
  UTF-16 units Telegram counts (`format.rs:11-20`). Their sum is not checked.

## 7. Not modelled

Session setup and host checks (network input and output, and a classification of
addresses), configuration, logging, packaging and continuous integration; the
wording of texts in either language, dates and sizes. Read-only commands
(`/status`, `/help`, listings) change nothing a property speaks of, beyond the
buttons they show. Of `health.rs` the registry behind adoptions and the undo gauge
are modelled; the HTTP endpoint is not.

Details of the data that are simplified: the limits of a field and of the preview
(300 and 400 characters, `format.rs:17-18`) are one constant; the wording of a mailbox's label is left out; `mailto_url` takes
out the blanks of the model, which has no other control character; a file of the
current version is taken to hold no topic ids at boot, and two servers never to use
the same id for a shared mailbox.

Known gaps in what is modelled: a `/login` that changes credentials while a resume
connects with the old ones and adopts between the login's teardown and its own
adoption (`accounts.rs:264`); a crash between the creation of a topic and the saving
of its id, which leaves a topic nobody knows of; a
cursor the server has forgotten is never replaced (modelled; `EveryChangeReached`
exempts it by name); a health entry registered again during a teardown.

## 8. Plan

Done, in order of importance to the system: `MailSync` and `MailDelivery`;
`Lifecycle`; `Store` with its key; `Reconnect`; `Undo`; `Record`, `Topics`,
`Buttons`, `Texts` and `Writing`; and the proof of every safety property the passing
runs check.

Left:

1. `Lifecycle` with credentials, and a property for the health registry.
2. A crash in `Topics`, and a file that has topics of a past run.
3. A run for the dead topic of a parent, of which the comment at `watcher.rs:482` says
   that later notifications do not fail.
