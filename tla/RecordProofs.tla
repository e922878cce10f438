----------------------------- MODULE RecordProofs -----------------------------
(***************************************************************************)
(* Proofs about Record, for every value of its constants.                  *)
(***************************************************************************)
EXTENDS Record, TLAPS

USE DEF None, NoTopic, Supported

-----------------------------------------------------------------------------
(* What every record of the chat is: an operation of src/store.rs makes such *)
(* a record of such a record.                                              *)

Slot == [of: Account, thread: 0..MaxTopics]
Share == [parent: SlotId, thread: 0..MaxTopics]

IsMap(f) == f = [k \in DOMAIN f |-> f[k]]

Fields(a, s, l, t) == [accounts |-> a, shared |-> s, language |-> l, threads |-> t]

HasItsTypes(r) ==
    /\ r = Fields(r.accounts, r.shared, r.language, r.threads)
    /\ IsMap(r.accounts) /\ IsMap(r.shared)
    /\ Connected(r) \subseteq SlotId /\ \A s \in Connected(r) : r.accounts[s] \in Slot
    /\ OptedIn(r) \subseteq Shared /\ \A m \in OptedIn(r) : r.shared[m] \in Share
    /\ r.language \in Supported \cup {None}
    /\ r.threads \in {"on", "off", None}

SpelledOnce(r) ==
    \A s, u \in Connected(r) :
        Spelled[r.accounts[s].of] = Spelled[r.accounts[u].of] => s = u

Opened(r) ==
    \A m \in OptedIn(r) :
        /\ r.shared[m].parent \in Connected(r)
        /\ m \in Access[r.accounts[r.shared[m].parent].of]

Good(r) ==
    /\ HasItsTypes(r) /\ SpelledOnce(r) /\ Opened(r)
    /\ r = NoRecord \/ Exists(r)

(* The inductive invariant: a slot id in use was given out.                 *)
IInv == Good(record) /\ used \subseteq SlotId /\ Connected(record) \subseteq used

-----------------------------------------------------------------------------
(* Maps.                                                                   *)

LEMMA PutIs ==
    ASSUME NEW map, NEW key, NEW value
    PROVE  /\ DOMAIN Put(map, key, value) = DOMAIN map \cup {key}
           /\ Put(map, key, value)[key] = value
           /\ \A k \in DOMAIN map : k # key => Put(map, key, value)[k] = map[k]
           /\ IsMap(Put(map, key, value))
  BY DEF Put, IsMap

LEMMA WithoutIs ==
    ASSUME NEW map, NEW keys
    PROVE  /\ DOMAIN Without(map, keys) = DOMAIN map \ keys
           /\ \A k \in DOMAIN map \ keys : Without(map, keys)[k] = map[k]
           /\ IsMap(Without(map, keys))
  BY DEF Without, IsMap

LEMMA FieldsAre ==
    ASSUME NEW a, NEW s, NEW l, NEW t
    PROVE  /\ Fields(a, s, l, t).accounts = a /\ Fields(a, s, l, t).shared = s
           /\ Fields(a, s, l, t).language = l /\ Fields(a, s, l, t).threads = t
           /\ Connected(Fields(a, s, l, t)) = DOMAIN a
           /\ OptedIn(Fields(a, s, l, t)) = DOMAIN s
  BY DEF Fields, Connected, OptedIn

LEMMA NothingIsGood == Good(NoRecord)
  <1>1. DOMAIN Nothing = {} /\ IsMap(Nothing)
    BY DEF Nothing, IsMap
  <1>2. /\ NoRecord = Fields(Nothing, Nothing, None, None)
        /\ NoRecord.accounts = Nothing /\ NoRecord.shared = Nothing
        /\ NoRecord.language = None /\ NoRecord.threads = None
        /\ Connected(NoRecord) = {} /\ OptedIn(NoRecord) = {}
    BY <1>1 DEF NoRecord, Fields, Connected, OptedIn
  <1> HIDE DEF NoRecord, Nothing
  <1>3. QED
    BY <1>1, <1>2 DEF Good, HasItsTypes, SpelledOnce, Opened

-----------------------------------------------------------------------------
(* What the operations make of a record.                                   *)

(* An account gets a slot of its own, or the one its address has.           *)
LEMMA AddingIsGood ==
    ASSUME NEW r, Good(r), NEW slot \in SlotId, NEW account \in Account,
           \/ slot \notin Connected(r) /\ Holders(r, account) = {}
           \/ slot \in Holders(r, account)
    PROVE  /\ Good(AddAccount(r, slot, account))
           /\ Exists(AddAccount(r, slot, account))
           /\ Connected(AddAccount(r, slot, account)) = Connected(r) \cup {slot}
           /\ Targets(AddAccount(r, slot, account)) = Targets(r) \cup {slot}
           /\ \A t \in Targets(r) \cup {slot} :
                Thread(AddAccount(r, slot, account), t)
                  = IF t = slot THEN NoTopic ELSE Thread(r, t)
           /\ \A s \in Connected(r) \cup {slot} :
                AddAccount(r, slot, account).accounts[s].of
                  = IF s = slot THEN account ELSE r.accounts[s].of
           /\ AddAccount(r, slot, account).language = r.language
  <1> DEFINE new == [of |-> account, thread |-> NoTopic]
             a == Put(r.accounts, slot, new)
             q == AddAccount(r, slot, account)
  <1>1. q = Fields(a, r.shared, r.language, r.threads)
    BY DEF AddAccount, Good, HasItsTypes, Fields
  <1>2. /\ q.accounts = a /\ q.shared = r.shared
        /\ q.language = r.language /\ q.threads = r.threads
        /\ Connected(q) = DOMAIN a /\ OptedIn(q) = OptedIn(r)
    BY <1>1, FieldsAre DEF OptedIn
  <1> HIDE DEF new
  <1>3. /\ DOMAIN a = Connected(r) \cup {slot} /\ a[slot] = new
        /\ \A s \in Connected(r) : s # slot => a[s] = r.accounts[s]
        /\ IsMap(a)
    <2> DEFINE map == r.accounts
    <2> HIDE DEF map
    <2>1. /\ DOMAIN Put(map, slot, new) = DOMAIN map \cup {slot}
          /\ Put(map, slot, new)[slot] = new
          /\ \A k \in DOMAIN map : k # slot => Put(map, slot, new)[k] = map[k]
          /\ IsMap(Put(map, slot, new))
      BY PutIs
    <2>2. QED
      BY <2>1 DEF map, Connected
  <1>4. new \in Slot /\ new.of = account
    BY RecordAssumption DEF Slot, new
  <1> HIDE DEF a, q
  <1>5. HasItsTypes(q)
    BY <1>1, <1>2, <1>3, <1>4 DEF Good, HasItsTypes
  <1>6. SpelledOnce(q)
    BY <1>2, <1>3, <1>4 DEF Good, SpelledOnce, Holders
  <1>7. Opened(q)
    <2> SUFFICES ASSUME NEW m \in OptedIn(q)
                 PROVE  /\ q.shared[m].parent \in Connected(q)
                        /\ m \in Access[q.accounts[q.shared[m].parent].of]
      BY DEF Opened
    <2>1. PICK p \in Connected(r) :
              p = r.shared[m].parent /\ m \in Access[r.accounts[p].of]
      BY <1>2 DEF Good, Opened
    <2>2. p \in Connected(q) /\ p = q.shared[m].parent
      BY <1>2, <1>3, <2>1
    <2>3. CASE p # slot
      BY <1>2, <1>3, <2>1, <2>2, <2>3
    <2>4. CASE p = slot
      <3>1. Spelled[r.accounts[slot].of] = Spelled[account]
        BY <2>1, <2>4 DEF Holders
      <3>2. r.accounts[slot].of \in Account
        BY <2>1, <2>4 DEF Good, HasItsTypes, Slot
      <3>3. Access[r.accounts[slot].of] = Access[account]
        BY <3>1, <3>2, FileAssumption
      <3>4. QED
        BY <1>2, <1>3, <1>4, <2>1, <2>2, <2>4, <3>3
    <2>5. QED
      BY <2>3, <2>4
  <1>8. Exists(q) /\ Connected(q) = Connected(r) \cup {slot}
    BY <1>2, <1>3 DEF Exists
  <1>9. new.thread = NoTopic
    BY DEF new
  <1>10. /\ Targets(q) = Targets(r) \cup {slot}
         /\ \A t \in Targets(r) \cup {slot} :
              Thread(q, t) = IF t = slot THEN NoTopic ELSE Thread(r, t)
    BY <1>2, <1>3, <1>8, <1>9 DEF Targets, Thread
  <1>11. /\ \A s \in Connected(r) \cup {slot} :
              q.accounts[s].of = IF s = slot THEN account ELSE r.accounts[s].of
         /\ q.language = r.language
    BY <1>2, <1>3, <1>4
  <1>12. QED
    BY <1>5, <1>6, <1>7, <1>8, <1>10, <1>11 DEF Good, q

(* The shared mailboxes an account opens go with it.                        *)
LEMMA RemovingIsGood ==
    ASSUME NEW r, Good(r), NEW slot
    PROVE  /\ Good(RemoveAccount(r, slot))
           /\ Connected(RemoveAccount(r, slot)) = Connected(r) \ {slot}
           /\ Targets(RemoveAccount(r, slot)) \subseteq Targets(r)
           /\ Targets(r) \subseteq Targets(RemoveAccount(r, slot))
                                 \cup {slot} \cup Children(r, slot)
           /\ \A t \in Targets(RemoveAccount(r, slot)) :
                Thread(RemoveAccount(r, slot), t) = Thread(r, t)
           /\ \A s \in Connected(r) \ {slot} :
                RemoveAccount(r, slot).accounts[s].of = r.accounts[s].of
           /\ RemoveAccount(r, slot) = NoRecord
                \/ RemoveAccount(r, slot).language = r.language
  <1> DEFINE q == RemoveAccount(r, slot)
             a == Without(r.accounts, {slot})
             s == IF slot \in Connected(r) THEN Without(r.shared, Children(r, slot))
                  ELSE r.shared
  <1>1. CASE Connected(r) \subseteq {slot}
    <2>1. q = NoRecord
      BY <1>1 DEF RemoveAccount
    <2>2. Connected(NoRecord) = {} /\ Targets(NoRecord) = {}
      BY DEF NoRecord, Nothing, Connected, OptedIn, Targets
    <2>3. Targets(r) \subseteq {slot} \cup Children(r, slot)
      BY <1>1 DEF Good, Opened, Targets, Children, IsChildOf
    <2>4. QED
      BY <1>1, <2>1, <2>2, <2>3, NothingIsGood
  <1>2. CASE ~(Connected(r) \subseteq {slot})
    <2>1. q = Fields(a, s, r.language, r.threads)
      BY <1>2 DEF RemoveAccount, Good, HasItsTypes, Fields
    <2>2. /\ q.accounts = a /\ q.shared = s
          /\ q.language = r.language /\ q.threads = r.threads
          /\ Connected(q) = DOMAIN a /\ OptedIn(q) = DOMAIN s
      BY <2>1, FieldsAre
    <2>3. /\ DOMAIN a = Connected(r) \ {slot}
          /\ \A k \in DOMAIN a : a[k] = r.accounts[k]
          /\ IsMap(a)
      <3> DEFINE map == r.accounts
      <3> HIDE DEF map
      <3>1. /\ DOMAIN Without(map, {slot}) = DOMAIN map \ {slot}
            /\ \A k \in DOMAIN map \ {slot} : Without(map, {slot})[k] = map[k]
            /\ IsMap(Without(map, {slot}))
        BY WithoutIs
      <3>2. QED
        BY <3>1 DEF map, Connected
    <2>4. /\ DOMAIN s \subseteq OptedIn(r)
          /\ \A m \in DOMAIN s : s[m] = r.shared[m]
          /\ IsMap(s)
          /\ \A m \in DOMAIN s : s[m].parent # slot
          /\ OptedIn(r) \subseteq DOMAIN s \cup Children(r, slot)
      <3>1. CASE slot \in Connected(r)
        <4>1. /\ DOMAIN s = OptedIn(r) \ Children(r, slot)
              /\ \A m \in DOMAIN s : s[m] = r.shared[m]
              /\ IsMap(s)
          <5> DEFINE map == r.shared
                     gone == Children(r, slot)
          <5> HIDE DEF map, gone
          <5>1. /\ DOMAIN Without(map, gone) = DOMAIN map \ gone
                /\ \A k \in DOMAIN map \ gone : Without(map, gone)[k] = map[k]
                /\ IsMap(Without(map, gone))
            BY WithoutIs
          <5>2. QED
            BY <3>1, <5>1 DEF map, gone, OptedIn
        <4>2. QED
          BY <4>1 DEF Children, IsChildOf
      <3>2. CASE slot \notin Connected(r)
        BY <3>2 DEF Good, HasItsTypes, Opened, OptedIn
      <3>3. QED
        BY <3>1, <3>2
    <2> HIDE DEF a, s, q
    <2>5. HasItsTypes(q)
      BY <2>1, <2>2, <2>3, <2>4 DEF Good, HasItsTypes
    <2>6. SpelledOnce(q)
      BY <2>2, <2>3 DEF Good, SpelledOnce
    <2>7. Opened(q)
      BY <2>2, <2>3, <2>4 DEF Good, Opened
    <2>8. Exists(q)
      BY <1>2, <2>2, <2>3 DEF Exists
    <2>9. /\ Targets(q) \subseteq Targets(r)
          /\ Targets(r) \subseteq Targets(q) \cup {slot} \cup Children(r, slot)
          /\ \A t \in Targets(q) : Thread(q, t) = Thread(r, t)
      <3>1. Connected(r) \cap OptedIn(r) = {}
        BY RecordAssumption DEF Good, HasItsTypes
      <3>2. QED
        BY <2>2, <2>3, <2>4, <3>1 DEF Targets, Thread
    <2>10. /\ \A k \in Connected(r) \ {slot} : q.accounts[k].of = r.accounts[k].of
           /\ q.language = r.language
      BY <2>2, <2>3
    <2>11. QED
      BY <2>2, <2>3, <2>5, <2>6, <2>7, <2>8, <2>9, <2>10 DEF Good, q
  <1>3. QED
    BY <1>1, <1>2

LEMMA OptingInIsGood ==
    ASSUME NEW r, Good(r), NEW m \in Shared, NEW parent \in Connected(r),
           m \in Access[r.accounts[parent].of]
    PROVE  /\ Good(SetShared(r, m, parent))
           /\ Connected(SetShared(r, m, parent)) = Connected(r)
           /\ Targets(SetShared(r, m, parent)) = Targets(r) \cup {m}
           /\ \A t \in Targets(r) \cup {m} :
                Thread(SetShared(r, m, parent), t)
                  = IF t = m THEN NoTopic ELSE Thread(r, t)
           /\ SetShared(r, m, parent).accounts = r.accounts
           /\ SetShared(r, m, parent).language = r.language
  <1> DEFINE new == [parent |-> parent, thread |-> NoTopic]
             s == Put(r.shared, m, new)
             q == SetShared(r, m, parent)
  <1>1. q = Fields(r.accounts, s, r.language, r.threads)
    BY DEF SetShared, Good, HasItsTypes, Fields
  <1>2. /\ q.accounts = r.accounts /\ q.shared = s
        /\ q.language = r.language /\ q.threads = r.threads
        /\ Connected(q) = Connected(r) /\ OptedIn(q) = DOMAIN s
    BY <1>1, FieldsAre DEF Connected
  <1> HIDE DEF new
  <1>3. /\ DOMAIN s = OptedIn(r) \cup {m} /\ s[m] = new
        /\ \A k \in OptedIn(r) : k # m => s[k] = r.shared[k]
        /\ IsMap(s)
    <2> DEFINE map == r.shared
    <2> HIDE DEF map
    <2>1. /\ DOMAIN Put(map, m, new) = DOMAIN map \cup {m}
          /\ Put(map, m, new)[m] = new
          /\ \A k \in DOMAIN map : k # m => Put(map, m, new)[k] = map[k]
          /\ IsMap(Put(map, m, new))
      BY PutIs
    <2>2. QED
      BY <2>1 DEF map, OptedIn
  <1>4. new \in Share /\ new.parent = parent
    BY RecordAssumption DEF Share, Good, HasItsTypes, new
  <1> HIDE DEF s, q
  <1>5. HasItsTypes(q)
    BY <1>1, <1>2, <1>3, <1>4 DEF Good, HasItsTypes
  <1>6. SpelledOnce(q) /\ Exists(q)
    BY <1>2 DEF Good, SpelledOnce, Exists
  <1>7. Opened(q)
    BY <1>2, <1>3, <1>4 DEF Good, Opened
  <1>8. new.thread = NoTopic /\ m \notin Connected(r)
    BY RecordAssumption DEF new, Good, HasItsTypes
  <1>9. /\ Targets(q) = Targets(r) \cup {m}
        /\ \A t \in Targets(r) \cup {m} :
             Thread(q, t) = IF t = m THEN NoTopic ELSE Thread(r, t)
    BY <1>2, <1>3, <1>8 DEF Targets, Thread
  <1>10. QED
    BY <1>2, <1>5, <1>6, <1>7, <1>9 DEF Good, q

LEMMA OptingOutIsGood ==
    ASSUME NEW r, Good(r), NEW m \in OptedIn(r)
    PROVE  /\ Good(RemoveShared(r, m))
           /\ Connected(RemoveShared(r, m)) = Connected(r)
           /\ Targets(RemoveShared(r, m)) = Targets(r) \ {m}
           /\ \A t \in Targets(r) \ {m} : Thread(RemoveShared(r, m), t) = Thread(r, t)
           /\ RemoveShared(r, m).accounts = r.accounts
           /\ RemoveShared(r, m).language = r.language
  <1> DEFINE s == Without(r.shared, {m})
             q == RemoveShared(r, m)
  <1>1. q = Fields(r.accounts, s, r.language, r.threads)
    BY DEF RemoveShared, Good, HasItsTypes, Fields
  <1>2. /\ q.accounts = r.accounts /\ q.shared = s
        /\ q.language = r.language /\ q.threads = r.threads
        /\ Connected(q) = Connected(r) /\ OptedIn(q) = DOMAIN s
    BY <1>1, FieldsAre DEF Connected
  <1>3. /\ DOMAIN s = OptedIn(r) \ {m} /\ \A k \in DOMAIN s : s[k] = r.shared[k]
        /\ IsMap(s)
    <2> DEFINE map == r.shared
    <2> HIDE DEF map
    <2>1. /\ DOMAIN Without(map, {m}) = DOMAIN map \ {m}
          /\ \A k \in DOMAIN map \ {m} : Without(map, {m})[k] = map[k]
          /\ IsMap(Without(map, {m}))
      BY WithoutIs
    <2>2. QED
      BY <2>1 DEF map, OptedIn
  <1> HIDE DEF s, q
  <1>4. HasItsTypes(q)
    BY <1>1, <1>2, <1>3 DEF Good, HasItsTypes
  <1>5. SpelledOnce(q) /\ Opened(q)
    BY <1>2, <1>3 DEF Good, SpelledOnce, Opened
  <1>6. Exists(q)
    <2>1. Connected(r) # {}
      BY DEF Good, Opened
    <2>2. QED
      BY <1>2, <2>1 DEF Exists
  <1>7. /\ Targets(q) = Targets(r) \ {m}
        /\ \A t \in Targets(r) \ {m} : Thread(q, t) = Thread(r, t)
    <2>1. m \notin Connected(r)
      BY RecordAssumption DEF Good, HasItsTypes
    <2>2. QED
      BY <1>2, <1>3, <2>1 DEF Targets, Thread
  <1>8. QED
    BY <1>2, <1>4, <1>5, <1>6, <1>7 DEF Good, q

(* The chat's choices.                                                     *)
LEMMA FieldsAreFree ==
    ASSUME NEW r, Good(r), Exists(r), NEW l \in Supported \cup {None},
           NEW t \in {"on", "off", None}, NEW q, q = Fields(r.accounts, r.shared, l, t)
    PROVE  /\ Good(q) /\ Connected(q) = Connected(r) /\ OptedIn(q) = OptedIn(r)
           /\ \A u : Thread(q, u) = Thread(r, u)
           /\ q.accounts = r.accounts /\ q.language = l
  <1>1. /\ q.accounts = r.accounts /\ q.shared = r.shared
        /\ q.language = l /\ q.threads = t
        /\ Connected(q) = Connected(r) /\ OptedIn(q) = OptedIn(r)
    BY FieldsAre DEF Connected, OptedIn
  <1>2. HasItsTypes(q)
    BY <1>1 DEF Good, HasItsTypes
  <1>3. SpelledOnce(q) /\ Opened(q) /\ Exists(q)
    BY <1>1 DEF Good, SpelledOnce, Opened, Exists
  <1>4. QED
    BY <1>1, <1>2, <1>3 DEF Good, Thread

LEMMA ChoosingIsGood ==
    ASSUME NEW r, Good(r), Exists(r), NEW language \in Supported \cup {None},
           NEW q, q = [r EXCEPT !.language = language]
    PROVE  /\ Good(q) /\ Connected(q) = Connected(r) /\ OptedIn(q) = OptedIn(r)
           /\ \A t : Thread(q, t) = Thread(r, t)
           /\ q.accounts = r.accounts /\ q.language = language
  <1>1. /\ q = Fields(r.accounts, r.shared, language, r.threads)
        /\ r.threads \in {"on", "off", None}
    BY DEF Good, HasItsTypes, Fields
  <1>2. QED
    BY <1>1, FieldsAreFree

LEMMA PreferringIsGood ==
    ASSUME NEW r, Good(r), Exists(r), NEW threads \in {"on", "off", None},
           NEW q, q = [r EXCEPT !.threads = threads]
    PROVE  /\ Good(q) /\ Connected(q) = Connected(r) /\ OptedIn(q) = OptedIn(r)
           /\ \A t : Thread(q, t) = Thread(r, t)
  <1>1. /\ q = Fields(r.accounts, r.shared, r.language, threads)
        /\ r.language \in Supported \cup {None}
    BY DEF Good, HasItsTypes, Fields
  <1>2. QED
    BY <1>1, FieldsAreFree

(* A topic is written down for a target.                                    *)
LEMMA ThreadingIsGood ==
    ASSUME NEW r, Good(r), NEW t \in Targets(r), NEW topic \in 0..MaxTopics
    PROVE  /\ Good(SetThread(r, t, topic))
           /\ Connected(SetThread(r, t, topic)) = Connected(r)
           /\ OptedIn(SetThread(r, t, topic)) = OptedIn(r)
           /\ \A u \in Targets(r) :
                Thread(SetThread(r, t, topic), u) = IF u = t THEN topic ELSE Thread(r, u)
  <1> DEFINE q == SetThread(r, t, topic)
  <1>1. CASE t \in Connected(r)
    <2> DEFINE a == [r.accounts EXCEPT ![t].thread = topic]
    <2>1. q = Fields(a, r.shared, r.language, r.threads)
      BY <1>1 DEF SetThread, Good, HasItsTypes, Fields
    <2>2. /\ q.accounts = a /\ q.shared = r.shared
          /\ q.language = r.language /\ q.threads = r.threads
          /\ Connected(q) = DOMAIN a /\ OptedIn(q) = OptedIn(r)
      BY <2>1, FieldsAre DEF OptedIn
    <2>3. r.accounts[t] \in Slot
      BY <1>1 DEF Good, HasItsTypes
    <2>4. /\ DOMAIN a = Connected(r)
          /\ \A s \in DOMAIN a : s # t => a[s] = r.accounts[s]
          /\ a[t] = [r.accounts[t] EXCEPT !.thread = topic]
          /\ IsMap(a)
      BY <1>1 DEF Connected, IsMap
    <2>5. a[t] \in Slot /\ a[t].of = r.accounts[t].of
      BY <2>3, <2>4 DEF Slot
    <2> HIDE DEF a, q
    <2>6. HasItsTypes(q)
      BY <2>1, <2>2, <2>4, <2>5 DEF Good, HasItsTypes
    <2>7. \A s \in Connected(q) : q.accounts[s].of = r.accounts[s].of
      BY <2>2, <2>4, <2>5
    <2>8. SpelledOnce(q) /\ Opened(q) /\ Exists(q)
      BY <1>1, <2>2, <2>4, <2>7 DEF Good, SpelledOnce, Opened, Exists
    <2>9. a[t].thread = topic
      BY <2>3, <2>4 DEF Slot
    <2>10. \A u \in Targets(r) : Thread(q, u) = IF u = t THEN topic ELSE Thread(r, u)
      BY <1>1, <2>2, <2>4, <2>9 DEF Thread
    <2>11. QED
      BY <2>2, <2>4, <2>6, <2>8, <2>10 DEF Good, q
  <1>2. CASE t \notin Connected(r)
    <2> DEFINE s == [r.shared EXCEPT ![t].thread = topic]
    <2>1. q = Fields(r.accounts, s, r.language, r.threads) /\ t \in OptedIn(r)
      BY <1>2 DEF SetThread, Good, HasItsTypes, Fields, Targets
    <2>2. /\ q.accounts = r.accounts /\ q.shared = s
          /\ q.language = r.language /\ q.threads = r.threads
          /\ Connected(q) = Connected(r) /\ OptedIn(q) = DOMAIN s
      BY <2>1, FieldsAre DEF Connected
    <2>3. r.shared[t] \in Share
      BY <2>1 DEF Good, HasItsTypes
    <2>4. /\ DOMAIN s = OptedIn(r)
          /\ \A m \in DOMAIN s : m # t => s[m] = r.shared[m]
          /\ s[t] = [r.shared[t] EXCEPT !.thread = topic]
          /\ IsMap(s)
      BY <2>1 DEF OptedIn, IsMap
    <2>5. s[t] \in Share /\ s[t].parent = r.shared[t].parent
      BY <2>3, <2>4 DEF Share
    <2> HIDE DEF s, q
    <2>6. HasItsTypes(q)
      BY <2>1, <2>2, <2>4, <2>5 DEF Good, HasItsTypes
    <2>7. \A m \in OptedIn(q) : q.shared[m].parent = r.shared[m].parent
      BY <2>2, <2>4, <2>5
    <2>8. SpelledOnce(q) /\ Opened(q)
      BY <2>2, <2>4, <2>7 DEF Good, SpelledOnce, Opened
    <2>9. Exists(q)
      BY <2>1, <2>2 DEF Good, Opened, Exists
    <2>10. s[t].thread = topic
      BY <2>3, <2>4 DEF Share
    <2>11. \A u \in Targets(r) : Thread(q, u) = IF u = t THEN topic ELSE Thread(r, u)
      BY <1>2, <2>1, <2>2, <2>4, <2>10 DEF Thread
    <2>12. QED
      BY <2>2, <2>4, <2>6, <2>8, <2>9, <2>11 DEF Good, q
  <1>3. QED
    BY <1>1, <1>2

-----------------------------------------------------------------------------
(* The file of an older version.                                            *)

LEMMA ReadingIsGood ==
    ASSUME NEW old \in OldRecords
    PROVE  Good(Read(old)) /\ \A t : Thread(Read(old), t) = NoTopic
  <1> DEFINE q == Read(old)
  <1>1. /\ Kept(old)
        /\ old.language \in Supported \cup {None}
        /\ old.threads \in {"on", "off", None}
    BY FileAssumption DEF Kept
  <1>2. ASSUME NEW shared, NEW slots, KeptShared(shared, slots)
        PROVE  /\ IsMap(WithParents(shared))
               /\ DOMAIN WithParents(shared) = DOMAIN shared
               /\ \A m \in DOMAIN shared :
                    /\ m \in Shared /\ WithParents(shared)[m] \in Share
                    /\ WithParents(shared)[m].thread = NoTopic
                    /\ WithParents(shared)[m].parent \in DOMAIN slots
                    /\ m \in Access[slots[WithParents(shared)[m].parent].of]
    <2>1. /\ IsMap(WithParents(shared))
          /\ DOMAIN WithParents(shared) = DOMAIN shared
      BY DEF WithParents, IsMap
    <2> SUFFICES ASSUME NEW m \in DOMAIN shared
                 PROVE  /\ m \in Shared /\ WithParents(shared)[m] \in Share
                        /\ WithParents(shared)[m].thread = NoTopic
                        /\ WithParents(shared)[m].parent \in DOMAIN slots
                        /\ m \in Access[slots[WithParents(shared)[m].parent].of]
      BY <2>1
    <2>2. /\ m \in Shared
          /\ shared[m] \in [parent: SlotId \cup {None}, thread: {NoTopic}]
          /\ shared[m].parent # None => /\ shared[m].parent \in DOMAIN slots
                                        /\ m \in Access[slots[shared[m].parent].of]
          /\ shared[m].parent = None => /\ Default \in DOMAIN slots
                                        /\ m \in Access[slots[Default].of]
      BY <1>2 DEF KeptShared
    <2>3. 0 \in 0..MaxTopics /\ Default \in SlotId
      BY RecordAssumption
    <2>4. WithParents(shared)[m] = IF shared[m].parent # None THEN shared[m]
                                   ELSE [shared[m] EXCEPT !.parent = Default]
      BY DEF WithParents
    <2>5. QED
      BY <2>2, <2>3, <2>4 DEF Share
  <1>3. ASSUME NEW a, NEW s,
               q = Fields(a, s, old.language, old.threads), IsMap(s),
               KeptAccounts(a),
               \A m \in DOMAIN s : /\ m \in Shared /\ s[m] \in Share
                                   /\ s[m].thread = NoTopic
                                   /\ s[m].parent \in DOMAIN a
                                   /\ m \in Access[a[s[m].parent].of],
               q = NoRecord \/ DOMAIN a # {}
        PROVE  Good(q) /\ \A t : Thread(q, t) = NoTopic
    <2>1. /\ q.accounts = a /\ q.shared = s
          /\ q.language = old.language /\ q.threads = old.threads
          /\ Connected(q) = DOMAIN a /\ OptedIn(q) = DOMAIN s
      BY <1>3, FieldsAre
    <2>2. /\ DOMAIN a \subseteq SlotId /\ IsMap(a)
          /\ \A k \in DOMAIN a : a[k] \in Slot /\ a[k].thread = NoTopic
      BY <1>3, RecordAssumption DEF KeptAccounts, Slot, IsMap
    <2> HIDE DEF q
    <2>3. HasItsTypes(q)
      BY <1>1, <1>3, <2>1, <2>2 DEF HasItsTypes
    <2>4. SpelledOnce(q) /\ Opened(q)
      BY <1>3, <2>1 DEF KeptAccounts, SpelledOnce, Opened
    <2>5. QED
      BY <1>3, <2>1, <2>2, <2>3, <2>4 DEF Good, Exists, Thread
  <1>4. CASE "accounts" \in DOMAIN old
    <2> DEFINE a == old.accounts
               s == WithParents(old.shared)
    <2>1. /\ old = NoRecord \/ DOMAIN a # {}
          /\ KeptAccounts(a) /\ KeptShared(old.shared, a)
      BY <1>1, <1>4 DEF Kept
    <2>2. q = Fields(a, s, old.language, old.threads)
      BY <1>4 DEF Read, Unified, Fields
    <2>3. CASE old = NoRecord
      <3>1. /\ old.accounts = Nothing /\ old.shared = Nothing
            /\ old.language = None /\ old.threads = None
        BY <2>3 DEF NoRecord
      <3>2. WithParents(Nothing) = Nothing
        BY DEF WithParents, Nothing
      <3>3. q = NoRecord
        BY <2>2, <3>1, <3>2 DEF Fields, NoRecord
      <3>4. \A t : Thread(NoRecord, t) = NoTopic
        BY DEF NoRecord, Nothing, Thread, Connected, OptedIn
      <3>5. QED
        BY <3>3, <3>4, NothingIsGood
    <2>4. CASE old # NoRecord
      <3> HIDE DEF a, s, q
      <3>1. IsMap(s) /\ DOMAIN s = DOMAIN old.shared
        BY <1>2, <2>1 DEF s
      <3>2. \A m \in DOMAIN s : /\ m \in Shared /\ s[m] \in Share
                                 /\ s[m].thread = NoTopic
                                 /\ s[m].parent \in DOMAIN a
                                 /\ m \in Access[a[s[m].parent].of]
        BY <1>2, <2>1, <3>1 DEF s
      <3>3. QED
        BY <1>3, <2>1, <2>2, <2>4, <3>1, <3>2 DEF q
    <2>5. QED
      BY <2>3, <2>4
  <1>5. CASE "accounts" \notin DOMAIN old
    <2> DEFINE slots == [s \in {Default} \cup DOMAIN old.extra |->
                            [of |-> IF s = Default THEN old.of ELSE old.extra[s],
                             thread |-> NoTopic]]
               sh == WithParents(old.shared)
    <2>1. /\ Default \notin DOMAIN old.extra
          /\ KeptAccounts(slots) /\ KeptShared(old.shared, slots)
      BY <1>1, <1>5 DEF Kept
    <2>2. q = Fields(slots, sh, old.language, old.threads)
      <3> DEFINE slot(account) == [of |-> account, thread |-> NoTopic]
                 extras == [s \in DOMAIN old.extra |-> slot(old.extra[s])]
                 first == Put(Nothing, Default, slot(old.of))
                 a == [s \in {Default} \cup DOMAIN extras |->
                          IF s \in DOMAIN extras THEN extras[s] ELSE first[s]]
      <3>1. q = Fields(a, sh, old.language, old.threads)
        BY <1>5 DEF Read, Legacy, Fields
      <3>2. first[Default] = slot(old.of)
        BY DEF Put
      <3>3. a = slots
        BY <2>1, <3>2
      <3>4. QED
        BY <3>1, <3>3
    <2>3. DOMAIN slots # {}
      OBVIOUS
    <2> HIDE DEF slots, sh, q
    <2>4. IsMap(sh) /\ DOMAIN sh = DOMAIN old.shared
      BY <1>2, <2>1 DEF sh
    <2>5. \A m \in DOMAIN sh : /\ m \in Shared /\ sh[m] \in Share
                                /\ sh[m].thread = NoTopic
                                /\ sh[m].parent \in DOMAIN slots
                                /\ m \in Access[slots[sh[m].parent].of]
      BY <1>2, <2>1, <2>4 DEF sh
    <2>6. QED
      BY <1>3, <2>1, <2>2, <2>3, <2>4, <2>5 DEF q
  <1>6. QED
    BY <1>4, <1>5

-----------------------------------------------------------------------------
(* What the chat's commands and its watchers do.                            *)

LEMMA BecomesGood ==
    ASSUME IInv, NEW r, Good(r), Becomes(r), Connected(r) \subseteq SlotId
    PROVE  IInv'
  BY DEF IInv, Becomes

LEMMA LoginKeeps ==
    ASSUME IInv, NEW account \in Account, NEW code \in Code,
           NEW slot \in LoginSlots(account), NEW saved \in BOOLEAN,
           LoginTo(slot, account, code, saved)
    PROVE  IInv'
  <1> DEFINE added == AddAccount(record, slot, account)
             language == Resolve(record.language, code)
  <1>1. slot \in SlotId /\ Good(record)
    BY RecordAssumption DEF IInv, LoginSlots, Holders, Fresh, Good, HasItsTypes
  <1>2. \/ slot \notin Connected(record) /\ Holders(record, account) = {}
        \/ slot \in Holders(record, account)
    BY DEF IInv, LoginSlots, Fresh, Exists
  <1>3. /\ Good(added) /\ Exists(added)
        /\ Connected(added) = Connected(record) \cup {slot}
    BY <1>1, <1>2, AddingIsGood
  <1>4. Connected(added) \subseteq SlotId
    BY <1>1, <1>3 DEF Good, HasItsTypes
  <1>5. CASE saved
    <2>1. language \in Supported \cup {None}
      BY RecordAssumption DEF Resolve
    <2> HIDE DEF added, language
    <2>2. /\ Good([added EXCEPT !.language = language])
          /\ Connected([added EXCEPT !.language = language]) = Connected(added)
      BY <1>3, <2>1, ChoosingIsGood
    <2>3. Becomes([added EXCEPT !.language = language])
      BY <1>5 DEF LoginTo, Seeded, added, language
    <2>4. QED
      BY <1>4, <2>2, <2>3, BecomesGood
  <1>6. CASE ~saved
    <2>1. Becomes(added)
      BY <1>6 DEF LoginTo
    <2> HIDE DEF added
    <2>2. QED
      BY <1>3, <1>4, <2>1, BecomesGood
  <1>7. QED
    BY <1>5, <1>6

LEMMA InitIsGood ==
    ASSUME RecordInit
    PROVE  IInv /\ \A t : Thread(record, t) = NoTopic
  <1>1. PICK old \in OldRecords : record = Read(old)
    BY DEF RecordInit
  <1>2. /\ Good(record) /\ used = Connected(record)
        /\ \A t : Thread(record, t) = NoTopic
    BY <1>1, ReadingIsGood DEF RecordInit
  <1>3. QED
    BY <1>2 DEF IInv, Good, HasItsTypes

LEMMA AccountCommandKeeps ==
    ASSUME IInv, AccountCommand PROVE IInv'
  <1>1. Good(record) /\ Connected(record) \subseteq SlotId
    BY DEF IInv, Good, HasItsTypes
  <1>2. ASSUME NEW account \in Account, NEW code \in Code, Login(account, code)
        PROVE  IInv'
    BY <1>2, LoginKeeps DEF Login
  <1>3. ASSUME NEW slot \in SlotId, NEW account \in Account, AddTo(slot, account)
        PROVE  IInv'
    <2>1. /\ slot \notin Connected(record) /\ Holders(record, account) = {}
          /\ Becomes(AddAccount(record, slot, account))
      BY <1>3 DEF AddTo, ContainsEmail, Fresh, IInv
    <2> DEFINE r == AddAccount(record, slot, account)
    <2>2. Good(r) /\ Connected(r) = Connected(record) \cup {slot}
      BY <1>1, <2>1, AddingIsGood
    <2> HIDE DEF r
    <2>3. QED
      BY <1>1, <2>1, <2>2, BecomesGood DEF r
  <1>4. ASSUME NEW slot, Disconnect(slot)
        PROVE  IInv'
    <2> DEFINE r == RemoveAccount(record, slot)
    <2>1. Good(r) /\ Connected(r) = Connected(record) \ {slot}
      BY <1>1, RemovingIsGood
    <2>2. Becomes(r)
      BY <1>4 DEF Disconnect
    <2> HIDE DEF r
    <2>3. QED
      BY <1>1, <2>1, <2>2, BecomesGood
  <1>5. ASSUME Logout
        PROVE  IInv'
    <2>1. Connected(NoRecord) = {} /\ Becomes(NoRecord)
      BY <1>5 DEF Logout, NoRecord, Nothing, Connected
    <2>2. QED
      BY <2>1, NothingIsGood, BecomesGood
  <1>6. ASSUME NEW ref \in SlotId \cup {None}, NEW m \in Shared, OptIn(ref, m)
        PROVE  IInv'
    <2> DEFINE slot == OptInSlot(ref)
               r == SetShared(record, m, slot)
    <2>1. /\ slot \in Connected(record) /\ m \in Access[record.accounts[slot].of]
          /\ Becomes(r)
      BY <1>6 DEF OptIn
    <2> HIDE DEF slot
    <2>2. Good(r) /\ Connected(r) = Connected(record)
      BY <1>1, <2>1, OptingInIsGood
    <2> HIDE DEF r
    <2>3. QED
      BY <1>1, <2>1, <2>2, BecomesGood
  <1>7. ASSUME NEW m \in Shared, OptOut(m)
        PROVE  IInv'
    <2> DEFINE r == RemoveShared(record, m)
    <2>1. m \in OptedIn(record) /\ Becomes(r)
      BY <1>7 DEF OptOut
    <2>2. Good(r) /\ Connected(r) = Connected(record)
      BY <1>1, <2>1, OptingOutIsGood
    <2> HIDE DEF r
    <2>3. QED
      BY <1>1, <2>1, <2>2, BecomesGood
  <1>8. QED
    BY <1>2, <1>3, <1>4, <1>5, <1>6, <1>7 DEF AccountCommand

LEMMA NextKeeps ==
    ASSUME IInv, RecordNext PROVE IInv'
  <1>1. Good(record) /\ Connected(record) \subseteq SlotId
    BY DEF IInv, Good, HasItsTypes
  <1>2. ASSUME NEW language \in Supported, SetLanguage(language)
        PROVE  IInv'
    <2> DEFINE r == [record EXCEPT !.language = language]
    <2>1. Exists(record) /\ Becomes(r)
      BY <1>2 DEF SetLanguage
    <2>2. Good(r) /\ Connected(r) = Connected(record)
      BY <1>1, <2>1, ChoosingIsGood
    <2> HIDE DEF r
    <2>3. QED
      BY <1>1, <2>1, <2>2, BecomesGood
  <1>3. ASSUME NEW on \in {"on", "off"}, SetThreads(on)
        PROVE  IInv'
    <2> DEFINE r == [record EXCEPT !.threads = on]
    <2>1. Exists(record) /\ Becomes(r)
      BY <1>3 DEF SetThreads
    <2>2. Good(r) /\ Connected(r) = Connected(record)
      BY <1>1, <2>1, PreferringIsGood
    <2> HIDE DEF r
    <2>3. QED
      BY <1>1, <2>1, <2>2, BecomesGood
  <1>4. ASSUME NEW t \in Targets(record), NEW topic \in 0..MaxTopics,
               StoreThread(t, topic)
        PROVE  IInv'
    <2> DEFINE r == SetThread(record, t, topic)
    <2>1. Becomes(r)
      BY <1>4 DEF StoreThread
    <2>2. Good(r) /\ Connected(r) = Connected(record)
      BY <1>1, ThreadingIsGood
    <2> HIDE DEF r
    <2>3. QED
      BY <1>1, <2>1, <2>2, BecomesGood
  <1>5. QED
    BY <1>2, <1>3, <1>4, AccountCommandKeeps DEF RecordNext

LEMMA NothingKeeps ==
    ASSUME IInv, UNCHANGED recordVars PROVE IInv'
  <1>1. record' = record /\ used' = used
    BY DEF recordVars
  <1>2. Becomes(record) /\ Good(record) /\ Connected(record) \subseteq SlotId
    BY <1>1 DEF Becomes, IInv, Good, HasItsTypes
  <1>3. QED
    BY <1>2, BecomesGood

THEOREM InvariantHolds == RecordSpec => []IInv
  <1>1. RecordInit => IInv
    BY InitIsGood
  <1>2. IInv /\ [RecordNext]_recordVars => IInv'
    BY NextKeeps, NothingKeeps
  <1>3. QED
    BY <1>1, <1>2, PTL DEF RecordSpec

-----------------------------------------------------------------------------
(* What a reader should know.                                              *)

(* Whatever commands, watchers and files of older versions do to a record,  *)
(* it is empty or has an account, its parts are of their types and a slot   *)
(* id in use was given out.                                                 *)
THEOREM TypeCorrect == RecordSpec => []RecordTypeOK
  <1>1. IInv => RecordTypeOK
    BY DEF IInv, Good, HasItsTypes, Slot, Share, RecordTypeOK
  <1>2. QED
    BY <1>1, InvariantHolds, PTL

(* No mix of logins, additions and removals connects an address twice       *)
(* (bot.rs:310-316 and 522), however many slots and spellings there are.     *)
THEOREM NoAddressTwice == RecordSpec => []AddressOnce
  <1>1. IInv => AddressOnce
    BY DEF IInv, Good, SpelledOnce, AddressOnce
  <1>2. QED
    BY <1>1, InvariantHolds, PTL

(* A shared mailbox of the record is opened through an account of it that   *)
(* may open it (store.rs:299-305).                                          *)
THEOREM EveryShareIsOpened == RecordSpec => []SharedIsOpenedByParent
  <1>1. IInv => SharedIsOpenedByParent
    <2> SUFFICES ASSUME IInv, NEW m \in OptedIn(record)
                 PROVE  /\ ParentSlot(record, m) \in Connected(record)
                        /\ m \in Access[record.accounts[ParentSlot(record, m)].of]
      BY DEF SharedIsOpenedByParent
    <2>1. /\ record.shared[m].parent \in Connected(record)
          /\ record.shared[m].parent \in SlotId
          /\ m \in Access[record.accounts[record.shared[m].parent].of]
      BY DEF IInv, Good, HasItsTypes, Opened, Share
    <2>2. ParentSlot(record, m) = record.shared[m].parent
      BY <2>1, RecordAssumption DEF ParentSlot
    <2>3. QED
      BY <2>1, <2>2
  <1>2. QED
    BY <1>1, InvariantHolds, PTL
=============================================================================
