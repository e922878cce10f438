----------------------------- MODULE ChatProofs -----------------------------
(***************************************************************************)
(* Proofs about the two components that live on the record in a chat, for  *)
(* every value of their constants: first Topics, then Buttons. Each has an *)
(* inductive invariant of its own, besides that of the record.             *)
(***************************************************************************)
EXTENDS Topics, Buttons, RecordProofs, FiniteSetTheorems, WellFoundedInduction

USE DEF None, NoTopic, NoCard

-----------------------------------------------------------------------------
(* Topics: the inductive invariant, besides that of the record.             *)

Making == [by: {"boot", "adopt", "sync"}, for: Target, contested: BOOLEAN]

Jobs ==
    {Idle} \cup [op: {"adopt"}, for: Target]
           \cup [op: {"login"}, at: {"account", "shared"}, for: SlotId]
           \cup [op: {"disconnect"}, at: {"account", "shared"}, for: SlotId, since: Nat]
           \cup [op: {"optout"}, at: {"shared"}, for: Shared, since: Nat]
           \cup [op: {"logout"}, at: {"account", "shared"}, since: Nat]

Typed ==
    /\ made \in 0..MaxTopics /\ alive \subseteq 1..made /\ lost \subseteq 0..made
    /\ making \subseteq Making
    /\ watched \subseteq Target /\ resuming \subseteq Target
    /\ job \in Jobs \/ (job.op = "sync" /\ job = [op |-> "sync", todo |-> job.todo])

(* What a creation under way excludes: another one of the handler, another   *)
(* adoption of its kind, and an adopted target that is not watched; and two  *)
(* for one target know of each other.                                       *)
OneAtATime ==
    /\ \A x, y \in making : x.by # "boot" /\ y.by # "boot" => x = y
    /\ \A x, y \in making :
         /\ {x.by, y.by} \subseteq {"boot", "adopt"}
         /\ Kind(x.for) = Kind(y.for)
         => x = y
    /\ \A x \in making : x.by # "sync" => x.for \in watched
    /\ \A x, y \in making : x # y /\ x.for = y.for => x.contested

(* What the handler is removing is still there when it comes to it, and the  *)
(* topics it had when the handler deleted them are gone.                    *)
Removing ==
    IF job.op = "logout" THEN Targets(record)
    ELSE IF job.op \in {"disconnect", "optout"} THEN {job.for} ELSE {}

InHand ==
    /\ job.op \in {"login", "disconnect"} => job.for \in Connected(record)
    /\ job.op = "optout" => job.for \in OptedIn(record)
    /\ job.op \in {"disconnect", "optout", "logout"} =>
         /\ job.since <= made
         /\ \A t \in Removing :
              /\ Thread(record, t) \in alive /\ Thread(record, t) <= job.since
              => Thread(record, t) \in lost

(* A recorded topic was created, and for one target; one that exists is      *)
(* recorded or was lost; and who makes a topic undisturbed makes the first. *)
Numbered == \A t \in Targets(record) : Thread(record, t) \in 0..made

Distinct ==
    \A t, u \in Targets(record) :
        t # u => Thread(record, t) # Thread(record, u) \/ Thread(record, t) = NoTopic

IsKnown(n) == n \in lost \/ \E t \in Targets(record) : Thread(record, t) = n
Explained == \A n \in alive : IsKnown(n)

First ==
    \A x \in making :
        ~x.contested /\ x.for \in Targets(record) => Thread(record, x.for) = NoTopic

(* Without topics of their own the shared mailboxes never have one.         *)
Plain ==
    ~Dedicated =>
        /\ \A x \in making : x.for \notin Shared
        /\ \A m \in Targets(record) \cap Shared : Thread(record, m) = NoTopic

Recording == Numbered /\ Distinct /\ Explained /\ First /\ Plain

TopicsInv == IInv /\ Typed /\ OneAtATime /\ InHand /\ Recording

-----------------------------------------------------------------------------
(* What is not a target has no topic.                                       *)
LEMMA ThreadIs ==
    ASSUME TopicsInv
    PROVE  /\ \A t : t \notin Targets(record) => Thread(record, t) = NoTopic
           /\ \A t : Thread(record, t) \in 0..made
           /\ made \in Nat
           /\ Targets(record) \subseteq Target
           /\ Good(record)
  <1>1. \A t : t \notin Targets(record) => Thread(record, t) = NoTopic
    BY DEF Targets, Thread
  <1>2. made \in Nat /\ 0 \in 0..made
    BY RecordAssumption DEF TopicsInv, Typed
  <1>3. \A t : Thread(record, t) \in 0..made
    BY <1>1, <1>2 DEF TopicsInv, Recording, Numbered
  <1>4. QED
    BY <1>1, <1>2, <1>3 DEF TopicsInv, IInv, Good, HasItsTypes, Targets, Target

(* A step that creates no topic keeps what is known of the recorded ones, if *)
(* the existing ones it takes out of the record are lost.                   *)
LEMMA RecordingStays ==
    ASSUME TopicsInv, made' = made, making' = making,
           alive' \subseteq alive, lost \subseteq lost',
           \A t \in Targets(record') :
              \/ Thread(record', t) = NoTopic
              \/ t \in Targets(record) /\ Thread(record', t) = Thread(record, t),
           \A t \in Targets(record) :
              \/ Thread(record, t) \notin alive' \/ Thread(record, t) \in lost'
              \/ t \in Targets(record') /\ Thread(record', t) = Thread(record, t)
    PROVE  Recording'
  <1>1. Numbered'
    BY ThreadIs DEF TopicsInv, Recording, Numbered
  <1>2. Distinct'
    BY DEF TopicsInv, Recording, Distinct
  <1>3. Explained'
    BY DEF TopicsInv, Recording, Explained, IsKnown
  <1>4. First'
    BY DEF TopicsInv, Recording, First
  <1>5. Plain'
    BY DEF TopicsInv, Recording, Plain
  <1>6. QED
    BY <1>1, <1>2, <1>3, <1>4, <1>5 DEF Recording

(* A creation begins.                                                       *)
LEMMA Beginning ==
    ASSUME TopicsInv, NEW by \in {"boot", "adopt", "sync"}, NEW t \in Target,
           Begin(by, t), Missing(t),
           by # "boot" => ~HandlerMakes,
           by # "sync" => Free(Kind(t)) /\ t \in watched',
           watched \subseteq watched', UNCHANGED <<record, made, alive, lost>>
    PROVE  making' \subseteq Making /\ OneAtATime' /\ Recording'
  <1> DEFINE new == [by |-> by, for |-> t, contested |-> \E x \in making : x.for = t]
             Of(x) == IF x.for = t THEN [x EXCEPT !.contested = TRUE] ELSE x
  <1>1. making' = {Of(x) : x \in making} \cup {new}
    BY DEF Begin
  <1>2. /\ new \in Making /\ new.by = by /\ new.for = t
        /\ new.contested <=> \E x \in making : x.for = t
    BY DEF Making
  <1>3. \A x \in making :
          /\ x \in Making /\ Of(x) \in Making
          /\ Of(x).by = x.by /\ Of(x).for = x.for
          /\ Of(x).contested <=> (x.contested \/ x.for = t)
    BY DEF TopicsInv, Typed, Making
  <1> HIDE DEF new, Of
  <1>4. making' \subseteq Making
    BY <1>1, <1>2, <1>3
  <1>5. OneAtATime'
    <2>1. ASSUME NEW x \in making', NEW y \in making', x.by # "boot", y.by # "boot"
          PROVE  x = y
      BY <1>1, <1>2, <1>3, <2>1 DEF TopicsInv, OneAtATime, HandlerMakes
    <2>2. ASSUME NEW x \in making', NEW y \in making',
                 {x.by, y.by} \subseteq {"boot", "adopt"}, Kind(x.for) = Kind(y.for)
          PROVE  x = y
      <3>1. x.by \in {"boot", "adopt"} /\ y.by \in {"boot", "adopt"}
        BY <2>2
      <3>2. CASE x = new /\ y # new
        BY <1>1, <1>2, <1>3, <2>2, <3>1, <3>2 DEF Free
      <3>3. CASE x # new /\ y = new
        BY <1>1, <1>2, <1>3, <2>2, <3>1, <3>3 DEF Free
      <3>4. CASE x # new /\ y # new
        <4>1. PICK u \in making, v \in making : x = Of(u) /\ y = Of(v)
          BY <1>1, <3>4
        <4>2. {u.by, v.by} \subseteq {"boot", "adopt"} /\ Kind(u.for) = Kind(v.for)
          BY <1>3, <2>2, <3>1, <4>1
        <4>3. QED
          BY <4>1, <4>2 DEF TopicsInv, OneAtATime
      <3>5. QED
        BY <3>2, <3>3, <3>4
    <2>3. ASSUME NEW x \in making', x.by # "sync"
          PROVE  x.for \in watched'
      BY <1>1, <1>2, <1>3, <2>3 DEF TopicsInv, OneAtATime
    <2>4. ASSUME NEW x \in making', NEW y \in making', x # y, x.for = y.for
          PROVE  x.contested
      <3>1. CASE x.for = t
        <4>1. CASE x = new
          <5>1. PICK u \in making : y = Of(u)
            BY <1>1, <2>4, <4>1
          <5>2. QED
            BY <1>2, <1>3, <2>4, <3>1, <4>1, <5>1
        <4>2. CASE x # new
          BY <1>1, <1>3, <3>1, <4>2
        <4>3. QED
          BY <4>1, <4>2
      <3>2. CASE x.for # t
        <4>1. PICK u \in making, v \in making : x = Of(u) /\ y = Of(v)
          BY <1>1, <1>2, <2>4, <3>2
        <4>2. u # v /\ u.for = v.for
          BY <1>3, <2>4, <4>1
        <4>3. QED
          BY <1>3, <4>1, <4>2 DEF TopicsInv, OneAtATime
      <3>3. QED
        BY <3>1, <3>2
    <2>5. QED
      BY <2>1, <2>2, <2>3, <2>4 DEF OneAtATime
  <1>6. First'
    <2>1. Thread(record, t) = NoTopic
      BY DEF Missing
    <2>2. QED
      BY <1>1, <1>2, <1>3, <2>1 DEF TopicsInv, Recording, First
  <1>7. Plain'
    BY <1>1, <1>2, <1>3 DEF TopicsInv, Recording, Plain, Missing, Wanted
  <1>8. Numbered' /\ Distinct' /\ Explained'
    BY DEF TopicsInv, Recording, Numbered, Distinct, Explained, IsKnown
  <1>9. QED
    BY <1>4, <1>5, <1>6, <1>7, <1>8 DEF Recording

-----------------------------------------------------------------------------
(* What the steps do to the record, the record may have done to it.         *)

LEMMA CreationIsAllowed ==
    ASSUME TopicsInv, NEW x, CreationEnds(x)
    PROVE  RecordNext \/ UNCHANGED recordVars
  <1>1. CASE Created(x)
    <2>1. made' \in 0..MaxTopics
      BY <1>1, RecordAssumption, ThreadIs DEF Created
    <2>2. CASE x.for \in Targets(record)
      BY <1>1, <2>1, <2>2 DEF Created, RecordNext
    <2>3. CASE x.for \notin Targets(record)
      BY <1>1, <2>3 DEF Created
    <2>4. QED
      BY <2>2, <2>3
  <1>2. CASE NotCreated(x)
    BY <1>2 DEF NotCreated
  <1>3. QED
    BY <1>1, <1>2 DEF CreationEnds

LEMMA HandlerIsAllowed ==
    ASSUME TopicsInv, Handler
    PROVE  RecordNext \/ UNCHANGED recordVars
  <1>1. CASE StartLogin
    <2>1. PICK account \in Account, saved \in BOOLEAN :
            \E slot \in LoginSlots(account) : LoginTo(slot, account, None, saved)
      BY <1>1 DEF StartLogin
    <2>2. Login(account, None) /\ None \in Code
      BY <2>1, RecordAssumption DEF Login
    <2> HIDE DEF None
    <2>3. QED
      BY <2>2 DEF RecordNext, AccountCommand
  <1>2. CASE StartAdd
    BY <1>2 DEF StartAdd, RecordNext, AccountCommand
  <1>3. CASE StartOptIn
    BY <1>3 DEF StartOptIn, RecordNext, AccountCommand
  <1>4. ASSUME NEW s \in Connected(record), StartDisconnect(s)
        PROVE  UNCHANGED recordVars
    BY <1>4 DEF StartDisconnect
  <1>5. ASSUME NEW m \in OptedIn(record), StartOptOut(m)
        PROVE  UNCHANGED recordVars
    BY <1>5 DEF StartOptOut
  <1>6. CASE StartLogout
    BY <1>6 DEF StartLogout, StartLogoutWith
  <1>7. CASE StartThreads
    BY <1>7 DEF StartThreads, ThreadsSync, RecordNext
  <1>8. CASE ForgetAccount
    BY <1>8 DEF ForgetAccount
  <1>9. CASE ForgetShared
    <2>1. job.op \in {"login", "disconnect", "logout", "optout"}
      BY <1>9 DEF ForgetShared
    <2>2. CASE job.op = "login"
      BY <1>9, <2>2 DEF ForgetShared
    <2>3. CASE job.op = "disconnect"
      <3>1. Disconnect(job.for) /\ job.for \in Connected(record)
        BY <1>9, <2>3 DEF ForgetShared, TopicsInv, InHand
      <3>2. QED
        BY <3>1 DEF RecordNext, AccountCommand
    <2>4. CASE job.op = "optout"
      <3>1. OptOut(job.for) /\ job.for \in Shared
        BY <1>9, <2>4, ThreadIs DEF ForgetShared, TopicsInv, InHand, Good, HasItsTypes
      <3>2. QED
        BY <3>1 DEF RecordNext, AccountCommand
    <2>5. CASE job.op = "logout"
      <3>1. Logout
        BY <1>9, <2>5 DEF ForgetShared
      <3>2. QED
        BY <3>1 DEF RecordNext, AccountCommand
    <2>6. QED
      BY <2>1, <2>2, <2>3, <2>4, <2>5
  <1>10. CASE HandlerAdopts
    BY <1>10 DEF HandlerAdopts
  <1>11. CASE HandlerSyncs
    BY <1>11 DEF HandlerSyncs
  <1>12. QED
    BY <1>1, <1>2, <1>3, <1>4, <1>5, <1>6, <1>7, <1>8, <1>9, <1>10, <1>11 DEF Handler

LEMMA StepIsAllowed ==
    ASSUME TopicsInv, [TopicsNext]_topicsVars
    PROVE  [RecordNext]_recordVars
  <1>1. CASE Handler
    BY <1>1, HandlerIsAllowed
  <1>2. ASSUME NEW x \in making, CreationEnds(x)
        PROVE  RecordNext \/ UNCHANGED recordVars
    BY <1>2, CreationIsAllowed
  <1>3. ASSUME NEW t, BootAdopts(t) \/ BootLeaves(t)
        PROVE  UNCHANGED recordVars
    BY <1>3 DEF BootAdopts, BootLeaves
  <1>4. ASSUME NEW t, ThreadNotFound(t)
        PROVE  RecordNext
    <2>1. StoreThread(t, NoTopic) /\ t \in Targets(record) /\ 0 \in 0..MaxTopics
      BY <1>4, RecordAssumption DEF ThreadNotFound, StoreThread
    <2>2. QED
      BY <2>1 DEF RecordNext
  <1>5. ASSUME NEW n, UserDeletes(n)
        PROVE  UNCHANGED recordVars
    BY <1>5 DEF UserDeletes
  <1>6. CASE UNCHANGED topicsVars
    BY <1>6 DEF topicsVars
  <1>7. QED
    BY <1>1, <1>2, <1>3, <1>4, <1>5, <1>6 DEF TopicsNext

LEMMA RecordKeeps ==
    ASSUME TopicsInv, [TopicsNext]_topicsVars
    PROVE  IInv'
  <1>1. IInv /\ [RecordNext]_recordVars
    BY StepIsAllowed DEF TopicsInv
  <1>2. QED
    BY <1>1, NextKeeps, NothingKeeps

-----------------------------------------------------------------------------
(* The invariant is preserved: what the tasks do.                           *)

LEMMA CreationKeeps ==
    ASSUME TopicsInv, NEW x, CreationEnds(x), IInv'
    PROVE  TopicsInv'
  <1>1. /\ x \in making /\ x \in Making /\ making' = making \ {x}
        /\ watched' = watched /\ resuming' = resuming
        /\ made \in Nat /\ MaxTopics \in Nat
    BY ThreadIs, RecordAssumption
    DEF CreationEnds, Created, NotCreated, TopicsInv, Typed
  <1>2. job' = job \/ job' = Idle
    BY DEF CreationEnds
  <1>3. OneAtATime'
    BY <1>1 DEF TopicsInv, OneAtATime
  <1>4. CASE NotCreated(x)
    <2>1. UNCHANGED <<record, made, alive, lost>>
      BY <1>4 DEF NotCreated, recordVars
    <2>2. Typed'
      BY <1>1, <1>2, <2>1 DEF TopicsInv, Typed, Jobs
    <2>3. InHand'
      BY <1>2, <2>1 DEF TopicsInv, InHand, Removing, Idle
    <2>4. Recording'
      BY <1>1, <2>1 DEF TopicsInv, Recording, Numbered, Distinct, Explained, IsKnown,
                        First, Plain
    <2>5. QED
      BY <1>3, <2>2, <2>3, <2>4 DEF TopicsInv
  <1>5. CASE Created(x)
    <2>1. /\ made' = made + 1 /\ made' \in 0..MaxTopics /\ made' \in Nat
          /\ alive' = alive \cup {made'} /\ lost \subseteq lost'
      BY <1>1, <1>5 DEF Created
    <2>2. CASE x.for \notin Targets(record)
      <3>1. UNCHANGED record /\ lost' = lost \cup {made'}
        BY <1>5, <2>2 DEF Created, recordVars
      <3>2. Typed'
        BY <1>1, <1>2, <2>1, <3>1 DEF TopicsInv, Typed, Jobs
      <3>3. InHand'
        <4>1. CASE job' = Idle
          BY <4>1 DEF InHand, Removing, Idle
        <4>2. CASE job' = job
          <5>1. job.op \in {"disconnect", "optout", "logout"} => job.since \in Nat
            BY DEF TopicsInv, Typed, Jobs, Idle
          <5>2. Removing' = Removing
            BY <3>1, <4>2 DEF Removing
          <5>3. job.op \in {"disconnect", "optout", "logout"} => job.since <= made'
            BY <1>1, <2>1, <5>1 DEF TopicsInv, InHand
          <5>4. \A n \in alive' : n \in lost => n \in lost'
            BY <2>1
          <5>5. QED
            BY <2>1, <3>1, <4>2, <5>2, <5>3, <5>4 DEF TopicsInv, InHand
        <4>3. QED
          BY <1>2, <4>1, <4>2
      <3>4. Recording'
        BY <1>1, <2>1, <3>1 DEF TopicsInv, Recording, Numbered, Distinct, Explained,
                                IsKnown, First, Plain
      <3>5. QED
        BY <1>3, <3>2, <3>3, <3>4 DEF TopicsInv
    <2>3. CASE x.for \in Targets(record)
      <3> DEFINE q == SetThread(record, x.for, made')
      <3>1. /\ record' = q
            /\ lost' = lost \cup (IF x.contested THEN ThreadsOf(record, {x.for}) ELSE {})
        BY <1>5, <2>3 DEF Created, StoreThread, Becomes
      <3>2. /\ Connected(q) = Connected(record) /\ OptedIn(q) = OptedIn(record)
            /\ \A t \in Targets(record) :
                  Thread(q, t) = IF t = x.for THEN made' ELSE Thread(record, t)
        BY <2>1, <2>3, ThreadIs, ThreadingIsGood
      <3> HIDE DEF q
      <3>3. /\ Connected(record') = Connected(record)
            /\ OptedIn(record') = OptedIn(record)
            /\ Targets(record') = Targets(record)
            /\ Thread(record', x.for) = made'
            /\ \A t \in Targets(record) :
                  t # x.for => Thread(record', t) = Thread(record, t)
        BY <2>3, <3>1, <3>2 DEF Targets
      <3>4. lost' \subseteq 0..made'
        <4>1. ThreadsOf(record, {x.for}) \subseteq 0..made
          BY ThreadIs DEF ThreadsOf
        <4>2. QED
          <5>1. lost \subseteq 0..made /\ 0..made \subseteq 0..made'
            BY <1>1, <2>1 DEF TopicsInv, Typed
          <5>2. lost' \subseteq lost \cup ThreadsOf(record, {x.for})
            BY <3>1
          <5>3. QED
            BY <4>1, <5>1, <5>2
      <3>5. Typed'
        BY <1>1, <1>2, <2>1, <3>4 DEF TopicsInv, Typed, Jobs
      <3>6. InHand'
        <4>1. CASE job' = Idle
          BY <4>1 DEF InHand, Removing, Idle
        <4>2. CASE job' = job
          <5>1. Removing' = Removing
            BY <3>3, <4>2 DEF Removing
          <5>2. job.op \in {"disconnect", "optout", "logout"} => job.since \in Nat
            BY DEF TopicsInv, Typed, Jobs, Idle
          <5>3. Removing \subseteq Targets(record)
            BY DEF Removing, TopicsInv, InHand, Targets
          <5>4. \A t \in Targets(record) : Thread(record, t) \in 0..made
            BY ThreadIs
          <5>5. ASSUME job.op \in {"disconnect", "optout", "logout"}, NEW t \in Removing,
                       Thread(record', t) \in alive', Thread(record', t) <= job.since
                PROVE  Thread(record', t) \in lost'
            <6>1. t # x.for
              BY <1>1, <2>1, <3>3, <5>2, <5>5 DEF TopicsInv, InHand
            <6>2. Thread(record', t) = Thread(record, t) /\ Thread(record, t) \in alive
              BY <1>1, <2>1, <3>3, <5>3, <5>4, <5>5, <6>1
            <6>3. QED
              BY <2>1, <5>5, <6>2 DEF TopicsInv, InHand
          <5>6. QED
            BY <1>1, <2>1, <3>3, <4>2, <5>1, <5>2, <5>5 DEF TopicsInv, InHand
        <4>3. QED
          BY <1>2, <4>1, <4>2
      <3>7. Numbered'
        BY <1>1, <2>1, <3>3 DEF TopicsInv, Recording, Numbered
      <3>8. Distinct'
        BY <1>1, <2>1, <3>3 DEF TopicsInv, Recording, Numbered, Distinct
      <3>9. Explained'
        <4> SUFFICES ASSUME NEW n \in alive' PROVE IsKnown(n)'
          BY DEF Explained
        <4>1. CASE n = made'
          BY <2>3, <3>3, <4>1 DEF IsKnown
        <4>2. CASE n \in alive /\ n # Thread(record, x.for)
          BY <2>1, <3>3, <4>2 DEF TopicsInv, Recording, Explained, IsKnown
        <4>3. CASE n \in alive /\ n = Thread(record, x.for)
          <5>1. n # NoTopic
            BY <4>3 DEF TopicsInv, Typed
          <5>2. x.contested
            BY <1>1, <2>3, <4>3, <5>1 DEF TopicsInv, Recording, First
          <5>3. n \in ThreadsOf(record, {x.for})
            BY <4>3, <5>1 DEF ThreadsOf
          <5>4. QED
            BY <3>1, <5>2, <5>3 DEF IsKnown
        <4>4. QED
          BY <2>1, <4>1, <4>2, <4>3
      <3>10. First'
        <4> SUFFICES ASSUME NEW y \in making', ~y.contested, y.for \in Targets(record')
                     PROVE  Thread(record', y.for) = NoTopic
          BY DEF First
        <4>1. y \in making /\ y # x /\ y.for # x.for
          BY <1>1 DEF TopicsInv, OneAtATime
        <4>2. QED
          BY <3>3, <4>1 DEF TopicsInv, Recording, First
      <3>11. Plain'
        BY <1>1, <3>3 DEF TopicsInv, Recording, Plain
      <3>12. QED
        BY <1>3, <3>5, <3>6, <3>7, <3>8, <3>9, <3>10, <3>11 DEF TopicsInv, Recording
    <2>4. QED
      BY <2>2, <2>3
  <1>6. QED
    BY <1>4, <1>5 DEF CreationEnds

LEMMA BootKeeps ==
    ASSUME TopicsInv, NEW t, BootAdopts(t) \/ BootLeaves(t), IInv'
    PROVE  TopicsInv'
  <1>1. /\ UNCHANGED <<record, made, alive, lost, job>>
        /\ t \in Target /\ resuming' = resuming \ {t}
        /\ watched' = watched \/ watched' = watched \cup {t}
    BY DEF BootAdopts, BootLeaves, recordVars, TopicsInv, Typed
  <1>2. making' \subseteq Making /\ OneAtATime' /\ Recording'
    <2>1. CASE making' = making
      BY <1>1, <2>1 DEF TopicsInv, Typed, OneAtATime, Recording, Numbered, Distinct,
                        Explained, IsKnown, First, Plain
    <2>2. CASE making' # making
      <3>1. /\ Begin("boot", t) /\ Missing(t) /\ Free(Kind(t))
            /\ watched' = watched \cup {t}
        BY <2>2 DEF BootAdopts, BootLeaves
      <3>2. QED
        BY <1>1, <3>1, Beginning
    <2>3. QED
      BY <2>1, <2>2
  <1>3. Typed'
    BY <1>1, <1>2 DEF TopicsInv, Typed, Jobs
  <1>4. InHand'
    BY <1>1 DEF TopicsInv, InHand, Removing
  <1>5. QED
    BY <1>2, <1>3, <1>4 DEF TopicsInv

LEMMA NotFoundKeeps ==
    ASSUME TopicsInv, NEW t, ThreadNotFound(t), IInv'
    PROVE  TopicsInv'
  <1> DEFINE q == SetThread(record, t, NoTopic)
  <1>1. /\ UNCHANGED topicVars /\ record' = q /\ t \in Targets(record)
        /\ target_thread_id(t) \notin alive \cup {NoTopic}
    BY DEF ThreadNotFound, StoreThread, Becomes
  <1>2. 0 \in 0..MaxTopics /\ Good(record)
    BY RecordAssumption, ThreadIs
  <1>3. /\ Connected(q) = Connected(record) /\ OptedIn(q) = OptedIn(record)
        /\ \A u \in Targets(record) :
              Thread(q, u) = IF u = t THEN NoTopic ELSE Thread(record, u)
    BY <1>1, <1>2, ThreadingIsGood
  <1> HIDE DEF q
  <1>4. /\ Connected(record') = Connected(record) /\ OptedIn(record') = OptedIn(record)
        /\ Targets(record') = Targets(record)
        /\ \A u \in Targets(record) :
              Thread(record', u) = IF u = t THEN NoTopic ELSE Thread(record, u)
    BY <1>1, <1>3 DEF Targets
  <1>5. Thread(record, t) \notin alive
    <2>1. CASE t \in SlotId \/ Dedicated
      BY <1>1, <2>1 DEF target_thread_id
    <2>2. CASE t \notin SlotId /\ ~Dedicated
      <3>1. t \in Shared
        BY <1>1, <2>2, ThreadIs DEF Target
      <3>2. Thread(record, t) = NoTopic
        BY <1>1, <2>2, <3>1 DEF TopicsInv, Recording, Plain
      <3>3. QED
        BY <3>2 DEF TopicsInv, Typed
    <2>3. QED
      BY <2>1, <2>2
  <1>6. Recording'
    <2>1. \A u \in Targets(record') :
             \/ Thread(record', u) = NoTopic
             \/ u \in Targets(record) /\ Thread(record', u) = Thread(record, u)
      BY <1>4
    <2>2. \A u \in Targets(record) :
             \/ Thread(record, u) \notin alive' \/ Thread(record, u) \in lost'
             \/ u \in Targets(record') /\ Thread(record', u) = Thread(record, u)
      BY <1>1, <1>4, <1>5 DEF topicVars
    <2>3. QED
      BY <1>1, <2>1, <2>2, RecordingStays DEF topicVars
  <1>7. Typed'
    BY <1>1 DEF topicVars, TopicsInv, Typed, Jobs
  <1>8. OneAtATime'
    BY <1>1 DEF topicVars, TopicsInv, OneAtATime
  <1>9. InHand'
    <2>1. Removing' = Removing
      BY <1>1, <1>4 DEF topicVars, Removing
    <2>2. Removing \subseteq Targets(record) /\ 0 \notin alive
      BY DEF TopicsInv, InHand, Removing, Targets, Typed
    <2>3. QED
      BY <1>1, <1>4, <2>1, <2>2 DEF topicVars, TopicsInv, InHand
  <1>10. QED
    BY <1>6, <1>7, <1>8, <1>9 DEF TopicsInv

LEMMA UserKeeps ==
    ASSUME TopicsInv, NEW n, UserDeletes(n), IInv'
    PROVE  TopicsInv'
  <1>1. /\ alive' \subseteq alive
        /\ UNCHANGED <<record, made, lost, making, watched, resuming, job>>
    BY DEF UserDeletes, recordVars
  <1>2. Recording'
    BY <1>1 DEF TopicsInv, Recording, Numbered, Distinct, Explained, IsKnown, First, Plain
  <1>3. Typed' /\ OneAtATime' /\ InHand'
    BY <1>1 DEF TopicsInv, Typed, Jobs, OneAtATime, InHand, Removing
  <1>4. QED
    BY <1>2, <1>3 DEF TopicsInv

-----------------------------------------------------------------------------
(* The invariant is preserved: how the handler's commands start.            *)

LEMMA Starting ==
    ASSUME TopicsInv, NEW op, Start(op), IInv', InHand', Recording',
           op \in Jobs \/ (op.op = "sync" /\ op = [op |-> "sync", todo |-> op.todo]),
           alive' \subseteq alive, lost' \subseteq 0..made
    PROVE  TopicsInv'
  <1>1. job' = op /\ UNCHANGED <<made, watched, resuming, making>>
    BY DEF Start
  <1>2. Typed'
    BY <1>1 DEF TopicsInv, Typed, Jobs
  <1>3. OneAtATime'
    BY <1>1 DEF TopicsInv, OneAtATime
  <1>4. QED
    BY <1>2, <1>3 DEF TopicsInv

LEMMA ThreadsOfAre ==
    ASSUME TopicsInv, NEW targets
    PROVE  /\ ThreadsOf(record, targets) \subseteq 0..made
           /\ \A t \in targets : Thread(record, t) \in alive =>
                 Thread(record, t) \in ThreadsOf(record, targets)
           /\ 0 \notin alive
  BY ThreadIs DEF ThreadsOf, TopicsInv, Typed

LEMMA Deleting ==
    ASSUME TopicsInv, NEW targets, DeleteTopics(ThreadsOf(record, targets))
    PROVE  /\ alive' \subseteq alive /\ lost \subseteq lost' /\ lost' \subseteq 0..made
           /\ \A t \in targets : Thread(record, t) \in alive' =>
                 Thread(record, t) \in lost'
  <1> DEFINE topics == ThreadsOf(record, targets)
  <1>1. topics \subseteq 0..made
    BY ThreadsOfAre
  <1>2. \A t \in targets : Thread(record, t) \in alive => Thread(record, t) \in topics
    BY ThreadsOfAre
  <1> HIDE DEF topics
  <1>3. PICK refused \in SUBSET (topics \cap alive) :
            alive' = alive \ (topics \ refused) /\ lost' = lost \cup refused
    BY DEF DeleteTopics, topics
  <1>4. QED
    BY <1>1, <1>2, <1>3 DEF TopicsInv, Typed

LEMMA StartLoginKeeps ==
    ASSUME TopicsInv, StartLogin, IInv'
    PROVE  TopicsInv'
  <1>1. PICK account \in Account, saved \in BOOLEAN :
          \E slot \in LoginSlots(account) :
            /\ LoginTo(slot, account, None, saved)
            /\ Start(IF saved THEN [op |-> "login", at |-> "account", for |-> slot]
                     ELSE Idle)
            /\ lost' = lost \cup ThreadsOf(record, {slot}) /\ UNCHANGED alive
    BY DEF StartLogin
  <1>2. PICK slot \in LoginSlots(account) :
            /\ LoginTo(slot, account, None, saved)
            /\ Start(IF saved THEN [op |-> "login", at |-> "account", for |-> slot]
                     ELSE Idle)
            /\ lost' = lost \cup ThreadsOf(record, {slot}) /\ UNCHANGED alive
    BY <1>1
  <1> DEFINE added == AddAccount(record, slot, account)
             language == Resolve(record.language, None)
  <1>3. IInv /\ Good(record)
    BY DEF TopicsInv, IInv
  <1>4. slot \in SlotId
    BY <1>3, RecordAssumption DEF LoginSlots, Holders, Fresh, Good, HasItsTypes
  <1>5. \/ slot \notin Connected(record) /\ Holders(record, account) = {}
        \/ slot \in Holders(record, account)
    BY <1>3 DEF IInv, LoginSlots, Fresh, Exists
  <1>6. /\ Good(added) /\ Exists(added)
        /\ Connected(added) = Connected(record) \cup {slot}
        /\ Targets(added) = Targets(record) \cup {slot}
        /\ \A t \in Targets(record) \cup {slot} :
             Thread(added, t) = IF t = slot THEN NoTopic ELSE Thread(record, t)
    BY <1>3, <1>4, <1>5, AddingIsGood
  <1>7. /\ Connected(record') = Connected(record) \cup {slot}
        /\ Targets(record') = Targets(record) \cup {slot}
        /\ \A t \in Targets(record) \cup {slot} :
             Thread(record', t) = IF t = slot THEN NoTopic ELSE Thread(record, t)
    <2>1. CASE saved
      <3>1. record' = [added EXCEPT !.language = language]
        BY <1>2, <2>1 DEF LoginTo, Becomes, Seeded
      <3>2. language \in Supported \cup {None}
        BY RecordAssumption DEF Resolve, Supported
      <3> HIDE DEF added, language
      <3>3. /\ Connected([added EXCEPT !.language = language]) = Connected(added)
            /\ OptedIn([added EXCEPT !.language = language]) = OptedIn(added)
            /\ \A t : Thread([added EXCEPT !.language = language], t) = Thread(added, t)
        BY <1>6, <3>2, ChoosingIsGood
      <3>4. /\ Connected(record') = Connected(added)
            /\ Targets(record') = Targets(added)
            /\ \A t : Thread(record', t) = Thread(added, t)
        BY <3>1, <3>3 DEF Targets
      <3>5. QED
        BY <1>6, <3>4
    <2>2. CASE ~saved
      <3>1. record' = added
        BY <1>2, <2>2 DEF LoginTo, Becomes
      <3> HIDE DEF added
      <3>2. QED
        BY <1>6, <3>1
    <2>3. QED
      BY <2>1, <2>2
  <1>8. lost \subseteq lost' /\ lost' \subseteq 0..made /\ alive' = alive
    BY <1>2, ThreadsOfAre DEF TopicsInv, Typed
  <1>9. Recording'
    <2>1. \A t \in Targets(record) :
             \/ Thread(record, t) \notin alive' \/ Thread(record, t) \in lost'
             \/ t \in Targets(record') /\ Thread(record', t) = Thread(record, t)
      BY <1>2, <1>7, ThreadsOfAre
    <2>2. made' = made /\ making' = making
      BY <1>2 DEF Start
    <2>3. QED
      BY <1>7, <1>8, <2>1, <2>2, RecordingStays
  <1>10. InHand'
    <2>1. job' = Idle \/ job' = [op |-> "login", at |-> "account", for |-> slot]
      BY <1>2 DEF Start
    <2>2. QED
      BY <1>7, <2>1 DEF InHand, Removing, Idle
  <1>11. (IF saved THEN [op |-> "login", at |-> "account", for |-> slot] ELSE Idle) \in Jobs
    BY <1>4 DEF Jobs
  <1>12. QED
    BY <1>2, <1>8, <1>9, <1>10, <1>11, Starting

LEMMA Adopting ==
    ASSUME TopicsInv, NEW t \in Target, StartAdoption(t), IInv', Recording',
           UNCHANGED <<alive, lost>>
    PROVE  TopicsInv'
  <1>1. PICK op \in {[op |-> "adopt", for |-> t], Idle} : Start(op)
    BY DEF StartAdoption
  <1>2. op \in Jobs
    BY DEF Jobs
  <1>3. InHand'
    BY <1>1 DEF Start, InHand, Removing, Idle
  <1>4. lost' \subseteq 0..made /\ alive' \subseteq alive
    BY DEF TopicsInv, Typed
  <1>5. QED
    BY <1>1, <1>2, <1>3, <1>4, Starting

LEMMA StartAddKeeps ==
    ASSUME TopicsInv, StartAdd, IInv'
    PROVE  TopicsInv'
  <1>1. PICK slot \in SlotId, account \in Account :
            AddTo(slot, account) /\ StartAdoption(slot) /\ UNCHANGED <<alive, lost>>
    BY DEF StartAdd
  <1> DEFINE q == AddAccount(record, slot, account)
  <1>2. /\ slot \notin Connected(record) /\ Holders(record, account) = {}
        /\ record' = q
    BY <1>1 DEF AddTo, ContainsEmail, Fresh, Becomes, TopicsInv, IInv
  <1>3. /\ Targets(q) = Targets(record) \cup {slot}
        /\ \A t \in Targets(record) \cup {slot} :
             Thread(q, t) = IF t = slot THEN NoTopic ELSE Thread(record, t)
    BY <1>1, <1>2, ThreadIs, AddingIsGood
  <1>4. slot \notin Targets(record)
    BY <1>2, ThreadIs, RecordAssumption DEF Targets, Good, HasItsTypes
  <1> HIDE DEF q
  <1>5. made' = made /\ making' = making
    BY <1>1 DEF StartAdoption, Start
  <1>6. /\ \A t \in Targets(record') :
             \/ Thread(record', t) = NoTopic
             \/ t \in Targets(record) /\ Thread(record', t) = Thread(record, t)
        /\ \A t \in Targets(record) :
             t \in Targets(record') /\ Thread(record', t) = Thread(record, t)
    BY <1>2, <1>3, <1>4
  <1>7. Recording'
    BY <1>1, <1>5, <1>6, RecordingStays
  <1>8. QED
    BY <1>1, <1>7, Adopting DEF Target

LEMMA StartOptInKeeps ==
    ASSUME TopicsInv, StartOptIn, IInv'
    PROVE  TopicsInv'
  <1>1. PICK ref \in SlotId \cup {None}, m \in Shared :
            OptIn(ref, m) /\ StartAdoption(m) /\ UNCHANGED <<alive, lost>>
    BY DEF StartOptIn
  <1> DEFINE slot == OptInSlot(ref)
             q == SetShared(record, m, slot)
  <1>2. /\ m \notin OptedIn(record) /\ slot \in Connected(record)
        /\ m \in Access[record.accounts[slot].of] /\ record' = q
    BY <1>1 DEF OptIn, Becomes
  <1> HIDE DEF slot
  <1>3. /\ Targets(q) = Targets(record) \cup {m}
        /\ \A t \in Targets(record) \cup {m} :
             Thread(q, t) = IF t = m THEN NoTopic ELSE Thread(record, t)
    BY <1>1, <1>2, ThreadIs, OptingInIsGood
  <1>4. m \notin Targets(record)
    BY <1>2, ThreadIs, RecordAssumption DEF Targets, Good, HasItsTypes
  <1> HIDE DEF q
  <1>5. made' = made /\ making' = making
    BY <1>1 DEF StartAdoption, Start
  <1>6. /\ \A t \in Targets(record') :
             \/ Thread(record', t) = NoTopic
             \/ t \in Targets(record) /\ Thread(record', t) = Thread(record, t)
        /\ \A t \in Targets(record) :
             t \in Targets(record') /\ Thread(record', t) = Thread(record, t)
    BY <1>2, <1>3, <1>4
  <1>7. Recording'
    BY <1>1, <1>5, <1>6, RecordingStays
  <1>8. QED
    BY <1>1, <1>7, Adopting DEF Target

LEMMA StartRemovalKeeps ==
    ASSUME TopicsInv, NEW targets \in SUBSET Targets(record), NEW op \in Jobs,
           Start(op), DeleteTopics(ThreadsOf(record, targets)), UNCHANGED recordVars,
           op.op \in {"disconnect", "optout", "logout"}, op.since = made,
           op.op \in {"disconnect", "optout"} => op.for \in targets,
           op.op = "disconnect" => op.for \in Connected(record),
           op.op = "optout" => op.for \in OptedIn(record),
           op.op = "logout" => targets = Targets(record), IInv'
    PROVE  TopicsInv'
  <1>1. /\ alive' \subseteq alive /\ lost \subseteq lost' /\ lost' \subseteq 0..made
        /\ \A t \in targets : Thread(record, t) \in alive' => Thread(record, t) \in lost'
    BY Deleting
  <1>2. job' = op /\ record' = record /\ made' = made /\ making' = making
    BY DEF Start, recordVars
  <1>3. Recording'
    BY <1>1, <1>2, RecordingStays
  <1>4. InHand'
    <2>1. Removing' \subseteq targets
      BY <1>2 DEF Removing
    <2>2. made <= made
      BY ThreadIs
    <2>3. QED
      BY <1>1, <1>2, <2>1, <2>2 DEF InHand
  <1>5. QED
    BY <1>1, <1>3, <1>4, Starting

LEMMA StartRemovals ==
    ASSUME TopicsInv, IInv',
           \/ \E s \in Connected(record) : StartDisconnect(s)
           \/ \E m \in OptedIn(record) : StartOptOut(m)
           \/ StartLogout
    PROVE  TopicsInv'
  <1>1. /\ Connected(record) \subseteq SlotId /\ OptedIn(record) \subseteq Shared
        /\ made \in Nat
    BY ThreadIs DEF Good, HasItsTypes
  <1>2. ASSUME NEW s \in Connected(record), StartDisconnect(s)
        PROVE  TopicsInv'
    <2> DEFINE op == [op |-> "disconnect", at |-> "account", for |-> s, since |-> made]
    <2>1. /\ op \in Jobs /\ op.op = "disconnect" /\ op.for = s /\ op.since = made
          /\ {s} \in SUBSET Targets(record)
      BY <1>1 DEF Jobs, Targets
    <2>2. /\ Start(op) /\ DeleteTopics(ThreadsOf(record, {s}))
          /\ UNCHANGED recordVars
      BY <1>2 DEF StartDisconnect
    <2> HIDE DEF op
    <2>3. QED
      BY <2>1, <2>2, StartRemovalKeeps
  <1>3. ASSUME NEW m \in OptedIn(record), StartOptOut(m)
        PROVE  TopicsInv'
    <2> DEFINE op == [op |-> "optout", at |-> "shared", for |-> m, since |-> made]
    <2>1. /\ op \in Jobs /\ op.op = "optout" /\ op.for = m /\ op.since = made
          /\ {m} \in SUBSET Targets(record)
      BY <1>1 DEF Jobs, Targets
    <2>2. /\ Start(op) /\ DeleteTopics(ThreadsOf(record, {m}))
          /\ UNCHANGED recordVars
      BY <1>3 DEF StartOptOut
    <2> HIDE DEF op
    <2>3. QED
      BY <2>1, <2>2, StartRemovalKeeps
  <1>4. ASSUME StartLogout
        PROVE  TopicsInv'
    <2> DEFINE op == [op |-> "logout", at |-> "account", since |-> made]
    <2>1. op \in Jobs /\ op.op = "logout" /\ op.since = made
      BY <1>1 DEF Jobs
    <2>2. /\ Start(op) /\ DeleteTopics(ThreadsOf(record, Targets(record)))
          /\ UNCHANGED recordVars
      BY <1>4 DEF StartLogout, StartLogoutWith
    <2> HIDE DEF op
    <2>3. QED
      BY <2>1, <2>2, StartRemovalKeeps
  <1>5. QED
    BY <1>2, <1>3, <1>4

LEMMA StartThreadsKeeps ==
    ASSUME TopicsInv, StartThreads, IInv'
    PROVE  TopicsInv'
  <1>1. /\ UNCHANGED <<alive, lost>>
        /\ \/ record' = record
           \/ \E on \in {"on", "off"} : SetThreads(on)
    BY DEF StartThreads, ThreadsSync, recordVars
  <1>2. PICK op : /\ Start(op)
                  /\ \/ op = Idle
                     \/ op.op = "sync" /\ op = [op |-> "sync", todo |-> op.todo]
    <2>1. CASE ThreadsSync
      <3>1. PICK todo : Start([op |-> "sync", todo |-> todo])
        BY <2>1 DEF ThreadsSync
      <3>2. QED
        BY <3>1
    <2>2. CASE Start(Idle)
      BY <2>2
    <2>3. QED
      BY <2>1, <2>2 DEF StartThreads
  <1>3. /\ Targets(record') = Targets(record)
        /\ \A t : Thread(record', t) = Thread(record, t)
    <2>1. CASE record' = record
      BY <2>1
    <2>2. ASSUME NEW on \in {"on", "off"}, SetThreads(on)
          PROVE  /\ Targets(record') = Targets(record)
                 /\ \A t : Thread(record', t) = Thread(record, t)
      <3> DEFINE q == [record EXCEPT !.threads = on]
      <3>1. record' = q /\ Exists(record)
        BY <2>2 DEF SetThreads, Becomes
      <3>2. /\ Connected(q) = Connected(record) /\ OptedIn(q) = OptedIn(record)
            /\ \A t : Thread(q, t) = Thread(record, t)
        BY <3>1, ThreadIs, PreferringIsGood
      <3> HIDE DEF q
      <3>3. QED
        BY <3>1, <3>2 DEF Targets
    <2>3. QED
      BY <1>1, <2>1, <2>2
  <1>4. Recording'
    <2>1. made' = made /\ making' = making
      BY <1>2 DEF Start
    <2>2. QED
      BY <1>1, <1>3, <2>1, RecordingStays
  <1>5. InHand'
    BY <1>2 DEF Start, InHand, Removing, Idle
  <1>6. lost' \subseteq 0..made /\ alive' \subseteq alive /\ Idle \in Jobs
    BY <1>1 DEF TopicsInv, Typed, Jobs
  <1>7. QED
    BY <1>2, <1>4, <1>5, <1>6, Starting

-----------------------------------------------------------------------------
(* The invariant is preserved: how the handler's commands go on.            *)

LEMMA Kinds ==
    /\ \A s \in SlotId : Kind(s) = "account"
    /\ \A m \in Shared : Kind(m) = "shared"
  BY RecordAssumption DEF Kind

LEMMA ForgetAccountKeeps ==
    ASSUME TopicsInv, ForgetAccount, IInv'
    PROVE  TopicsInv'
  <1>1. /\ job.op \in {"login", "disconnect", "logout"} /\ Free("account")
        /\ watched' = watched \ Dropped("account")
        /\ job' = [job EXCEPT !.at = "shared"]
        /\ UNCHANGED <<record, made, alive, lost, making, resuming>>
    BY DEF ForgetAccount, recordVars
  <1>2. /\ job.op = "login" => job \in [op: {"login"}, at: {"account", "shared"}, for: SlotId]
        /\ job.op = "disconnect" =>
             job \in [op: {"disconnect"}, at: {"account", "shared"}, for: SlotId, since: Nat]
        /\ job.op = "logout" =>
             job \in [op: {"logout"}, at: {"account", "shared"}, since: Nat]
    BY <1>1 DEF TopicsInv, Typed, Jobs, Idle
  <1>3. /\ job' \in Jobs /\ job'.op = job.op
        /\ job.op \in {"login", "disconnect"} => job'.for = job.for
        /\ job.op \in {"disconnect", "logout"} => job'.since = job.since
    BY <1>1, <1>2 DEF Jobs
  <1>4. \A t \in Dropped("account") : Kind(t) = "account"
    BY <1>1, <1>2, Kinds DEF Dropped
  <1>5. OneAtATime'
    BY <1>1, <1>4 DEF TopicsInv, Typed, Making, OneAtATime, Free
  <1>6. Typed'
    BY <1>1, <1>3 DEF TopicsInv, Typed
  <1>7. InHand'
    BY <1>1, <1>3 DEF TopicsInv, InHand, Removing
  <1>8. Recording'
    BY <1>1 DEF TopicsInv, Recording, Numbered, Distinct, Explained, IsKnown, First, Plain
  <1>9. QED
    BY <1>5, <1>6, <1>7, <1>8 DEF TopicsInv

(* What a command takes out of the record, with the topics that takes out.  *)
LEMMA ForgetSharedRecords ==
    ASSUME TopicsInv, ForgetShared
    PROVE  /\ lost \subseteq lost' /\ lost' \subseteq 0..made
           /\ \A t \in Targets(record') :
                t \in Targets(record) /\ Thread(record', t) = Thread(record, t)
           /\ \A t \in Targets(record) :
                \/ Thread(record, t) \notin alive \/ Thread(record, t) \in lost'
                \/ t \in Targets(record') /\ Thread(record', t) = Thread(record, t)
           /\ job.op = "login" => record' = record
  <1>1. job.op \in {"login", "disconnect", "logout", "optout"}
    BY DEF ForgetShared
  <1>2. /\ \A targets : ThreadsOf(record, targets) \subseteq 0..made
        /\ \A targets, since : Late(targets, since) \subseteq 0..made
        /\ lost \subseteq 0..made
    BY ThreadsOfAre DEF Late, TopicsInv, Typed
  <1>3. ASSUME NEW targets, job.op \in {"disconnect", "optout", "logout"},
               targets \subseteq Removing, Late(targets, job.since) \subseteq lost',
               lost \subseteq lost'
        PROVE  \A t \in targets : Thread(record, t) \notin alive \/ Thread(record, t) \in lost'
    <2> SUFFICES ASSUME NEW t \in targets, Thread(record, t) \in alive
                 PROVE  Thread(record, t) \in lost'
      OBVIOUS
    <2>1. job.since \in Nat
      BY <1>3 DEF TopicsInv, Typed, Jobs, Idle
    <2>2. Thread(record, t) \in 0..made /\ made \in Nat
      BY ThreadIs
    <2>3. CASE Thread(record, t) <= job.since
      BY <1>3, <2>3 DEF TopicsInv, InHand
    <2>4. CASE ~(Thread(record, t) <= job.since)
      <3>1. Thread(record, t) > job.since
        BY <2>1, <2>2, <2>4
      <3>2. Thread(record, t) \in ThreadsOf(record, targets)
        BY ThreadsOfAre
      <3>3. Thread(record, t) \in Late(targets, job.since)
        BY <3>1, <3>2 DEF Late
      <3>4. QED
        BY <1>3, <3>3
    <2>5. QED
      BY <2>3, <2>4
  <1>4. CASE job.op = "login"
    <2>1. record' = record /\ lost' = lost
      BY <1>4 DEF ForgetShared, recordVars
    <2>2. QED
      BY <1>2, <2>1
  <1>5. CASE job.op = "disconnect"
    <2> DEFINE q == RemoveAccount(record, job.for)
               kids == Children(record, job.for)
    <2>1. /\ record' = q
          /\ lost' = lost \cup Late({job.for}, job.since) \cup ThreadsOf(record, kids)
      BY <1>5 DEF ForgetShared, Disconnect, Becomes
    <2>2. /\ Targets(q) \subseteq Targets(record)
          /\ Targets(record) \subseteq Targets(q) \cup {job.for} \cup kids
          /\ \A t \in Targets(q) : Thread(q, t) = Thread(record, t)
      BY ThreadIs, RemovingIsGood
    <2> HIDE DEF q, kids
    <2>3. Thread(record, job.for) \notin alive \/ Thread(record, job.for) \in lost'
      <3>1. {job.for} \subseteq Removing
        BY <1>5 DEF Removing
      <3>2. QED
        BY <1>3, <1>5, <2>1, <3>1
    <2>4. \A t \in kids : Thread(record, t) \notin alive \/ Thread(record, t) \in lost'
      BY <2>1, ThreadsOfAre
    <2>5. QED
      BY <1>2, <1>5, <2>1, <2>2, <2>3, <2>4
  <1>6. CASE job.op = "optout"
    <2> DEFINE q == RemoveShared(record, job.for)
    <2>1. /\ record' = q /\ job.for \in OptedIn(record)
          /\ lost' = lost \cup Late({job.for}, job.since)
      BY <1>6 DEF ForgetShared, OptOut, Becomes
    <2>2. /\ Targets(q) = Targets(record) \ {job.for}
          /\ \A t \in Targets(record) \ {job.for} : Thread(q, t) = Thread(record, t)
      BY <2>1, ThreadIs, OptingOutIsGood
    <2> HIDE DEF q
    <2>3. Thread(record, job.for) \notin alive \/ Thread(record, job.for) \in lost'
      <3>1. {job.for} \subseteq Removing
        BY <1>6 DEF Removing
      <3>2. QED
        BY <1>3, <1>6, <2>1, <3>1
    <2>4. QED
      BY <1>2, <1>6, <2>1, <2>2, <2>3
  <1>7. CASE job.op = "logout"
    <2>1. /\ record' = NoRecord
          /\ lost' = lost \cup Late(Targets(record), job.since)
      BY <1>7 DEF ForgetShared, Logout, Becomes
    <2>2. Targets(NoRecord) = {}
      BY DEF NoRecord, Nothing, Targets, Connected, OptedIn
    <2>3. \A t \in Targets(record) :
             Thread(record, t) \notin alive \/ Thread(record, t) \in lost'
      <3>1. Targets(record) \subseteq Removing
        BY <1>7 DEF Removing
      <3>2. QED
        BY <1>3, <1>7, <2>1, <3>1
    <2>4. QED
      BY <1>2, <1>7, <2>1, <2>2, <2>3
  <1>8. QED
    BY <1>1, <1>4, <1>5, <1>6, <1>7

LEMMA ForgetSharedKeeps ==
    ASSUME TopicsInv, ForgetShared, IInv'
    PROVE  TopicsInv'
  <1>1. /\ job.op \in {"login", "disconnect", "logout", "optout"}
        /\ job.op = "logout" \/ Dropped("shared") # {} => Free("shared")
        /\ watched' = watched \ Dropped("shared")
        /\ UNCHANGED <<made, alive, making, resuming>>
        /\ job' = IF job.op = "login" THEN [op |-> "adopt", for |-> job.for] ELSE Idle
    BY DEF ForgetShared
  <1>2. Recording'
    <2>1. lost \subseteq lost' /\ made' = made /\ making' = making /\ alive' = alive
      BY <1>1, ForgetSharedRecords
    <2>2. \A t \in Targets(record') :
             t \in Targets(record) /\ Thread(record', t) = Thread(record, t)
      BY ForgetSharedRecords
    <2>3. \A t \in Targets(record) :
             \/ Thread(record, t) \notin alive \/ Thread(record, t) \in lost'
             \/ t \in Targets(record') /\ Thread(record', t) = Thread(record, t)
      BY ForgetSharedRecords
    <2>4. QED
      BY <2>1, <2>2, <2>3, RecordingStays
  <1>3. job.op = "login" => job.for \in SlotId
    BY DEF TopicsInv, Typed, Jobs, Idle
  <1>4. job' \in Jobs
    BY <1>1, <1>3 DEF Jobs, Target
  <1>5. Typed'
    BY <1>1, <1>4, ForgetSharedRecords DEF TopicsInv, Typed
  <1>6. InHand'
    BY <1>1 DEF InHand, Removing, Idle
  <1>7. \A t \in Dropped("shared") : Kind(t) = "shared"
    <2>1. Children(record, job.for) \subseteq Shared
      BY ThreadIs DEF Children, Good, HasItsTypes
    <2>2. QED
      BY <2>1, Kinds DEF Dropped
  <1>8. OneAtATime'
    <2>1. ASSUME NEW x \in making, x.by # "sync"
          PROVE  x.for \in watched'
      <3>1. x.by \in {"boot", "adopt"} /\ x.for \in watched
        BY <2>1 DEF TopicsInv, Typed, Making, OneAtATime
      <3>2. CASE Dropped("shared") = {}
        BY <1>1, <3>1, <3>2
      <3>3. CASE Dropped("shared") # {}
        BY <1>1, <1>7, <3>1, <3>3 DEF Free
      <3>4. QED
        BY <3>2, <3>3
    <2>2. QED
      BY <1>1, <2>1 DEF TopicsInv, OneAtATime
  <1>9. QED
    BY <1>2, <1>5, <1>6, <1>8 DEF TopicsInv

LEMMA HandlerAdoptsKeeps ==
    ASSUME TopicsInv, HandlerAdopts, IInv'
    PROVE  TopicsInv'
  <1>1. /\ job.op = "adopt" /\ ~HandlerMakes /\ Free(Kind(job.for))
        /\ watched' = watched \cup {job.for}
        /\ UNCHANGED <<record, made, alive, lost, resuming>>
        /\ job' = job \/ job' = Idle
    BY DEF HandlerAdopts, recordVars
  <1>2. job.for \in Target
    BY <1>1 DEF TopicsInv, Typed, Jobs, Idle
  <1>3. making' \subseteq Making /\ OneAtATime' /\ Recording'
    <2>1. CASE making' = making
      BY <1>1, <2>1 DEF TopicsInv, Typed, OneAtATime, Recording, Numbered, Distinct,
                        Explained, IsKnown, First, Plain
    <2>2. CASE making' # making
      <3>1. Begin("adopt", job.for) /\ Missing(job.for)
        BY <2>2 DEF HandlerAdopts
      <3>2. job.for \in watched' /\ watched \subseteq watched'
        BY <1>1
      <3>3. QED
        BY <1>1, <1>2, <3>1, <3>2, Beginning
    <2>3. QED
      BY <2>1, <2>2
  <1>4. Typed'
    BY <1>1, <1>2, <1>3 DEF TopicsInv, Typed, Jobs
  <1>5. InHand'
    BY <1>1 DEF InHand, Removing, Idle
  <1>6. QED
    BY <1>3, <1>4, <1>5 DEF TopicsInv

LEMMA HandlerSyncsKeeps ==
    ASSUME TopicsInv, HandlerSyncs, IInv'
    PROVE  TopicsInv'
  <1>1. /\ job.op = "sync" /\ ~HandlerMakes
        /\ UNCHANGED <<record, made, alive, lost, watched, resuming>>
    BY DEF HandlerSyncs, recordVars
  <1>2. job = [op |-> "sync", todo |-> job.todo]
    BY <1>1 DEF TopicsInv, Typed, Jobs, Idle
  <1>3. job' = Idle \/ (job'.op = "sync" /\ job' = [op |-> "sync", todo |-> job'.todo])
    <2>1. \/ job' = Idle \/ job' = [job EXCEPT !.todo = Tail(@)]
          \/ job' = [job EXCEPT !.todo = <<>>]
      BY DEF HandlerSyncs
    <2>2. \A q : /\ [job EXCEPT !.todo = q] = [op |-> "sync", todo |-> q]
                 /\ [op |-> "sync", todo |-> q].op = "sync"
                 /\ [op |-> "sync", todo |-> q].todo = q
      BY <1>2
    <2>3. QED
      BY <2>1, <2>2
  <1>4. making' \subseteq Making /\ OneAtATime' /\ Recording'
    <2>1. CASE making' = making
      BY <1>1, <2>1 DEF TopicsInv, Typed, OneAtATime, Recording, Numbered, Distinct,
                        Explained, IsKnown, First, Plain
    <2>2. CASE making' # making
      <3>1. PICK t : Begin("sync", t) /\ Missing(t)
        BY <2>2 DEF HandlerSyncs
      <3>2. t \in Target
        BY <3>1, ThreadIs DEF Missing, Wanted
      <3>3. QED
        BY <1>1, <3>1, <3>2, Beginning
    <2>3. QED
      BY <2>1, <2>2
  <1>5. Typed'
    BY <1>1, <1>3, <1>4 DEF TopicsInv, Typed, Jobs
  <1>6. InHand'
    BY <1>3 DEF InHand, Removing, Idle
  <1>7. QED
    BY <1>4, <1>5, <1>6 DEF TopicsInv

-----------------------------------------------------------------------------
(* The invariant holds.                                                    *)

LEMMA InitHolds ==
    ASSUME TopicsInit PROVE TopicsInv
  <1>1. IInv /\ Good(record) /\ \A t : Thread(record, t) = NoTopic
    BY InitIsGood DEF TopicsInit, IInv
  <1>2. Targets(record) \subseteq Target
    BY <1>1 DEF Good, HasItsTypes, Targets, Target
  <1>3. QED
    BY <1>1, <1>2, RecordAssumption
    DEF TopicsInit, TopicsInv, Typed, Jobs, OneAtATime, InHand, Removing, Idle,
        Recording, Numbered, Distinct, Explained, First, Plain

LEMMA NextHolds ==
    ASSUME TopicsInv, [TopicsNext]_topicsVars PROVE TopicsInv'
  <1>1. IInv'
    BY RecordKeeps
  <1>2. CASE Handler
    <2>1. CASE StartLogin
      BY <1>1, <2>1, StartLoginKeeps
    <2>2. CASE StartAdd
      BY <1>1, <2>2, StartAddKeeps
    <2>3. CASE StartOptIn
      BY <1>1, <2>3, StartOptInKeeps
    <2>4. CASE \/ \E s \in Connected(record) : StartDisconnect(s)
               \/ \E m \in OptedIn(record) : StartOptOut(m)
               \/ StartLogout
      BY <1>1, <2>4, StartRemovals
    <2>5. CASE StartThreads
      BY <1>1, <2>5, StartThreadsKeeps
    <2>6. CASE ForgetAccount
      BY <1>1, <2>6, ForgetAccountKeeps
    <2>7. CASE ForgetShared
      BY <1>1, <2>7, ForgetSharedKeeps
    <2>8. CASE HandlerAdopts
      BY <1>1, <2>8, HandlerAdoptsKeeps
    <2>9. CASE HandlerSyncs
      BY <1>1, <2>9, HandlerSyncsKeeps
    <2>10. QED
      BY <1>2, <2>1, <2>2, <2>3, <2>4, <2>5, <2>6, <2>7, <2>8, <2>9 DEF Handler
  <1>3. ASSUME NEW x \in making, CreationEnds(x)
        PROVE  TopicsInv'
    BY <1>1, <1>3, CreationKeeps
  <1>4. ASSUME NEW t, BootAdopts(t) \/ BootLeaves(t)
        PROVE  TopicsInv'
    BY <1>1, <1>4, BootKeeps
  <1>5. ASSUME NEW t, ThreadNotFound(t)
        PROVE  TopicsInv'
    BY <1>1, <1>5, NotFoundKeeps
  <1>6. ASSUME NEW n, UserDeletes(n)
        PROVE  TopicsInv'
    BY <1>1, <1>6, UserKeeps
  <1>7. CASE UNCHANGED topicsVars
    BY <1>1, <1>7
    DEF topicsVars, topicVars, recordVars, TopicsInv, Typed, Jobs, OneAtATime, InHand,
        Removing, Recording, Numbered, Distinct, Explained, IsKnown, First, Plain
  <1>8. QED
    BY <1>2, <1>3, <1>4, <1>5, <1>6, <1>7 DEF TopicsNext

THEOREM TopicsInvariantHolds == TopicsSpec => []TopicsInv
  <1>1. TopicsInit => TopicsInv
    BY InitHolds
  <1>2. TopicsInv /\ [TopicsNext]_topicsVars => TopicsInv'
    BY NextHolds
  <1>3. QED
    BY <1>1, <1>2, PTL DEF TopicsSpec

-----------------------------------------------------------------------------
(* What a reader should know.                                              *)

(* The commands' steps with their awaits, boot's resumptions and what the   *)
(* user and the watchers do in between are to the record whole steps of     *)
(* Record: a refinement, from which the record's own theorems carry over.    *)
THEOREM RecordIsImplemented == TopicsSpec => RecordPromise
  <1>1. TopicsInv /\ [TopicsNext]_topicsVars => [RecordNext]_recordVars
    BY StepIsAllowed
  <1>2. QED
    BY <1>1, TopicsInvariantHolds, PTL DEF TopicsSpec, RecordPromise

(* The record as it is in the midst of commands and resumptions: of its      *)
(* types, no address twice, and each shared mailbox opened by an account.   *)
THEOREM RecordStaysGood ==
    TopicsSpec => [](RecordTypeOK /\ AddressOnce /\ SharedIsOpenedByParent)
  <1>1. TopicsSpec => RecordSpec
    <2>1. TopicsInit => RecordInit
      BY DEF TopicsInit
    <2>2. QED
      BY <2>1, RecordIsImplemented, PTL DEF TopicsSpec, RecordSpec, RecordPromise
  <1>2. QED
    BY <1>1, TypeCorrect, NoAddressTwice, EveryShareIsOpened, PTL

(* The types of the topics' state; adoptions of a kind exclude each other   *)
(* while they make a topic, and the handler makes one at a time; and no     *)
(* topic is recorded for two targets.                                       *)
THEOREM TopicsTypeCorrect == TopicsSpec => []TopicsTypeOK
  <1>1. TopicsInv => TopicsTypeOK
    <2> SUFFICES ASSUME TopicsInv PROVE TopicsTypeOK
      OBVIOUS
    <2>1. /\ made \in 0..MaxTopics /\ made \in Nat /\ alive \cup lost \subseteq 0..made
          /\ making \subseteq [by: {"boot", "adopt", "sync"}, for: Target,
                              contested: BOOLEAN]
          /\ watched \cup resuming \subseteq Target
      BY ThreadIs DEF TopicsInv, Typed, Making
    <2>2. Cardinality({x \in making : x.by # "boot"}) <= 1
      <3> DEFINE S == {x \in making : x.by # "boot"}
      <3>1. \A x, y \in S : x = y
        BY DEF TopicsInv, OneAtATime
      <3> HIDE DEF S
      <3>2. CASE S = {}
        BY <3>2, FS_EmptySet DEF S
      <3>3. CASE S # {}
        <4>1. PICK x \in S : S = {x}
          BY <3>1, <3>3
        <4>2. Cardinality(S) = 1
          BY <4>1, FS_Singleton
        <4>3. QED
          BY <4>2 DEF S
      <3>4. QED
        BY <3>2, <3>3
    <2>3. Recorded \subseteq 1..made
      BY <2>1, ThreadIs DEF Recorded
    <2>4. QED
      BY <2>1, <2>2, <2>3 DEF TopicsTypeOK, TopicsInv, OneAtATime, Recording, Distinct
  <1>2. QED
    BY <1>1, TopicsInvariantHolds, PTL

(* src/topics.rs:90-96 and 253: a topic that exists is the recorded one of a *)
(* target, unless it was lost in one of the ways the model names; however   *)
(* many targets, topics and commands there are.                             *)
THEOREM NoStrayTopic == TopicsSpec => []StrayTopicsAreExplained
  <1>1. TopicsInv => StrayTopicsAreExplained
    <2> SUFFICES ASSUME TopicsInv, NEW n \in alive PROVE n \in Recorded \cup lost
      BY DEF StrayTopicsAreExplained
    <2>1. n # NoTopic /\ IsKnown(n)
      BY DEF TopicsInv, Typed, Recording, Explained
    <2>2. QED
      BY <2>1 DEF IsKnown, Recorded
  <1>2. QED
    BY <1>1, TopicsInvariantHolds, PTL

-----------------------------------------------------------------------------
(* Buttons: the inductive invariant, besides that of the record.            *)

Mail ==
    [kind: {"mail"}, ref: SlotId \cup Shared \cup {None}, of: Mailboxes,
     fresh: BOOLEAN, read: BOOLEAN, keys: SUBSET Letters, marked: BOOLEAN,
     misled: BOOLEAN]
Line == [kind: {"account"}, ref: SlotId, of: Mailboxes, fresh: BOOLEAN]
Offer ==
    [kind: {"share"}, ref: SlotId \cup {None}, of: Mailboxes, m: Shared,
     fresh: BOOLEAN]
Card == Mail \cup Line \cup Offer

(* A slot's name is given out once, but the first login's only as long as   *)
(* there is a record; and an account that keeps its slot is the same one.    *)
LeadsTo(s, of) == s \in Connected(record) => Holds(s) = of

Reaches(c) ==
    /\ c.ref \in Shared => c.kind = "mail" /\ c.of = c.ref
    /\ c.ref \in SlotId \ {Default} => c.ref \in used /\ LeadsTo(c.ref, c.of)
    /\ c.ref \in {Default, None} /\ c.fresh =>
         Exists(record) /\ LeadsTo(Default, c.of)

(* A keyboard with a read mark is of a mail that was marked.                 *)
MarkIsEarned(c) ==
    c.kind = "mail" /\ (c.read \/ c.keys \cap {"E", "C"} # {}) => c.marked \/ c.misled

ChoiceIsStored ==
    chosen # None => chosen \in Supported /\ record.language = chosen /\ Exists(record)

ButtonsInv ==
    /\ IInv /\ ChoiceIsStored
    /\ card = NoCard \/ (card \in Card /\ Reaches(card) /\ MarkIsEarned(card))

-----------------------------------------------------------------------------
(* The first slot of a record that has one.                                 *)
LEMMA FirstSlot ==
    ASSUME NEW r, Good(r), Exists(r)
    PROVE  PrimarySlot(r) \in Connected(r)
  <1> DEFINE ranks == {Rank[s] : s \in Connected(r)}
             below == OpToRel(<, Nat)
  <1>1. Connected(r) \subseteq SlotId
    BY DEF Good, HasItsTypes
  <1>2. ranks \subseteq Nat /\ ranks # {}
    BY <1>1, RecordAssumption DEF Exists
  <1>3. \A i, j \in Nat : i < j => <<i, j>> \in below
    BY DEF OpToRel
  <1>4. IsWellFoundedOn(below, Nat)
    BY NatLessThanWellFounded
  <1> HIDE DEF below
  <1>5. PICK n \in ranks : \A k \in ranks : <<k, n>> \notin below
    BY <1>2, <1>4, WFMin
  <1>6. PICK s \in Connected(r) : Rank[s] = n
    BY <1>5
  <1>7. \A u \in Connected(r) : Rank[s] <= Rank[u]
    <2> SUFFICES ASSUME NEW u \in Connected(r) PROVE Rank[s] <= Rank[u]
      OBVIOUS
    <2>1. Rank[u] \in ranks /\ Rank[u] \in Nat /\ n \in Nat
      BY <1>2, <1>5
    <2>2. ~(Rank[u] < n)
      BY <1>3, <1>5, <2>1
    <2>3. QED
      BY <1>6, <2>1, <2>2
  <1>8. QED
    BY <1>7 DEF PrimarySlot, Exists

-----------------------------------------------------------------------------
(* What a name leads to.                                                    *)

LEMMA OpenedIsReached ==
    ASSUME ButtonsInv, NEW m \in OptedIn(record)
    PROVE  ParentSlot(record, m) # None /\ Exists(record) /\ Mailbox(m) = m
  <1>1. record.shared[m].parent \in Connected(record) /\ Connected(record) \subseteq SlotId
    BY DEF ButtonsInv, IInv, Good, Opened, HasItsTypes
  <1>2. ParentSlot(record, m) # None
    BY <1>1, RecordAssumption DEF ParentSlot
  <1>3. QED
    BY <1>1, <1>2 DEF Exists, Mailbox

LEMMA Routed ==
    ASSUME ButtonsInv, card # NoCard, NameIsGood(card)
    PROVE  Named(card) = IF card.ref \in Targets(record) \cup {None} /\ Exists(record)
                         THEN card.of ELSE None
  <1>1. /\ card \in Card /\ Reaches(card)
        /\ Good(record) /\ Connected(record) \subseteq SlotId
        /\ OptedIn(record) \subseteq Shared
    BY DEF ButtonsInv, IInv, Good, HasItsTypes
  <1>2. /\ card.ref \in SlotId \cup Shared \cup {None}
        /\ card.kind = "mail" => Named(card) = Mailbox(card.ref)
        /\ card.kind # "mail" => /\ Named(card) = Holds(OptInSlot(card.ref))
                                 /\ card.ref \in SlotId \cup {None}
    BY <1>1 DEF Card, Mail, Line, Offer, Named
  <1>3. CASE card.ref \in Shared
    <2>1. Named(card) = Mailbox(card.ref) /\ card.of = card.ref
      BY <1>1, <1>2, <1>3 DEF Reaches
    <2>2. card.ref \notin Connected(record) /\ card.ref # None
      BY <1>1, <1>3, RecordAssumption
    <2>3. CASE card.ref \in OptedIn(record)
      BY <2>1, <2>3, OpenedIsReached DEF Targets
    <2>4. CASE card.ref \notin OptedIn(record)
      BY <2>1, <2>2, <2>4 DEF Mailbox, Holds, Targets
    <2>5. QED
      BY <2>3, <2>4
  <1>4. CASE card.ref \in SlotId
    <2>1. Named(card) = Holds(card.ref) /\ card.ref # None /\ card.ref \notin OptedIn(record)
      BY <1>1, <1>2, <1>4, RecordAssumption DEF Mailbox, OptInSlot
    <2>2. CASE card.ref \in Connected(record)
      <3>1. Exists(record)
        BY <2>2 DEF Exists
      <3>2. Holds(card.ref) = card.of
        BY <1>1, <1>4, <2>1, <2>2 DEF Reaches, LeadsTo, NameIsGood
      <3>3. QED
        BY <2>1, <2>2, <3>1, <3>2 DEF Targets
    <2>3. CASE card.ref \notin Connected(record)
      BY <2>1, <2>3 DEF Holds, Targets
    <2>4. QED
      BY <2>2, <2>3
  <1>5. CASE card.ref = None
    <2>1. /\ card.ref \notin OptedIn(record) /\ Named(card) = Holds(PrimarySlot(record))
          /\ card.fresh /\ PrimarySlot(record) \in {Default, None}
      BY <1>1, <1>2, <1>5, RecordAssumption DEF Mailbox, OptInSlot, NameIsGood
    <2>2. Exists(record) /\ LeadsTo(Default, card.of)
      BY <1>1, <1>5, <2>1 DEF Reaches
    <2>3. PrimarySlot(record) \in Connected(record) /\ PrimarySlot(record) = Default
      BY <1>1, <2>1, <2>2, FirstSlot, RecordAssumption
    <2>4. QED
      BY <1>5, <2>1, <2>2, <2>3 DEF LeadsTo
  <1>6. QED
    BY <1>2, <1>3, <1>4, <1>5

-----------------------------------------------------------------------------
(* What the commands leave of the slots and of the language.                *)

SlotStays(s) ==
    \/ /\ s \in Connected(record)
       /\ Spelled[record'.accounts[s].of] = Spelled[record.accounts[s].of]
    \/ s \notin used /\ s # Default
    \/ s = Default /\ ~Exists(record)

LEMMA LoginLeaves ==
    ASSUME IInv, NEW account \in Account, NEW code \in Code, Login(account, code)
    PROVE  /\ \A s \in Connected(record') : SlotStays(s)
           /\ record.language \in Supported => record'.language = record.language
  <1>1. PICK slot \in LoginSlots(account), saved \in BOOLEAN :
            LoginTo(slot, account, code, saved)
    BY DEF Login
  <1> DEFINE added == AddAccount(record, slot, account)
             language == Resolve(record.language, code)
  <1>2. Good(record) /\ slot \in SlotId
    BY RecordAssumption DEF IInv, LoginSlots, Holders, Fresh, Good, HasItsTypes
  <1>3. \/ slot \notin Connected(record) /\ Holders(record, account) = {}
        \/ slot \in Holders(record, account)
    BY DEF IInv, LoginSlots, Fresh, Exists
  <1>4. \/ slot \in Holders(record, account)
        \/ slot \notin used /\ slot # Default
        \/ slot = Default /\ ~Exists(record)
    BY DEF LoginSlots, Fresh
  <1>5. /\ Good(added) /\ Exists(added)
        /\ Connected(added) = Connected(record) \cup {slot}
        /\ \A s \in Connected(record) \cup {slot} :
             added.accounts[s].of = IF s = slot THEN account ELSE record.accounts[s].of
        /\ added.language = record.language
    BY <1>2, <1>3, AddingIsGood
  <1>6. language \in Supported \cup {None}
        /\ (record.language \in Supported => language = record.language)
    BY RecordAssumption DEF Resolve, Supported
  <1> HIDE DEF added, language
  <1>7. record' = IF saved THEN [added EXCEPT !.language = language] ELSE added
    BY <1>1 DEF LoginTo, Becomes, Seeded, added, language
  <1>8. /\ Connected([added EXCEPT !.language = language]) = Connected(added)
        /\ [added EXCEPT !.language = language].accounts = added.accounts
        /\ [added EXCEPT !.language = language].language = language
    BY <1>5, <1>6, ChoosingIsGood
  <1>9. /\ Connected(record') = Connected(record) \cup {slot}
        /\ record'.accounts = added.accounts
        /\ record'.language \in {language, record.language}
    BY <1>5, <1>7, <1>8
  <1>10. ASSUME NEW s \in Connected(record')
         PROVE  SlotStays(s)
    <2>1. CASE s = slot
      BY <1>4, <1>5, <1>9, <2>1 DEF SlotStays, Holders
    <2>2. CASE s # slot
      BY <1>5, <1>9, <1>10, <2>2 DEF SlotStays
    <2>3. QED
      BY <2>1, <2>2
  <1>11. QED
    BY <1>6, <1>9, <1>10

LEMMA CommandLeaves ==
    ASSUME IInv, AccountCommand
    PROVE  /\ \A s \in Connected(record') : SlotStays(s)
           /\ record.language \in Supported /\ Exists(record') =>
                record'.language = record.language
  <1>1. Good(record) /\ Connected(record) \subseteq SlotId
    BY DEF IInv, Good, HasItsTypes
  <1>2. ~Exists(NoRecord)
    BY DEF Exists, Connected, NoRecord, Nothing
  <1>3. ASSUME NEW account \in Account, NEW code \in Code, Login(account, code)
        PROVE  /\ \A s \in Connected(record') : SlotStays(s)
               /\ record.language \in Supported => record'.language = record.language
    BY <1>3, LoginLeaves
  <1>4. ASSUME NEW slot \in SlotId, NEW account \in Account, AddTo(slot, account)
        PROVE  /\ \A s \in Connected(record') : SlotStays(s)
               /\ record'.language = record.language
    <2> DEFINE q == AddAccount(record, slot, account)
    <2>1. /\ slot \notin Connected(record) /\ Holders(record, account) = {}
          /\ slot \notin used /\ slot # Default /\ record' = q
      BY <1>4 DEF AddTo, ContainsEmail, Fresh, IInv, Becomes
    <2>2. /\ Connected(q) = Connected(record) \cup {slot}
          /\ \A s \in Connected(record) \cup {slot} :
               q.accounts[s].of = IF s = slot THEN account ELSE record.accounts[s].of
          /\ q.language = record.language
      BY <1>1, <2>1, AddingIsGood
    <2> HIDE DEF q
    <2>3. QED
      BY <2>1, <2>2 DEF SlotStays
  <1>5. ASSUME NEW slot, Disconnect(slot)
        PROVE  /\ \A s \in Connected(record') : SlotStays(s)
               /\ record' = NoRecord \/ record'.language = record.language
    <2> DEFINE q == RemoveAccount(record, slot)
    <2>1. record' = q
      BY <1>5 DEF Disconnect, Becomes
    <2>2. /\ Connected(q) = Connected(record) \ {slot}
          /\ \A s \in Connected(record) \ {slot} :
               q.accounts[s].of = record.accounts[s].of
          /\ q = NoRecord \/ q.language = record.language
      BY <1>1, RemovingIsGood
    <2> HIDE DEF q
    <2>3. QED
      BY <2>1, <2>2 DEF SlotStays
  <1>6. ASSUME Logout
        PROVE  record' = NoRecord /\ Connected(record') = {}
    BY <1>2, <1>6 DEF Logout, Becomes, Exists
  <1>7. ASSUME NEW ref \in SlotId \cup {None}, NEW m \in Shared, OptIn(ref, m)
        PROVE  /\ \A s \in Connected(record') : SlotStays(s)
               /\ record'.language = record.language
    <2> DEFINE slot == OptInSlot(ref)
               q == SetShared(record, m, slot)
    <2>1. /\ slot \in Connected(record) /\ m \in Access[record.accounts[slot].of]
          /\ record' = q
      BY <1>7 DEF OptIn, Becomes
    <2> HIDE DEF slot
    <2>2. /\ Connected(q) = Connected(record) /\ q.accounts = record.accounts
          /\ q.language = record.language
      BY <1>1, <2>1, OptingInIsGood
    <2> HIDE DEF q
    <2>3. QED
      BY <2>1, <2>2 DEF SlotStays
  <1>8. ASSUME NEW m \in Shared, OptOut(m)
        PROVE  /\ \A s \in Connected(record') : SlotStays(s)
               /\ record'.language = record.language
    <2> DEFINE q == RemoveShared(record, m)
    <2>1. m \in OptedIn(record) /\ record' = q
      BY <1>8 DEF OptOut, Becomes
    <2>2. /\ Connected(q) = Connected(record) /\ q.accounts = record.accounts
          /\ q.language = record.language
      BY <1>1, <2>1, OptingOutIsGood
    <2> HIDE DEF q
    <2>3. QED
      BY <2>1, <2>2 DEF SlotStays
  <1>9. QED
    BY <1>2, <1>3, <1>4, <1>5, <1>6, <1>7, <1>8 DEF AccountCommand

-----------------------------------------------------------------------------
(* The invariant is preserved.                                             *)

LEMMA ReachedIsTyped ==
    ASSUME ButtonsInv
    PROVE  /\ \A s \in Connected(record) : s \in SlotId /\ Holds(s) \in Mailboxes
           /\ \A t : Mailbox(t) # None /\ t # None => Mailbox(t) \in Mailboxes
           /\ Connected(record) \subseteq used
  <1>1. /\ Connected(record) \subseteq SlotId /\ OptedIn(record) \subseteq Shared
        /\ \A s \in Connected(record) : record.accounts[s].of \in Account
        /\ Connected(record) \subseteq used
    BY DEF ButtonsInv, IInv, Good, HasItsTypes, Slot
  <1>2. \A s \in Connected(record) : Holds(s) \in Mailboxes
    BY <1>1 DEF Holds, Mailboxes
  <1>3. ASSUME NEW t, Mailbox(t) # None, t # None
        PROVE  Mailbox(t) \in Mailboxes
    <2>1. CASE t \in OptedIn(record)
      BY <1>1, <2>1, OpenedIsReached DEF Mailboxes
    <2>2. CASE t \notin OptedIn(record)
      BY <1>2, <1>3, <2>2 DEF Mailbox, Holds
    <2>3. QED
      BY <2>1, <2>2
  <1>4. QED
    BY <1>1, <1>2, <1>3

LEMMA KeysAreLetters ==
    ASSUME NEW read \in BOOLEAN, NEW expanded \in BOOLEAN
    PROVE  Keys(read, expanded) \subseteq Letters /\ "u" \in Letters
  <1> DEFINE boards == {Keys(r, e) : r, e \in BOOLEAN}
  <1>1. Keys(read, expanded) \in boards
    OBVIOUS
  <1>2. Letters = (UNION boards) \cup {"u"}
    BY DEF Letters
  <1> HIDE DEF boards
  <1>3. ASSUME NEW k \in Keys(read, expanded)
        PROVE  k \in Letters
    <2>1. k \in UNION boards
      BY <1>1
    <2>2. QED
      BY <1>2, <2>1
  <1>4. "u" \in Letters
    BY <1>2
  <1>5. QED
    BY <1>3, <1>4

LEMMA MailCardIs ==
    ASSUME NEW ref \in SlotId \cup Shared \cup {None}, NEW of \in Mailboxes
    PROVE  /\ MailCard(ref, of) \in Mail /\ MarkIsEarned(MailCard(ref, of))
           /\ MailCard(ref, of).ref = ref /\ MailCard(ref, of).of = of
           /\ MailCard(ref, of).fresh = TRUE /\ MailCard(ref, of).kind = "mail"
  <1>1. Keys(FALSE, FALSE) \subseteq Letters
    BY KeysAreLetters
  <1>2. Keys(FALSE, FALSE) \cap {"E", "C"} = {}
    BY DEF Keys
  <1> HIDE DEF Keys
  <1>3. QED
    BY <1>1, <1>2 DEF MailCard, Mail, MarkIsEarned

LEMMA SendKeeps ==
    ASSUME ButtonsInv, Send, IInv'
    PROVE  ButtonsInv'
  <1>1. UNCHANGED <<record, used, chosen>>
    BY DEF Send, recordVars
  <1>2. ChoiceIsStored'
    BY <1>1 DEF ButtonsInv, ChoiceIsStored
  <1>3. ASSUME NEW c, card' = c, c \in Card, Reaches(c), MarkIsEarned(c)
        PROVE  ButtonsInv'
    <2>1. Reaches(card)' /\ MarkIsEarned(card)'
      BY <1>1, <1>3 DEF Reaches, MarkIsEarned, LeadsTo, Holds
    <2>2. QED
      BY <1>2, <1>3, <2>1 DEF ButtonsInv
  <1>4. ASSUME NEW s \in Connected(record), NEW ref, ref = s \/ (ref = None /\ s = Default),
               NEW c, c.ref = ref, c.of = Holds(s)
        PROVE  Reaches(c)
    <2>1. s \in SlotId /\ s \in used /\ Exists(record)
      BY ReachedIsTyped DEF Exists
    <2>2. QED
      BY <1>4, <2>1, RecordAssumption DEF Reaches, LeadsTo
  <1>5. ASSUME NEW t \in SlotId \cup Shared, Notify(t)
        PROVE  ButtonsInv'
    <2>1. Mailbox(t) # None /\ card' = MailCard(t, Mailbox(t)) /\ t # None
      BY <1>5, RecordAssumption DEF Notify
    <2>2. Mailbox(t) \in Mailboxes
      BY <2>1, ReachedIsTyped
    <2> DEFINE c == MailCard(t, Mailbox(t))
    <2>3. /\ c \in Mail /\ MarkIsEarned(c) /\ c.kind = "mail"
          /\ c.ref = t /\ c.of = Mailbox(t)
      BY <2>2, MailCardIs
    <2> HIDE DEF c
    <2>4. Reaches(c)
      <3>1. CASE t \in OptedIn(record)
        <4>1. t \in Shared /\ Mailbox(t) = t
          BY <3>1, OpenedIsReached DEF ButtonsInv, IInv, Good, HasItsTypes
        <4>2. QED
          BY <2>3, <4>1, RecordAssumption DEF Reaches
      <3>2. CASE t \notin OptedIn(record)
        <4>1. t \in Connected(record) /\ Mailbox(t) = Holds(t)
          BY <2>1, <3>2 DEF Mailbox, Holds
        <4>2. QED
          BY <1>4, <2>3, <4>1
      <3>3. QED
        BY <3>1, <3>2
    <2>5. QED
      BY <1>3, <2>1, <2>3, <2>4 DEF Card, c
  <1>6. ASSUME NEW s \in SlotId, Found(s)
        PROVE  ButtonsInv'
    <2> DEFINE c == MailCard(Ref(s), Holds(s))
    <2>1. s \in Connected(record) /\ card' = c
      BY <1>6 DEF Found
    <2>2. Holds(s) \in Mailboxes /\ (Ref(s) = s \/ (Ref(s) = None /\ s = Default))
      BY <2>1, ReachedIsTyped DEF Ref
    <2>3. c \in Mail /\ MarkIsEarned(c) /\ c.ref = Ref(s) /\ c.of = Holds(s)
      BY <2>2, MailCardIs
    <2> HIDE DEF c
    <2>4. Reaches(c)
      BY <1>4, <2>1, <2>2, <2>3
    <2>5. QED
      BY <1>3, <2>1, <2>3, <2>4 DEF Card
  <1>7. ASSUME NEW s \in SlotId, Listed(s)
        PROVE  ButtonsInv'
    <2> DEFINE c == [kind |-> "account", ref |-> s, of |-> Holds(s), fresh |-> TRUE]
    <2>1. s \in Connected(record) /\ card' = c
      BY <1>7 DEF Listed
    <2>2. Holds(s) \in Mailboxes
      BY <2>1, ReachedIsTyped
    <2>3. c \in Line /\ c.ref = s /\ c.of = Holds(s) /\ c.kind = "account"
      BY <2>2 DEF Line
    <2> HIDE DEF c
    <2>4. Reaches(c) /\ MarkIsEarned(c)
      BY <1>4, <2>1, <2>3 DEF MarkIsEarned
    <2>5. QED
      BY <1>3, <2>1, <2>3, <2>4 DEF Card
  <1>8. ASSUME NEW s \in SlotId, NEW m \in Shared, Offered(s, m)
        PROVE  ButtonsInv'
    <2> DEFINE c == [kind |-> "share", ref |-> Ref(s), of |-> Holds(s), m |-> m,
                     fresh |-> TRUE]
    <2>1. s \in Connected(record) /\ card' = c
      BY <1>8 DEF Offered
    <2>2. Holds(s) \in Mailboxes /\ (Ref(s) = s \/ (Ref(s) = None /\ s = Default))
      BY <2>1, ReachedIsTyped DEF Ref
    <2>3. c \in Offer /\ c.ref = Ref(s) /\ c.of = Holds(s) /\ c.kind = "share"
      BY <2>2 DEF Offer
    <2> HIDE DEF c
    <2>4. Reaches(c) /\ MarkIsEarned(c)
      BY <1>4, <2>1, <2>2, <2>3 DEF MarkIsEarned
    <2>5. QED
      BY <1>3, <2>1, <2>3, <2>4 DEF Card
  <1>9. QED
    BY <1>5, <1>6, <1>7, <1>8 DEF Send

(* A press changes the message's looks, not what it names.                  *)
LEMMA Looks ==
    ASSUME ButtonsInv, card \in Mail, UNCHANGED <<recordVars, chosen>>, IInv',
           card' \in Mail, card'.ref = card.ref, card'.of = card.of,
           card'.fresh = card.fresh, MarkIsEarned(card')
    PROVE  ButtonsInv'
  <1>1. ChoiceIsStored' /\ Reaches(card)
    BY DEF ButtonsInv, ChoiceIsStored, recordVars, Mail
  <1>2. Reaches(card')
    BY <1>1 DEF Reaches, Mail
  <1>3. Reaches(card)' /\ MarkIsEarned(card)'
    BY <1>2 DEF Reaches, MarkIsEarned, LeadsTo, Holds, recordVars
  <1>4. QED
    BY <1>1, <1>3 DEF ButtonsInv, Card

LEMMA PressedMail ==
    ASSUME ButtonsInv, NEW key, Press(key)
    PROVE  /\ card \in Mail /\ key \in card.keys /\ MarkIsEarned(card)
           /\ UNCHANGED <<recordVars, chosen>>
  BY DEF Press, ButtonsInv, Card, Line, Offer

LEMMA ShowsKeeps ==
    ASSUME ButtonsInv, card \in Mail, NEW read \in BOOLEAN, NEW keys \in SUBSET Letters,
           Shows(read, keys), UNCHANGED <<recordVars, chosen>>, IInv', MarkIsEarned(card),
           (read \/ keys \cap {"E", "C"} # {}) => card.marked \/ card.misled
    PROVE  ButtonsInv'
  <1>1. card' = [card EXCEPT !.read = read, !.keys = @ \cup keys]
    BY DEF Shows
  <1>2. /\ card' \in Mail /\ card'.ref = card.ref /\ card'.of = card.of
        /\ card'.fresh = card.fresh /\ card'.marked = card.marked
        /\ card'.misled = card.misled /\ card'.read = read
        /\ card'.keys = card.keys \cup keys /\ card.kind = "mail"
    BY <1>1 DEF Mail
  <1>3. MarkIsEarned(card')
    BY <1>2 DEF MarkIsEarned
  <1>4. QED
    BY <1>2, <1>3, Looks

LEMMA ToggleKeeps ==
    ASSUME ButtonsInv, NEW key \in {"e", "E", "c", "C"}, Toggle(key), IInv'
    PROVE  ButtonsInv'
  <1>1. PICK read \in BOOLEAN, expanded \in BOOLEAN :
            /\ Face(key) = [read |-> read, expanded |-> expanded]
            /\ read <=> key \in {"E", "C"}
    <2>1. Face(key) = [read |-> key \in {"E", "C"}, expanded |-> key \in {"e", "E"}]
      BY DEF Face
    <2>2. (key \in {"E", "C"}) \in BOOLEAN /\ (key \in {"e", "E"}) \in BOOLEAN
      OBVIOUS
    <2>3. QED
      BY <2>1, <2>2 DEF Face
  <1>2. /\ card \in Mail /\ key \in card.keys /\ MarkIsEarned(card)
        /\ UNCHANGED <<recordVars, chosen>>
    BY PressedMail DEF Toggle
  <1>3. Shows(read, Keys(read, expanded))
    BY <1>1 DEF Toggle
  <1>4. Keys(read, expanded) \subseteq Letters
    BY <1>1, KeysAreLetters
  <1>5. ~read => Keys(read, expanded) \cap {"E", "C"} = {}
    BY DEF Keys
  <1>6. read => card.marked \/ card.misled
    BY <1>1, <1>2 DEF MarkIsEarned, Mail
  <1> HIDE DEF Keys
  <1>7. QED
    BY <1>1, <1>2, <1>3, <1>4, <1>5, <1>6, ShowsKeeps

LEMMA MarkReadKeeps ==
    ASSUME ButtonsInv, MarkRead, IInv'
    PROVE  ButtonsInv'
  <1> DEFINE mailbox == Mailbox(card.ref)
  <1>1. /\ card \in Mail /\ UNCHANGED <<recordVars, chosen>>
        /\ mailbox # None
        /\ card' = [card EXCEPT !.read = TRUE, !.keys = @ \cup Keys(TRUE, TRUE),
                                !.marked = @ \/ mailbox = card.of,
                                !.misled = @ \/ ~NameIsGood(card)]
    BY PressedMail DEF MarkRead
  <1>2. Keys(TRUE, TRUE) \subseteq Letters
    BY KeysAreLetters
  <1>3. NameIsGood(card) => mailbox = card.of
    <2>1. card.kind = "mail" /\ card # NoCard
      BY <1>1 DEF Mail
    <2>2. QED
      BY <1>1, <2>1, Routed DEF Named
  <1>4. (mailbox = card.of) \in BOOLEAN /\ (~NameIsGood(card)) \in BOOLEAN
    OBVIOUS
  <1> HIDE DEF mailbox, Keys
  <1>5. /\ card' \in Mail /\ card'.ref = card.ref /\ card'.of = card.of
        /\ card'.fresh = card.fresh
        /\ card'.marked = (card.marked \/ mailbox = card.of)
        /\ card'.misled = (card.misled \/ ~NameIsGood(card))
    BY <1>1, <1>2 DEF Mail
  <1>6. MarkIsEarned(card')
    BY <1>3, <1>5 DEF MarkIsEarned
  <1>7. QED
    BY <1>1, <1>5, <1>6, Looks

LEMMA TriageKeeps ==
    ASSUME ButtonsInv, IInv', TakeBack \/ \E key \in {"a", "j", "d"} : Triage(key)
    PROVE  ButtonsInv'
  <1>1. /\ card \in Mail /\ MarkIsEarned(card) /\ UNCHANGED <<recordVars, chosen>>
    BY PressedMail DEF TakeBack, Triage
  <1>2. PICK keys \in {{"u"}, Keys(FALSE, FALSE)} : Shows(FALSE, keys)
    BY DEF TakeBack, Triage
  <1>3. keys \subseteq Letters
    BY <1>2, KeysAreLetters
  <1>4. keys \cap {"E", "C"} = {}
    BY <1>2 DEF Keys
  <1>5. QED
    BY <1>1, <1>2, <1>3, <1>4, ShowsKeeps

(* A command leaves a slot to its account, gives out new ones only, and     *)
(* keeps the language while there is a record, unless it is /lang.          *)
LEMMA ChatLeaves ==
    ASSUME IInv, ChatCommand
    PROVE  /\ IInv' /\ used \subseteq used'
           /\ \A s \in Connected(record') : SlotStays(s)
  <1>1. CASE AccountCommand
    <2>1. used \subseteq used'
      BY <1>1 DEF AccountCommand, Login, LoginTo, AddTo, Disconnect, Logout, OptIn,
                  OptOut, Becomes
    <2>2. QED
      BY <1>1, <2>1, CommandLeaves, AccountCommandKeeps
  <1>2. ASSUME NEW language \in Supported, SetLanguage(language)
        PROVE  /\ IInv' /\ used \subseteq used'
               /\ \A s \in Connected(record') : SlotStays(s)
    <2> DEFINE r == [record EXCEPT !.language = language]
    <2>1. Exists(record) /\ record' = r /\ used \subseteq used' /\ Good(record)
      BY <1>2 DEF SetLanguage, Becomes, IInv
    <2>2. Connected(r) = Connected(record) /\ r.accounts = record.accounts
      BY <2>1, ChoosingIsGood
    <2> HIDE DEF r
    <2>3. \A s \in Connected(record') : SlotStays(s)
      BY <2>1, <2>2 DEF SlotStays
    <2>4. IInv'
      BY <1>2, NextKeeps DEF RecordNext
    <2>5. QED
      BY <2>1, <2>3, <2>4
  <1>3. QED
    BY <1>1, <1>2 DEF ChatCommand

LEMMA ChatKeepsChoice ==
    ASSUME ButtonsInv, ChatCommand
    PROVE  ChoiceIsStored'
  <1>1. CASE AccountCommand /\ chosen' = IF Exists(record') THEN chosen ELSE None
    <2>1. record.language \in Supported /\ Exists(record') =>
            record'.language = record.language
      BY <1>1, CommandLeaves DEF ButtonsInv
    <2>2. chosen' # None =>
            chosen' \in Supported /\ record'.language = chosen' /\ Exists(record')
      BY <1>1, <2>1 DEF ButtonsInv, ChoiceIsStored
    <2>3. QED
      BY <2>2 DEF ChoiceIsStored
  <1>2. ASSUME NEW language \in Supported, SetLanguage(language), chosen' = language
        PROVE  ChoiceIsStored'
    <2> DEFINE r == [record EXCEPT !.language = language]
    <2>1. Exists(record) /\ record' = r /\ Good(record)
      BY <1>2 DEF SetLanguage, Becomes, ButtonsInv, IInv
    <2>2. Connected(r) = Connected(record) /\ r.language = language
      BY <2>1, ChoosingIsGood
    <2> HIDE DEF r
    <2>3. Exists(record')
      BY <2>1, <2>2 DEF Exists
    <2>4. QED
      BY <1>2, <2>1, <2>2, <2>3 DEF ChoiceIsStored
  <1>3. QED
    BY <1>1, <1>2 DEF ChatCommand

LEMMA ChatKeeps ==
    ASSUME ButtonsInv, ChatCommand
    PROVE  ButtonsInv'
  <1>1. /\ IInv' /\ used \subseteq used' /\ ChoiceIsStored'
        /\ \A s \in Connected(record') : SlotStays(s)
    BY ChatLeaves, ChatKeepsChoice DEF ButtonsInv
  <1>2. CASE card = NoCard
    BY <1>1, <1>2 DEF ChatCommand, ButtonsInv
  <1>3. CASE card # NoCard
    <2>1. card \in Card /\ Reaches(card) /\ MarkIsEarned(card)
      BY <1>3 DEF ButtonsInv
    <2>2. PICK fresh \in BOOLEAN :
            /\ card' = [card EXCEPT !.fresh = fresh]
            /\ fresh <=> card.fresh /\ Exists(record')
      <3>1. (card.fresh /\ Exists(record')) \in BOOLEAN
        OBVIOUS
      <3>2. QED
        BY <1>3, <3>1 DEF ChatCommand
    <2>3. /\ card' \in Card /\ card'.kind = card.kind /\ card'.ref = card.ref
          /\ card'.of = card.of /\ card'.fresh = fresh
          /\ card.kind = "mail" => /\ card'.read = card.read /\ card'.keys = card.keys
                                   /\ card'.marked = card.marked
                                   /\ card'.misled = card.misled
      BY <2>1, <2>2 DEF Card, Mail, Line, Offer
    <2>4. MarkIsEarned(card')
      BY <2>1, <2>3 DEF MarkIsEarned
    <2>5. ASSUME NEW s, s \in Connected(record'), Spelled[record'.accounts[s].of]
                 # Holds(s)
          PROVE  \/ s \notin used /\ s # Default
                 \/ s = Default /\ ~Exists(record)
      BY <1>1, <2>5 DEF SlotStays, Holds
    <2>6. /\ card'.ref \in Shared => card'.kind = "mail" /\ card'.of = card'.ref
          /\ card'.ref \in SlotId \ {Default} =>
               /\ card'.ref \in used'
               /\ card'.ref \in Connected(record') =>
                    Spelled[record'.accounts[card'.ref].of] = card'.of
      <3>1. CASE card'.ref \in SlotId \ {Default}
        <4>1. card.ref \in used /\ LeadsTo(card.ref, card.of)
          BY <2>1, <2>3, <3>1 DEF Reaches
        <4>2. card.ref \in Connected(record') => card.ref \in Connected(record)
          BY <1>1, <2>3, <3>1, <4>1 DEF SlotStays
        <4>3. QED
          BY <1>1, <2>3, <2>5, <3>1, <4>1, <4>2, RecordAssumption DEF LeadsTo
      <3>2. QED
        BY <2>1, <2>3, <3>1 DEF Reaches
    <2>7. ASSUME card'.ref \in {Default, None}, card'.fresh
          PROVE  /\ Exists(record')
                 /\ Default \in Connected(record') =>
                      Spelled[record'.accounts[Default].of] = card'.of
      <3>1. Exists(record) /\ LeadsTo(Default, card.of) /\ Exists(record')
        BY <2>1, <2>2, <2>3, <2>7 DEF Reaches
      <3>2. Default \in Connected(record') => Default \in Connected(record)
        BY <1>1, <3>1 DEF SlotStays
      <3>3. QED
        BY <2>3, <2>5, <3>1, <3>2 DEF LeadsTo
    <2>8. Reaches(card)'
      BY <2>6, <2>7 DEF Reaches, LeadsTo, Holds
    <2>9. MarkIsEarned(card)'
      BY <2>4
    <2>10. QED
      BY <1>1, <2>3, <2>8, <2>9 DEF ButtonsInv
  <1>4. QED
    BY <1>2, <1>3

LEMMA ButtonsStay ==
    ASSUME ButtonsInv, UNCHANGED buttonsVars
    PROVE  ButtonsInv'
  <1>1. UNCHANGED <<record, used, chosen, card, recordVars>>
    BY DEF buttonsVars, buttonVars, recordVars
  <1>2. IInv'
    BY <1>1, NothingKeeps DEF ButtonsInv
  <1>3. QED
    BY <1>1, <1>2 DEF ButtonsInv, ChoiceIsStored, Reaches, MarkIsEarned, LeadsTo, Holds

THEOREM ButtonsInvariantHolds == ButtonsSpec => []ButtonsInv
  <1>1. ButtonsInit => ButtonsInv
    BY InitIsGood DEF ButtonsInit, ButtonsInv, ChoiceIsStored
  <1>2. ASSUME ButtonsInv, [ButtonsNext]_buttonsVars
        PROVE  ButtonsInv'
    <2>1. CASE ChatCommand
      BY <1>2, <2>1, ChatKeeps
    <2>2. CASE Send
      <3>1. IInv'
        BY <1>2, <2>2, NothingKeeps DEF Send, ButtonsInv
      <3>2. QED
        BY <1>2, <2>2, <3>1, SendKeeps
    <2>3. CASE MarkRead
      <3>1. IInv'
        BY <1>2, <2>3, NothingKeeps DEF MarkRead, Press, ButtonsInv
      <3>2. QED
        BY <1>2, <2>3, <3>1, MarkReadKeeps
    <2>4. ASSUME NEW key \in {"e", "E", "c", "C"}, Toggle(key)
          PROVE  ButtonsInv'
      <3>1. IInv'
        BY <1>2, <2>4, NothingKeeps DEF Toggle, Press, ButtonsInv
      <3>2. QED
        BY <1>2, <2>4, <3>1, ToggleKeeps
    <2>5. CASE TakeBack \/ \E key \in {"a", "j", "d"} : Triage(key)
      <3>1. IInv'
        BY <1>2, <2>5, NothingKeeps DEF TakeBack, Triage, Press, ButtonsInv
      <3>2. QED
        BY <1>2, <2>5, <3>1, TriageKeeps
    <2>6. CASE UNCHANGED buttonsVars
      BY <1>2, <2>6, ButtonsStay
    <2>7. QED
      BY <1>2, <2>1, <2>2, <2>3, <2>4, <2>5, <2>6 DEF ButtonsNext
  <1>3. QED
    BY <1>1, <1>2, PTL DEF ButtonsSpec

-----------------------------------------------------------------------------
(* What a reader should know.                                              *)

(* A message of the chat names a slot, a shared mailbox or nothing, and was *)
(* sent for a mailbox there is; a chosen language is one the bot speaks.    *)
THEOREM ButtonsTypeCorrect == ButtonsSpec => []ButtonsTypeOK
  <1>1. ButtonsInv => ButtonsTypeOK
    BY DEF ButtonsInv, ButtonsTypeOK, ChoiceIsStored, Card, Mail, Line, Offer
  <1>2. QED
    BY <1>1, ButtonsInvariantHolds, PTL

(* However many accounts there are and whatever is connected and            *)
(* disconnected meanwhile, a press acts on the mailbox its message was sent *)
(* for, or on none (bot.rs:1424-1429, format.rs:253-263).                   *)
THEOREM EveryPressIsRouted == ButtonsSpec => []RoutedToItsMailbox
  <1>1. ButtonsInv => RoutedToItsMailbox
    BY Routed DEF RoutedToItsMailbox
  <1>2. QED
    BY <1>1, ButtonsInvariantHolds, PTL

(* A keyboard that shows a mail as read marked that mail as read            *)
(* (format.rs:275-288, bot.rs:1541-1552).                                   *)
THEOREM MarksAreTrue == ButtonsSpec => []ReadMarkIsTrue
  <1>1. ButtonsInv => ReadMarkIsTrue
    BY DEF ButtonsInv, MarkIsEarned, ReadMarkIsTrue
  <1>2. QED
    BY <1>1, ButtonsInvariantHolds, PTL

(* A chosen language stays while there is a record, whatever later logins   *)
(* detect (bot.rs:209-211).                                                 *)
THEOREM ChoiceStays == ButtonsSpec => []ChosenLanguageStays
  <1>1. ButtonsInv => ChosenLanguageStays
    BY RecordAssumption DEF ButtonsInv, ChoiceIsStored, ChosenLanguageStays, Resolve
  <1>2. QED
    BY <1>1, ButtonsInvariantHolds, PTL

=============================================================================
