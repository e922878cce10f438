-------------------------- MODULE ReconnectProofs --------------------------
(***************************************************************************)
(* Proofs about Reconnect, for every schedule, threshold and bound.        *)
(***************************************************************************)
EXTENDS Reconnect, TLAPS

USE ScheduleAssumption

(* The delay keeps within the schedule.                                     *)
LEMMA BackoffInSchedule ==
    ASSUME backoff \in InitialBackoff..MaxBackoff
    PROVE  next_backoff \in InitialBackoff..MaxBackoff
  BY DEF next_backoff

LEMMA Saturates ==
    ASSUME NEW n \in 0..MaxFailures
    PROVE  OneMore(n) \in 0..MaxFailures
  BY DEF OneMore

-----------------------------------------------------------------------------
(* Type correctness.                                                       *)

LEMMA InitType == Init => BackoffTypeOK
  <1> SUFFICES ASSUME Init PROVE BackoffTypeOK
    OBVIOUS
  <1>1. failures \in 0..MaxFailures /\ misses \in 0..MaxFailures
    BY DEF Init
  <1>2. backoff \in InitialBackoff..MaxBackoff
    BY DEF Init
  <1>3. QED
    BY <1>1, <1>2 DEF Init, BackoffTypeOK

LEMMA StepType == BackoffTypeOK /\ [Next]_vars => BackoffTypeOK'
  <1> SUFFICES ASSUME BackoffTypeOK, [Next]_vars PROVE BackoffTypeOK'
    OBVIOUS
  <1> USE DEF BackoffTypeOK
  <1>1. CASE Open
    BY <1>1 DEF Open
  <1>2. CASE OpenFails
    BY <1>2, Saturates DEF OpenFails
  <1>3. CASE Drops
    BY <1>3 DEF Drops
  <1>4. CASE Wakes
    BY <1>4 DEF Wakes
  <1>5. CASE HandleError
    <2>1. heard' \in {"none", "broken", "recovered"} /\ notified' \in BOOLEAN
      BY <1>5 DEF HandleError, AfterStream, AfterFailure, Notice
    <2>2. failures' \in 0..MaxFailures /\ backoff' \in InitialBackoff..MaxBackoff
      BY <1>5, Saturates DEF HandleError, AfterStream, AfterFailure
    <2>3. QED
      BY <1>5, <2>1, <2>2 DEF HandleError
  <1>6. CASE Retry
    BY <1>6, BackoffInSchedule DEF Retry
  <1>7. CASE OptOut
    BY <1>7 DEF OptOut
  <1>8. CASE UNCHANGED vars
    BY <1>8 DEF vars
  <1>9. QED
    BY <1>1, <1>2, <1>3, <1>4, <1>5, <1>6, <1>7, <1>8 DEF Next

(* The backoff stays between its first delay and its cap, and every other   *)
(* variable in its type.                                                    *)
THEOREM ScheduleIsKept == Spec => []BackoffTypeOK
  BY InitType, StepType, PTL DEF Spec

-----------------------------------------------------------------------------
(* Notices.                                                                *)

LEMMA NoticesStep ==
    ASSUME BackoffTypeOK, NoticesAlternate, [Next]_vars
    PROVE  NoticesAlternate'
  <1> USE DEF NoticesAlternate, BackoffTypeOK
  <1>1. CASE HandleError
    <2>1. wanted' = wanted
      BY <1>1 DEF HandleError
    <2>2. CASE wanted /\ ~MayLose
      BY <1>1, <2>2 DEF HandleError, AfterStream, AfterFailure, Notice
    <2>3. QED
      BY <2>1, <2>2
  <1>2. CASE OptOut
    BY <1>2 DEF OptOut
  <1>3. CASE Open \/ OpenFails \/ Drops \/ Wakes \/ Retry \/ UNCHANGED vars
    BY <1>3 DEF Open, OpenFails, Drops, Wakes, Retry, vars
  <1>4. QED
    BY <1>1, <1>2, <1>3 DEF Next

(* While a chat is connected and Telegram takes its notices, what the loop  *)
(* remembers is what the user heard last, whatever the schedule.            *)
THEOREM NoticesInTurn == Spec => []NoticesAlternate
  <1>1. Init => NoticesAlternate
    BY DEF Init, NoticesAlternate
  <1>2. QED
    BY <1>1, InitType, StepType, NoticesStep, PTL DEF Spec

-----------------------------------------------------------------------------
(* Alarms.                                                                 *)

(* The code's counter is never ahead of the attempts that really failed     *)
(* since a stream was open, except between the opening of a stream and the  *)
(* handling of its end, which resets the counter.                           *)
CountIsEarned ==
    /\ pc = "opening" => ~connected /\ failures <= misses
    /\ pc = "open" => connected
    /\ pc = "failed" /\ ~connected => OneMore(failures) <= misses
    /\ pc = "asleep" => failures <= misses

LEMMA CountStep ==
    ASSUME BackoffTypeOK, CountIsEarned, [Next]_vars
    PROVE  CountIsEarned'
  <1> USE DEF CountIsEarned, BackoffTypeOK
  <1>1. CASE OpenFails
    BY <1>1 DEF OpenFails, OneMore
  <1>2. CASE HandleError
    BY <1>2 DEF HandleError, AfterStream, AfterFailure
  <1>3. CASE Open \/ Wakes
    BY <1>3 DEF Open, Wakes
  <1>4. CASE Retry
    BY <1>4 DEF Retry
  <1>5. CASE OptOut \/ UNCHANGED vars
    BY <1>5 DEF OptOut, vars, OneMore
  <1>6. CASE Drops
    BY <1>6 DEF Drops, OneMore
  <1>7. QED
    BY <1>1, <1>2, <1>3, <1>4, <1>5, <1>6 DEF Next

(* No alarm is a false one: the attempts that failed since the last open    *)
(* stream are at least Threshold, whatever dropped or failed before.        *)
THEOREM AlarmsAreEarned == Spec => AlarmIsEarned
  <1> DEFINE Step == heard # "broken" /\ heard' = "broken" => misses >= Threshold
  <1>1. Init => CountIsEarned
    BY DEF Init, CountIsEarned
  <1>2. BackoffTypeOK /\ CountIsEarned /\ [Next]_vars => [Step]_vars
    <2> SUFFICES ASSUME BackoffTypeOK, CountIsEarned, Next,
                        heard # "broken", heard' = "broken"
                 PROVE  misses >= Threshold
      BY DEF vars
    <2>1. HandleError
      BY DEF Next, Open, OpenFails, Drops, Wakes, Retry, OptOut
    <2>2. AfterFailure /\ failures' >= Threshold
      BY <2>1 DEF HandleError, AfterStream, AfterFailure, Notice
    <2>3. failures' <= misses
      BY <2>1, <2>2 DEF HandleError, AfterFailure, CountIsEarned
    <2>4. failures' \in Nat /\ misses \in Nat
      BY <2>2, Saturates DEF AfterFailure, BackoffTypeOK
    <2>5. QED
      BY <2>2, <2>3, <2>4
  <1>3. QED
    BY <1>1, <1>2, InitType, StepType, CountStep, PTL DEF Spec, AlarmIsEarned

(* The code's counter is not behind either, and the flag is up once it has   *)
(* reached the threshold, except where a stream was open since.             *)
CountIsDue ==
    /\ pc = "opening" => ~connected
    /\ pc = "open" => connected /\ misses = 0
    /\ pc = "failed" /\ connected => misses = 0
    /\ pc = "failed" /\ ~connected => misses = OneMore(failures)
    /\ pc \in {"opening", "asleep"} =>
         misses = failures /\ (failures >= Threshold => notified)

LEMMA DueStep ==
    ASSUME BackoffTypeOK, CountIsDue, [Next]_vars
    PROVE  CountIsDue'
  <1> USE DEF CountIsDue, BackoffTypeOK
  <1>1. CASE OpenFails
    BY <1>1 DEF OpenFails, OneMore
  <1>2. CASE HandleError
    <2>1. pc = "failed" /\ pc' = "asleep" /\ misses' = misses
      BY <1>2 DEF HandleError
    <2>2. CASE AfterStream
      BY <2>1, <2>2 DEF AfterStream
    <2>3. CASE AfterFailure
      BY <2>1, <2>3 DEF AfterFailure
    <2>4. QED
      BY <1>2, <2>2, <2>3 DEF HandleError
  <1>3. CASE Open \/ Wakes
    BY <1>3 DEF Open, Wakes
  <1>4. CASE Retry
    BY <1>4 DEF Retry
  <1>5. CASE OptOut \/ UNCHANGED vars
    BY <1>5 DEF OptOut, vars, OneMore
  <1>6. CASE Drops
    BY <1>6 DEF Drops, OneMore
  <1>7. QED
    BY <1>1, <1>2, <1>3, <1>4, <1>5, <1>6 DEF Next

(* No alarm is missing or late: while the loop waits or tries again after   *)
(* Threshold failed attempts in a row, the user has been told that the      *)
(* account is broken, in the first outage and in each one after a recovery, *)
(* whatever mix of failures and drops went before.                          *)
AlarmInTime ==
    pc \in {"asleep", "opening"} /\ misses >= Threshold /\ wanted /\ ~MayLose =>
        heard = "broken"

(* No alarm is missing: after Threshold failures in a row the user knows,    *)
(* in the first outage and in any later one.                                *)
THEOREM AlarmsAreGiven == Spec => []AlarmInTime
  <1>1. Init => CountIsDue
    BY DEF Init, CountIsDue
  <1>2. BackoffTypeOK /\ CountIsDue /\ NoticesAlternate => AlarmInTime
    BY DEF BackoffTypeOK, CountIsDue, NoticesAlternate, AlarmInTime
  <1>3. Init => NoticesAlternate
    BY DEF Init, NoticesAlternate
  <1>4. QED
    BY <1>1, <1>2, <1>3, InitType, StepType, NoticesStep, DueStep, PTL DEF Spec
=============================================================================
