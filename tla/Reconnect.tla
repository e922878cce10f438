----------------------------- MODULE Reconnect -----------------------------
(***************************************************************************)
(* How a watcher lives with a connection that fails: the loop of           *)
(* watcher::spawn in src/watcher.rs around run_once, with its backoff and  *)
(* the two notices that tell the user of a lasting failure and of its end. *)
(***************************************************************************)
EXTENDS Integers

CONSTANTS
    InitialBackoff, MaxBackoff, \* in seconds: 2 and 300
    Threshold,                  \* FAILURE_NOTIFY_THRESHOLD
    MayLose,                    \* whether Telegram may fail to take a notice
    MaxFailures                 \* bound: the counters stop counting there

ASSUME ScheduleAssumption ==
    /\ InitialBackoff \in Nat \ {0} /\ MaxBackoff \in Nat
    /\ InitialBackoff <= MaxBackoff
    /\ Threshold \in Nat \ {0} /\ MaxFailures \in Nat
    /\ Threshold <= MaxFailures /\ MayLose \in BOOLEAN

VARIABLES
    pc,        \* opening, open, failed, asleep or gone
    wanted,    \* whether the record still has the target
    connected, \* whether run_once had opened a stream
    failures,  \* consecutive_connect_failures
    backoff,   \* what the loop sleeps next
    notified,  \* notified_broken
    heard,     \* history: the last notice sent, none at the start
    misses     \* history: attempts that failed since a stream was open

vars == <<pc, wanted, connected, failures, backoff, notified, heard, misses>>

(* Mutant: the delay grows without limit.                                  *)
next_backoffUncapped == 2 * backoff

next_backoff == IF 2 * backoff < MaxBackoff THEN 2 * backoff ELSE MaxBackoff

OneMore(n) == IF n < MaxFailures THEN n + 1 ELSE n

(* run_once. The record is looked at only once the stream is open.         *)
Open ==
    /\ pc = "opening"
    /\ pc' = IF wanted THEN "open" ELSE "gone"
    /\ connected' = TRUE /\ misses' = 0
    /\ UNCHANGED <<wanted, failures, backoff, notified, heard>>

OpenFails ==
    /\ pc = "opening"
    /\ pc' = "failed"
    /\ misses' = OneMore(misses)
    /\ UNCHANGED <<wanted, connected, failures, backoff, notified, heard>>

Drops ==
    /\ pc = "open"
    /\ pc' = "failed"
    /\ UNCHANGED <<wanted, connected, failures, backoff, notified, heard, misses>>

Wakes ==
    /\ pc = "open" /\ ~wanted
    /\ pc' = "gone"
    /\ UNCHANGED <<wanted, connected, failures, backoff, notified, heard, misses>>

(* A notice is not sent to a chat that has no record any more; one that    *)
(* gave up only this target still gets it.                                 *)
Notice(kind) ==
    \/ heard' = kind
    \/ (MayLose \/ ~wanted) /\ UNCHANGED heard

(* Mutant: the failures before the stream that opened still count.         *)
AfterStreamKeepsCount ==
    /\ connected
    /\ backoff' = InitialBackoff
    /\ IF notified THEN Notice("recovered") /\ notified' = FALSE
                   ELSE UNCHANGED <<heard, notified>>
    /\ UNCHANGED failures

(* Mutant: the end of a failure is announced, but not noted.               *)
AfterStreamKeepsFlag ==
    /\ connected
    /\ failures' = 0 /\ backoff' = InitialBackoff
    /\ IF notified THEN Notice("recovered") ELSE UNCHANGED heard
    /\ UNCHANGED notified

(* A stream that was open dropped: that is an end of the failure before.   *)
AfterStream ==
    /\ connected
    /\ failures' = 0 /\ backoff' = InitialBackoff
    /\ IF notified THEN Notice("recovered") /\ notified' = FALSE
                   ELSE UNCHANGED <<heard, notified>>

(* Mutant: the alarm is not remembered.                                    *)
AfterFailureForgets ==
    /\ ~connected
    /\ failures' = OneMore(failures) /\ UNCHANGED backoff
    /\ IF failures' >= Threshold /\ ~notified
       THEN Notice("broken") /\ UNCHANGED notified
       ELSE UNCHANGED <<heard, notified>>

(* No stream was open: the fifth time in a row, the user is told, once.    *)
AfterFailure ==
    /\ ~connected
    /\ failures' = OneMore(failures) /\ UNCHANGED backoff
    /\ IF failures' >= Threshold /\ ~notified
       THEN Notice("broken") /\ notified' = TRUE
       ELSE UNCHANGED <<heard, notified>>

HandleError ==
    /\ pc = "failed"
    /\ AfterStream \/ AfterFailure
    /\ pc' = "asleep"
    /\ UNCHANGED <<wanted, connected, misses>>

Retry ==
    /\ pc = "asleep"
    /\ pc' = "opening"
    /\ backoff' = next_backoff
    /\ connected' = FALSE
    /\ UNCHANGED <<wanted, failures, notified, heard, misses>>

(* The record is removed by a command whose abort missed the task.          *)
OptOut ==
    /\ wanted /\ pc # "gone"
    /\ wanted' = FALSE
    /\ UNCHANGED <<pc, connected, failures, backoff, notified, heard, misses>>

Init ==
    /\ pc = "opening" /\ wanted = TRUE /\ connected = FALSE
    /\ failures = 0 /\ backoff = InitialBackoff
    /\ notified = FALSE /\ heard = "none" /\ misses = 0

Next ==
    Open \/ OpenFails \/ Drops \/ Wakes \/ HandleError \/ Retry \/ OptOut

Spec == Init /\ [][Next]_vars

(* The loop goes on: an attempt ends one way or the other, and each sleep   *)
(* ends. Nothing is assumed of how long a stream stays open.                *)
Fairness == WF_vars(Open \/ OpenFails) /\ WF_vars(HandleError) /\ WF_vars(Retry)

FairSpec == Spec /\ Fairness

-----------------------------------------------------------------------------
(* Properties.                                                             *)

(* The type of every variable; above all the delay, which doubles for as    *)
(* long as the server is away, stays within the schedule.                   *)
BackoffTypeOK ==
    /\ pc \in {"opening", "open", "failed", "asleep", "gone"}
    /\ wanted \in BOOLEAN /\ connected \in BOOLEAN /\ notified \in BOOLEAN
    /\ failures \in 0..MaxFailures /\ misses \in 0..MaxFailures
    /\ backoff \in InitialBackoff..MaxBackoff
    /\ heard \in {"none", "broken", "recovered"}

(* An alarm is never a false one: it goes out at least Threshold attempts   *)
(* in a row after the last open stream, whatever happened before that.      *)
AlarmIsEarned == [][heard # "broken" /\ heard' = "broken" => misses >= Threshold]_vars

(* The two notices alternate: the loop's flag says what the user heard      *)
(* last, so no alarm is repeated, and no end announced without one. (With a *)
(* Telegram that takes every notice, for a chat that is still connected.)   *)
NoticesAlternate == wanted /\ ~MayLose => (notified <=> heard = "broken")

(* A server that stays away for good is announced, and the alarm stands:    *)
(* also when an earlier outage was announced and its end too. (Unless the   *)
(* chat disconnects.)                                                       *)
OutageIsAnnounced ==
    <>[](pc # "open") => <>[](heard = "broken" \/ ~wanted)

(* README.md:89-93 promises another notice once the connection is back. It  *)
(* is sent when the recovered stream drops again; while it works, the user  *)
(* goes on believing that the account is broken.                            *)
RecoveryIsAnnounced ==
    heard = "broken" /\ pc = "open" ~> heard # "broken" \/ ~wanted

=============================================================================
