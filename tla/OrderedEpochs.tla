---------------------------- MODULE OrderedEpochs ----------------------------
(***************************************************************************)
(* What Publishers promises about odometry epochs, whatever the order they *)
(* arrive in: epochs are taken in one at a time, none is lost, and they    *)
(* are retired in time order; one that is not later than the latest        *)
(* retired epoch is never taken in.  A session may be abandoned with       *)
(* everything that waits.                                                  *)
(***************************************************************************)
EXTENDS Integers, FiniteSets

CONSTANT Never  \* no epoch has been retired yet

VARIABLES
  waiting,  \* the times of the epochs taken in and not yet retired
  retired   \* the latest retired epoch

Passed(time, last) == last # Never /\ time <= last

Init == waiting = {} /\ retired = Never

(* Some of the earliest epochs go, and at most one comes. *)
Advance ==
  /\ retired' = retired \/ (retired' # Never /\ ~Passed(retired', retired))
  /\ Cardinality(waiting' \ waiting) <= 1
  /\ \A time \in waiting \ waiting' : Passed(time, retired')
  /\ \A time \in waiting' : ~Passed(time, retired')

Abandon == waiting' = {} /\ retired' = Never

Spec == Init /\ [][Advance \/ Abandon]_<<waiting, retired>>
=============================================================================
