-------------------------- MODULE MCAlertDelivery --------------------------
(* Small instances of AlertDelivery for TLC.                               *)
EXTENDS AlertDelivery, TLC

CONSTANTS a1, a2, w1, w2

(* A day is two instants and so is the provider's memory; the hold lasts   *)
(* twice that, as in the code, and in the race of two workers as long as   *)
(* the memory, so that both end within the clock's range.  One instant is  *)
(* the provider's timeout.  A backoff of minutes is no time at all on this *)
(* clock; MCBackoff keeps one instant of it so that a retry that is not    *)
(* due yet is met as well.                                                 *)
MCBackoff == <<0, 1>>
MCNoBackoff == <<0>>

(* A deadline at the end of day 1, inside the clock's range, and an alert  *)
(* without a filing date, which only the hold limit releases.              *)
MCSchedules == {[slot |-> 1, closes |-> 4], [slot |-> 0, closes |-> NoWindow]}

(* Deadlines at the end of day 1 and of day 3.                             *)
MCSoonSchedule == {[slot |-> 0, closes |-> 4]}
MCLateSchedule == {[slot |-> 0, closes |-> 8]}

WorkerSymmetry == Permutations(Workers)
=============================================================================
