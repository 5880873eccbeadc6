---------------------------- MODULE MCAlertPoller ----------------------------
(* A small instance of AlertPoller for TLC.                                *)
EXTENDS AlertPoller

CONSTANTS e1

(* Two scheduled alerts and a test, all of one event.                      *)
MCEventOf(a) == e1
=============================================================================
