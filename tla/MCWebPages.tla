----------------------------- MODULE MCWebPages -----------------------------
(* The three models of the web client in one run: a behaviour is that of   *)
(* one of them, the others stay as they began.                             *)
EXTENDS CreateRecovery, StaleNotice, ChecklistPage, TLC

CONSTANTS c1, c2, c3

VARIABLE page

MCPage == {"create", "notice", "checklist"}

MCSymmetry == Permutations(Calls)

(* One beginning for the pages a behaviour is not about.                   *)
MCInit ==
    /\ RecoveryInit /\ NoticeInit /\ PageInit /\ page \in MCPage
    /\ described = "ours" /\ showing = "ours" /\ event[1] = "a"

MCNext ==
    /\ UNCHANGED page
    /\ \/ /\ page = "create" /\ RecoveryNext
          /\ UNCHANGED <<noticeVars, pageVars>>
       \/ /\ page = "notice" /\ NoticeNext
          /\ UNCHANGED <<recoveryVars, pageVars>>
       \/ /\ page = "checklist" /\ PageNext
          /\ UNCHANGED <<recoveryVars, noticeVars>>

MCSpec == MCInit /\ [][MCNext]_<<page, recoveryVars, noticeVars, pageVars>>
=============================================================================
