---------------------------- MODULE AlertOutbox ----------------------------
(***************************************************************************)
(* What the delivery of alerts promises, with no worker, lock, attempt,    *)
(* window or clock in sight.  A review calls for alerts and withdraws the  *)
(* others; an alert that waits may be withdrawn or recorded as sent; a     *)
(* message is delivered once, and again only after its earlier attempts    *)
(* were given up.  What is recorded as sent was delivered, was waiting     *)
(* until then, and stays recorded.                                         *)
(***************************************************************************)
EXTENDS Naturals

CONSTANTS
    Alerts,
    LocalAlerts  \* alerts whose sender hands nothing to a provider

VARIABLES
    stage,   \* what the service knows of an alert
    copies,  \* messages its recipient got
    waived   \* has an unresolved attempt of it been given up?

Stages == {"absent", "waiting", "sent", "cancelled"}

Init ==
    /\ stage = [a \in Alerts |-> "absent"]
    /\ copies = [a \in Alerts |-> 0]
    /\ waived = [a \in Alerts |-> FALSE]

(* Attempts of an alert that comes back from a withdrawal are given up.    *)
Review(wanted) ==
    /\ stage' = [a \in Alerts |->
                   IF a \in wanted /\ stage[a] # "sent" THEN "waiting"
                   ELSE IF stage[a] = "waiting" THEN "cancelled"
                   ELSE stage[a]]
    /\ \E given \in SUBSET {a \in wanted : stage[a] = "cancelled"} :
          waived' = [a \in Alerts |-> waived[a] \/ a \in given]
    /\ UNCHANGED copies

Withdraw(a) ==
    /\ stage[a] = "waiting"
    /\ stage' = [stage EXCEPT ![a] = "cancelled"]
    /\ UNCHANGED <<copies, waived>>

GiveUp(a) ==
    /\ waived' = [waived EXCEPT ![a] = TRUE]
    /\ UNCHANGED <<stage, copies>>

Deliver(a) ==
    /\ copies[a] = 0 \/ waived[a]
    /\ copies' = [copies EXCEPT ![a] = @ + 1]
    /\ UNCHANGED <<stage, waived>>

Record(a) ==
    /\ stage[a] = "waiting"
    /\ a \in LocalAlerts \/ copies[a] > 0
    /\ stage' = [stage EXCEPT ![a] = "sent"]
    /\ UNCHANGED <<copies, waived>>

Next ==
    \/ \E wanted \in SUBSET Alerts : Review(wanted)
    \/ \E a \in Alerts :
          Withdraw(a) \/ GiveUp(a) \/ Deliver(a) \/ Record(a)

Spec == Init /\ [][Next]_<<stage, copies, waived>>
=============================================================================
