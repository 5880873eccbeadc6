---------------------------- MODULE MCCompliance ----------------------------
(* The checklist and the uploads to its items in one run: a behaviour is   *)
(* that of one of them, the other stays as it began.                       *)
EXTENDS MCChecklist, MCDocumentUpload

VARIABLE part

MCInit == Init /\ UploadInit /\ part \in {"checklist", "upload"}

MCNext ==
    /\ UNCHANGED part
    /\ \/ part = "checklist" /\ Next /\ UNCHANGED uploadVars
       \/ part = "upload" /\ UploadNext /\ UNCHANGED vars

MCSpec == MCInit /\ [][MCNext]_<<part, vars, uploadVars>>
=============================================================================
