-------------------------- MODULE MCDocumentUpload --------------------------
(* Small instances of DocumentUpload for TLC.                              *)
EXTENDS DocumentUpload, TLC

CONSTANTS r1, r2, r3, item, gone, uploadKey, pdf, pdf2, fake

(* One key sent twice, with the same and with another document, a keyless  *)
(* upload, one to a task that is gone and one that is not what it says.    *)
Call(i, key, body) == [item |-> i, key |-> key, body |-> body]
MCIntents ==
    {Call(item, uploadKey, pdf), Call(item, uploadKey, pdf2), Call(item, NoKey, pdf),
     Call(gone, uploadKey, pdf), Call(item, uploadKey, fake)}

MCOperands(body) == body
=============================================================================
