--------------------------- MODULE DocumentUpload ---------------------------
(***************************************************************************)
(* Uploading a document to a checklist item: the bytes go to object        *)
(* storage, then one row of documents names them                           *)
(* (POST /checklist-items/:id/documents of checklist.ts, storage.ts).      *)
(*                                                                         *)
(* No transaction spans the two stores.  An upload key makes the row's id  *)
(* a function of the item and the key, so a retry meets the row of the     *)
(* attempt before it; every attempt has an object key of its own, so what  *)
(* one attempt deletes no other can be using.  An attempt is a request.    *)
(* The bucket is external, modelled from how the code calls it.            *)
(***************************************************************************)
EXTENDS Naturals, FiniteSets

CONSTANTS
    Requests,
    Intents,     \* the [item, key, body] a client may send
    Items,       \* checklist items that exist
    NoKey,       \* no x-upload-key header
    Genuine,     \* bodies whose bytes are of the type they announce
    Operands(_), \* filename, content type and size of a body
    LateInserts, \* may an insert go on after its connection was lost?
    MaxFaults    \* bound: failed calls, lost connections and crashes

ASSUME UploadAssumption ==
    LateInserts \in BOOLEAN /\ MaxFaults \in Nat

VARIABLES
    request,   \* what each request asked, how far it is, what it was told
    documents, \* the documents table, by id
    objects,   \* the requests whose object is in the bucket
    running,   \* the requests whose insert still runs without a connection
    reported,  \* the requests whose object was logged for manual deletion
    faults

uploadVars == <<request, documents, objects, running, reported, faults>>

NotSent == [pc |-> "idle"]

(* documentIdFor: an attempt without a key has a fresh id.                 *)
DocumentId(r) ==
    LET i == request[r].intent
    IN  IF i.key = NoKey THEN <<"attempt", r>> ELSE <<i.item, i.key>>

Stored(r) == DocumentId(r) \in DOMAIN documents
Row(r) == documents[DocumentId(r)]
NewRow(r) ==
    [item |-> request[r].intent.item, operands |-> Operands(request[r].intent.body),
     object |-> r]

With(id, row) ==
    [d \in DOMAIN documents \cup {id} |-> IF d = id THEN row ELSE documents[d]]

(* Mutant: a key is trusted to name the same document.                     *)
TrustTheKey(row, intent, status) == status

(* sendCommittedUpload: the row answers only for the document it names.    *)
Committed(row, intent, status) ==
    IF row.item = intent.item /\ row.operands = Operands(intent.body)
    THEN status ELSE "conflict"

Fault == faults < MaxFaults /\ faults' = faults + 1

At(r, pc) == request[r].pc = pc
Goto(r, pc) == request' = [request EXCEPT ![r].pc = pc]
Answer(r, a) == request' = [request EXCEPT ![r].pc = "answered", ![r].answer = a]

-----------------------------------------------------------------------------
(* The checks before a byte is stored, the committed row among them.       *)
Arrive(r) ==
    /\ At(r, "idle")
    /\ \E i \in Intents :
         LET id == <<i.item, i.key>>
             told(a) == [pc |-> "answered", intent |-> i, answer |-> a, then |-> "none"]
         IN  request' = [request EXCEPT ![r] =
                IF i.item \notin Items THEN told("not_found")
                ELSE IF i.key # NoKey /\ id \in DOMAIN documents
                     THEN told(Committed(documents[id], i, "exists"))
                ELSE IF i.body \notin Genuine THEN told("invalid")
                ELSE [pc |-> "put", intent |-> i, answer |-> "none", then |-> "none"]]
    /\ UNCHANGED <<documents, objects, running, reported, faults>>

(* storage.put; when it fails the bytes may be there all the same.         *)
Put(r) ==
    /\ At(r, "put")
    /\ objects' = objects \cup {r} /\ Goto(r, "insert")
    /\ UNCHANGED <<documents, running, reported, faults>>

PutFails(r) ==
    /\ At(r, "put") /\ Fault
    /\ \/ objects' = objects \cup {r}
       \/ UNCHANGED objects
    /\ request' = [request EXCEPT ![r].pc = "remove", ![r].then = "unavailable"]
    /\ UNCHANGED <<documents, running, reported>>

(* INSERT ... ON CONFLICT (id) DO NOTHING RETURNING.                       *)
Insert(r) ==
    /\ At(r, "insert")
    /\ IF Stored(r)
       THEN Goto(r, "reread") /\ UNCHANGED documents
       ELSE documents' = With(DocumentId(r), NewRow(r)) /\ Answer(r, "created")
    /\ UNCHANGED <<objects, running, reported, faults>>

(* A statement the server refused wrote nothing.                           *)
InsertRefused(r) ==
    /\ At(r, "insert") /\ Fault
    /\ request' = [request EXCEPT ![r].pc = "remove", ![r].then = "failed"]
    /\ UNCHANGED <<documents, objects, running, reported>>

(* The connection is lost: the statement ran, will not run, or runs on.    *)
InsertUnanswered(r) ==
    /\ At(r, "insert") /\ Fault /\ Goto(r, "outcome")
    /\ \/ UNCHANGED <<documents, running>>
       \/ ~Stored(r) /\ documents' = With(DocumentId(r), NewRow(r)) /\ UNCHANGED running
       \/ LateInserts /\ running' = running \cup {r} /\ UNCHANGED documents
    /\ UNCHANGED <<objects, reported>>

RunningInsertEnds(r) ==
    /\ r \in running /\ running' = running \ {r}
    /\ \/ UNCHANGED documents
       \/ ~Stored(r) /\ documents' = With(DocumentId(r), NewRow(r))
    /\ UNCHANGED <<request, objects, reported, faults>>

(* The insert met another attempt's row: delete the losing bytes.          *)
Reread(r) ==
    /\ At(r, "reread") /\ Stored(r)
    /\ request' = [request EXCEPT ![r].pc = "remove",
                     ![r].then = Committed(Row(r), request[r].intent, "exists")]
    /\ UNCHANGED <<documents, objects, running, reported, faults>>

RereadFails(r) ==
    /\ At(r, "reread") /\ Fault
    /\ request' = [request EXCEPT ![r].pc = "remove", ![r].then = "failed"]
    /\ UNCHANGED <<documents, objects, running, reported>>

RereadUnanswered(r) ==
    /\ At(r, "reread") /\ Fault /\ Goto(r, "outcome")
    /\ UNCHANGED <<documents, objects, running, reported>>

(* Mutant: the row that is found is taken for another attempt's.           *)
ReadOutcomeAsLoser(r) ==
    /\ At(r, "outcome")
    /\ request' = [request EXCEPT ![r].pc = "remove",
            ![r].then = IF Stored(r) THEN Committed(Row(r), request[r].intent, "exists")
                        ELSE "failed"]
    /\ UNCHANGED <<documents, objects, running, reported, faults>>

(* metadataOutcome: does the row exist, and is it this attempt's?          *)
ReadOutcome(r) ==
    /\ At(r, "outcome")
    /\ IF Stored(r) /\ Row(r).object = r
       THEN Answer(r, Committed(Row(r), request[r].intent, "created"))
       ELSE request' = [request EXCEPT ![r].pc = "remove",
              ![r].then = IF Stored(r) THEN Committed(Row(r), request[r].intent, "exists")
                          ELSE "failed"]
    /\ UNCHANGED <<documents, objects, running, reported, faults>>

(* Nobody can say: the bytes are kept and logged.                          *)
OutcomeUnknown(r) ==
    /\ At(r, "outcome") /\ Fault
    /\ reported' = reported \cup {r} /\ Answer(r, "unknown")
    /\ UNCHANGED <<documents, objects, running>>

(* removeOrphanedObject, then the answer that was waiting for it.          *)
RemoveOrphan(r) ==
    /\ At(r, "remove")
    /\ objects' = objects \ {r} /\ Answer(r, request[r].then)
    /\ UNCHANGED <<documents, running, reported, faults>>

RemoveFails(r) ==
    /\ At(r, "remove") /\ Fault
    /\ reported' = reported \cup {r} /\ Answer(r, request[r].then)
    /\ UNCHANGED <<documents, objects, running>>

(* The process dies: its requests get no answer and nothing is cleaned up. *)
InFlight(r) == request[r].pc \notin {"idle", "answered", "dead"}

Crash ==
    /\ Fault /\ \E r \in Requests : InFlight(r)
    /\ request' = [r \in Requests |->
         IF InFlight(r) THEN [request[r] EXCEPT !.pc = "dead"] ELSE request[r]]
    /\ UNCHANGED <<documents, objects, running, reported>>

-----------------------------------------------------------------------------
UploadInit ==
    /\ request = [r \in Requests |-> NotSent]
    /\ documents = [d \in {} |-> {}]
    /\ objects = {} /\ running = {} /\ reported = {} /\ faults = 0

UploadStep(r) ==
    \/ Put(r) \/ Insert(r) \/ Reread(r) \/ ReadOutcome(r) \/ RemoveOrphan(r)
Failure(r) ==
    \/ PutFails(r) \/ InsertRefused(r) \/ InsertUnanswered(r) \/ RereadFails(r)
    \/ RereadUnanswered(r) \/ OutcomeUnknown(r) \/ RemoveFails(r)

UploadNext ==
    \/ \E r \in Requests : Arrive(r) \/ UploadStep(r) \/ Failure(r) \/ RunningInsertEnds(r)
    \/ Crash

UploadSpec == UploadInit /\ [][UploadNext]_uploadVars

-----------------------------------------------------------------------------
Told(r, a) == request[r].pc = "answered" /\ request[r].answer = a

(* No row names bytes that were deleted: whichever attempt loses, removes  *)
(* only what it put itself (removeOrphanedObject).                         *)
RowsHaveObjects == \A d \in DOMAIN documents : documents[d].object \in objects

(* What an upload was told is so, and stays so: a stored document is       *)
(* listed with the name, type and size that were sent, one attempt per id  *)
(* is told it created it, and a failed attempt left no row.                *)
AnswersAreTrue ==
    \A r \in Requests :
        /\ Told(r, "created") \/ Told(r, "exists") =>
             Stored(r) /\ Row(r).operands = Operands(request[r].intent.body)
        /\ Told(r, "created") => Row(r).object = r
        /\ Told(r, "unavailable") \/ Told(r, "failed") =>
             \A d \in DOMAIN documents : documents[d].object # r
=============================================================================
