------------------------------- MODULE Documents -------------------------------
(***************************************************************************)
(* The documents of one mission: a file in the storage and a row in the    *)
(* database, written one after the other; then the malware scan and the    *)
(* verification of the row.                                                *)
(*                                                                         *)
(* The storage key is a fresh UUID: the document stands for its file, too. *)
(* Uploads fail: the process dies at any point, the transaction is         *)
(* refused, or it commits and the answer is lost.                          *)
(***************************************************************************)
EXTENDS Naturals

CONSTANTS
  DocumentIds,       \* the documents there may ever be
  DocumentTypes,     \* POD, WAYBILL, ...
  Places,            \* the stops a document may belong to, and NoStop
  NoStop,            \* the document belongs to the mission itself
  NoDocument,        \* null in replacesDocumentId
  Staff,             \* the users who upload and verify
  Nobody,            \* null in verifiedByUserId
  DocumentRequests   \* uploads and verifications that can be in flight

ASSUME NobodyAssumption == Nobody \notin Staff
ASSUME NoDocumentAssumption == NoDocument \notin DocumentIds
ASSUME NoStopAssumption == NoStop \in Places

VARIABLES
  documents,         \* the rows, by id
  files,             \* the documents whose file is in the storage
  crashed,           \* uploads that ended without the catch of the code
  unanswered,        \* uploads that committed without learning it
  documentInFlight   \* what each request remembers

documentVars == <<documents, files, crashed, unanswered, documentInFlight>>

Verification == {"PENDING", "VERIFIED", "REJECTED"}
Scan == {"PENDING", "CLEAN", "INFECTED", "FAILED"}

Absent == [version |-> 0]

DocumentRow ==
  [type : DocumentTypes, stop : Places, version : Nat \ {0},
   replaces : DocumentIds \cup {NoDocument}, scan : Scan, verification : Verification,
   uploader : Staff, verifier : Staff \cup {Nobody}]

Uploaded == {d \in DocumentIds : documents[d] # Absent}

NoDocumentRequest == [op |-> "idle"]

\* started: the replaced document has been read.  stored: the file is written.
\* failed: the catch is about to delete the file.
UploadIntent ==
  [op : {"started", "stored", "failed"}, document : DocumentIds, type : DocumentTypes,
   stop : Places, version : Nat \ {0}, replaces : DocumentIds \cup {NoDocument}, user : Staff]

VerifyIntent ==
  [op : {"verify"}, document : DocumentIds, verdict : {"VERIFIED", "REJECTED"}, user : Staff]

DocumentTypeOK ==
  /\ documents \in [DocumentIds -> DocumentRow \cup {Absent}]
  /\ files \subseteq DocumentIds
  /\ crashed \subseteq DocumentIds
  /\ unanswered \subseteq DocumentIds
  /\ documentInFlight \in
       [DocumentRequests -> {NoDocumentRequest} \cup UploadIntent \cup VerifyIntent]

DocumentInit ==
  /\ documents = [d \in DocumentIds |-> Absent]
  /\ files = {}
  /\ crashed = {}
  /\ unanswered = {}
  /\ documentInFlight = [r \in DocumentRequests |-> NoDocumentRequest]

BeginDocument(r, intent) ==
  /\ documentInFlight[r] = NoDocumentRequest
  /\ documentInFlight' = [documentInFlight EXCEPT ![r] = intent]

EndDocument(r) == documentInFlight' = [documentInFlight EXCEPT ![r] = NoDocumentRequest]

Uploading == {"started", "stored", "failed"}

\* A fresh UUID.
Fresh(d) ==
  /\ d \notin Uploaded \cup files \cup crashed \cup unanswered
  /\ \A q \in DocumentRequests :
       documentInFlight[q].op \in Uploading => documentInFlight[q].document # d

-------------------------------------------------------------------------------
(* upload.                                                                     *)

\* The replaced document is read before the file is stored, and outside the
\* transaction: two uploads can replace the same one.
ReadReplaced(r) ==
  \E d \in DocumentIds, user \in Staff, type \in DocumentTypes, stop \in Places,
     replaces \in Uploaded \cup {NoDocument} :
    /\ Fresh(d)
    /\ replaces # NoDocument =>
         documents[replaces].type = type /\ documents[replaces].stop = stop
    /\ BeginDocument(r,
         [op |-> "started", document |-> d, type |-> type, stop |-> stop, user |-> user,
          version |-> IF replaces = NoDocument THEN 1 ELSE documents[replaces].version + 1,
          replaces |-> replaces])
    /\ UNCHANGED <<documents, files, crashed, unanswered>>

Put(r) ==
  LET i == documentInFlight[r] IN
  /\ i.op = "started"
  /\ files' = files \cup {i.document}
  /\ documentInFlight' = [documentInFlight EXCEPT ![r] = [i EXCEPT !.op = "stored"]]
  /\ UNCHANGED <<documents, crashed, unanswered>>

NewRow(i) ==
  [type |-> i.type, stop |-> i.stop, version |-> i.version, replaces |-> i.replaces,
   scan |-> "PENDING", verification |-> "PENDING", uploader |-> i.user, verifier |-> Nobody]

CommitUpload(r) ==
  LET i == documentInFlight[r] IN
  /\ i.op = "stored"
  /\ documents' = [documents EXCEPT ![i.document] = NewRow(i)]
  /\ EndDocument(r)
  /\ UNCHANGED <<files, crashed, unanswered>>

\* The transaction fails, and nothing of it stays.
FailUpload(r) ==
  LET i == documentInFlight[r] IN
  /\ i.op = "stored"
  /\ documentInFlight' = [documentInFlight EXCEPT ![r] = [i EXCEPT !.op = "failed"]]
  /\ UNCHANGED <<documents, files, crashed, unanswered>>

\* The row is committed, but the connection is lost before the answer arrives:
\* for the code the transaction has failed.
LoseAnswer(r) ==
  LET i == documentInFlight[r] IN
  /\ i.op = "stored"
  /\ documents' = [documents EXCEPT ![i.document] = NewRow(i)]
  /\ unanswered' = unanswered \cup {i.document}
  /\ documentInFlight' = [documentInFlight EXCEPT ![r] = [i EXCEPT !.op = "failed"]]
  /\ UNCHANGED <<files, crashed>>

ForgetFile(r) ==  \* mutant
  LET i == documentInFlight[r] IN
  /\ i.op = "failed"
  /\ EndDocument(r)
  /\ UNCHANGED <<documents, files, crashed, unanswered>>

DeleteFile(r) ==
  LET i == documentInFlight[r] IN
  /\ i.op = "failed"
  /\ files' = files \ {i.document}
  /\ EndDocument(r)
  /\ UNCHANGED <<documents, crashed, unanswered>>

\* The process dies, or the storage fails half way, which nothing catches.
CrashUpload(r) ==
  LET i == documentInFlight[r] IN
  /\ i.op \in Uploading
  /\ crashed' = crashed \cup {i.document}
  /\ files' \in {files, files \cup {i.document}}
  /\ i.op # "started" => files' = files
  /\ EndDocument(r)
  /\ UNCHANGED <<documents, unanswered>>

-------------------------------------------------------------------------------
(* verify and recordMalwareScan.                                               *)

VerificationLockFree(r, d) ==
  \A q \in DocumentRequests \ {r} :
    ~(documentInFlight[q].op = "verify" /\ documentInFlight[q].document = d)

Verifiable(d, user) == documents[d].uploader # user /\ documents[d].scan = "CLEAN"

ReadVerification(r) ==
  \E d \in Uploaded, user \in Staff, verdict \in {"VERIFIED", "REJECTED"} :
    /\ VerificationLockFree(r, d)
    /\ Verifiable(d, user)
    /\ BeginDocument(r, [op |-> "verify", document |-> d, verdict |-> verdict, user |-> user])
    /\ UNCHANGED <<documents, files, crashed, unanswered>>

CommitVerification(r) ==
  LET i == documentInFlight[r] IN
  /\ i.op = "verify"
  /\ documents' =
       [documents EXCEPT ![i.document] =
          [@ EXCEPT !.verification = i.verdict, !.verifier = i.user]]
  /\ EndDocument(r)
  /\ UNCHANGED <<files, crashed, unanswered>>

AbortVerification(r) ==
  /\ documentInFlight[r].op = "verify"
  /\ EndDocument(r)
  /\ UNCHANGED <<documents, files, crashed, unanswered>>

\* One update by id, under no lock, at any time: also of a verified document.
RecordScan ==
  \E d \in Uploaded, result \in Scan \ {"PENDING"} :
    /\ documents' = [documents EXCEPT ![d] = [@ EXCEPT !.scan = result]]
    /\ UNCHANGED <<files, crashed, unanswered, documentInFlight>>

DocumentNext ==
  \/ \E r \in DocumentRequests :
       \/ ReadReplaced(r)
       \/ Put(r)
       \/ CommitUpload(r)
       \/ FailUpload(r)
       \/ LoseAnswer(r)
       \/ DeleteFile(r)
       \/ CrashUpload(r)
       \/ ReadVerification(r)
       \/ CommitVerification(r)
       \/ AbortVerification(r)
  \/ RecordScan

-------------------------------------------------------------------------------
(* Properties.                                                                 *)

\* getContent answers with the file.
Readable(d) == d \in Uploaded /\ d \in files

\* Rows and files agree but for the two failures no handler can repair: a row
\* has lost its file only if its commit was never answered, and a file lies
\* without a row only if its upload crashed or is still under way.
FilesAccounted ==
  /\ \A d \in Uploaded \ unanswered : Readable(d)
  /\ \A d \in files :
       \/ d \in Uploaded \cup crashed
       \/ \E r \in DocumentRequests :
            documentInFlight[r].op \in Uploading /\ documentInFlight[r].document = d

\* A verdict is another user's than the uploader's, and was given after a scan.
Judged(d) ==
  /\ documents[d].verifier \in Staff \ {documents[d].uploader}
  /\ documents[d].scan # "PENDING"

VerdictsIndependent ==
  \A d \in Uploaded : documents[d].verification # "PENDING" => Judged(d)

===============================================================================
