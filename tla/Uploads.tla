-------------------------------- MODULE Uploads --------------------------------
(***************************************************************************)
(* Uploaded files: modules/files/router.py puts an object under the        *)
(* quarantine prefix, commits a row and enqueues a scan; the job of        *)
(* workers/scan_worker.py fetches the object, scans it, moves or deletes   *)
(* it and records the verdict.  S3, the database and the queue are three   *)
(* stores without a common transaction.                                    *)
(***************************************************************************)
EXTENDS Idempotency

CONSTANTS
  Harmless,    \* the requests whose file the scanner has nothing against
  MaxTries     \* deliveries of a job: arq gives up after them

ASSUME UploadsAssumption == MaxTries \in Nat

VARIABLES
  uploads,     \* rows of file_uploads, in commit order
  quarantine,  \* objects under quarantine/, named for the request that put them
  moved,       \* objects under their final key
  scan         \* for each row its job: absent, waiting, at a step, or over

fileVars == <<uploads, quarantine, moved, scan>>
vars == <<idemVars, fileVars>>

FilesInit ==
  /\ uploads = <<>>
  /\ quarantine = {} /\ moved = {}
  /\ scan = <<>>

Init == IdemInit /\ FilesInit

-----------------------------------------------------------------------------
(* upload_file *)

PutObject(r) ==
  /\ pc[r] = "handle"
  /\ quarantine' = quarantine \cup {r}
  /\ Goto(r, "put")
  /\ UNCHANGED <<cache, reply, uploads, moved, scan>>

CommitUpload(r) ==
  /\ pc[r] = "put"
  /\ uploads' = Append(uploads, [object |-> r, tenant |-> WorkspaceOf[r],
                              status |-> "pending", movedTo |-> FALSE])
  /\ scan' = Append(scan, [state |-> "absent", plan |-> <<>>, status |-> "pending", tries |-> 0])
  /\ Goto(r, "committed")
  /\ UNCHANGED <<cache, reply, quarantine, moved>>

\* Slip: the newest row.
RowOfNewest(r) == Len(uploads)
RowOf(r) == CHOOSE u \in DOMAIN uploads : uploads[u].object = r

EnqueueScan(r) ==
  /\ pc[r] = "committed"
  /\ scan' = [scan EXCEPT ![RowOf(r)].state = "queued"]
  /\ Goto(r, "handled")
  /\ UNCHANGED <<cache, reply, uploads, quarantine, moved>>

\* S3, the database or Redis does not answer.
UploadFails(r) ==
  /\ HandlerFails(r, {"handle", "put", "committed"})
  /\ UNCHANGED fileVars

\* get_file_download_url.  Slip: only a pending file is withheld.
DownloadUnlessPending(u) == IF uploads[u].status = "pending" THEN "wait" ELSE "url"
Download(u) ==
  CASE uploads[u].status = "pending" -> "wait"
    [] uploads[u].status \in {"infected", "error"} -> "refused"
    [] OTHER -> "url"

-----------------------------------------------------------------------------
(* scan_file *)

\* Slip: one delivery too many.
DeliverableOnceMore(u) == scan[u].tries <= MaxTries
Deliverable(u) == scan[u].tries < MaxTries

\* Delivered for the first time or again: the row's status is not looked at.
\* An object that is not in quarantine any more raises, and arq does not
\* retry what raises.
Fetch(u) ==
  /\ scan[u].state = "queued" /\ Deliverable(u)
  /\ scan' = [scan EXCEPT ![u].tries = @ + 1,
                          ![u].state = IF uploads[u].object \in quarantine
                                       THEN "fetched" ELSE "raised"]
  /\ UNCHANGED <<idemVars, uploads, quarantine, moved>>

\* scan_bytes: clamd's answer, or an error if there is none.
Verdicts(object) == {IF object \in Harmless THEN "clean" ELSE "infected", "error"}

\* What is done with the object before the row is written.  Slips: the object
\* deleted before it is copied; an infected one left where it is.
PlanDeleteFirst(status) ==
  CASE status = "clean"    -> <<"delete", "copy", "commit">>
    [] status = "infected" -> <<"delete", "commit">>
    [] status = "error"    -> <<"commit">>
PlanKeepInfected(status) ==
  IF status = "clean" THEN <<"copy", "delete", "commit">> ELSE <<"commit">>
Plan(status) ==
  CASE status = "clean"    -> <<"copy", "delete", "commit">>
    [] status = "infected" -> <<"delete", "commit">>
    [] status = "error"    -> <<"commit">>

ScanObject(u) ==
  /\ scan[u].state = "fetched"
  /\ \E status \in Verdicts(uploads[u].object) :
       scan' = [scan EXCEPT ![u].state = "acting", ![u].status = status,
                            ![u].plan = Plan(status)]
  /\ UNCHANGED <<idemVars, uploads, quarantine, moved>>

At(u, step) == scan[u].state = "acting" /\ Head(scan[u].plan) = step
StepDone(u) == scan' = [scan EXCEPT ![u].plan = Tail(@)]

CopyObject(u) ==
  /\ At(u, "copy") /\ uploads[u].object \in quarantine
  /\ moved' = moved \cup {uploads[u].object}
  /\ StepDone(u)
  /\ UNCHANGED <<idemVars, uploads, quarantine>>

DeleteObject(u) ==
  /\ At(u, "delete")
  /\ quarantine' = quarantine \ {uploads[u].object}
  /\ StepDone(u)
  /\ UNCHANGED <<idemVars, uploads, moved>>

\* Slip: a failed scan left pending, for another day.
WrittenExceptError(status) == IF status = "error" THEN "pending" ELSE status
Written(status) == status

CommitScan(u) ==
  /\ At(u, "commit")
  /\ uploads' = [uploads EXCEPT ![u].status = Written(scan[u].status),
                                ![u].movedTo = @ \/ scan[u].status = "clean"]
  /\ scan' = [scan EXCEPT ![u].state = "over"]
  /\ UNCHANGED <<idemVars, quarantine, moved>>

\* The queue hears that the job is done, or gives it up.
ScanEnds(u) ==
  /\ \/ scan[u].state = "over"
     \/ scan[u].state = "queued" /\ ~Deliverable(u)
  /\ scan' = [scan EXCEPT ![u].state = IF @ = "over" THEN "acked" ELSE "raised"]
  /\ UNCHANGED <<idemVars, uploads, quarantine, moved>>

\* S3 or the database does not answer: the exception ends the job.
ScanRaises(u) ==
  /\ scan[u].state \in {"fetched", "acting"}
  /\ scan' = [scan EXCEPT ![u].state = "raised"]
  /\ UNCHANGED <<idemVars, uploads, quarantine, moved>>

\* The worker stops: the job is delivered again.
Redeliver(u) ==
  /\ scan[u].state \in {"fetched", "acting", "over"}
  /\ scan' = [scan EXCEPT ![u].state = "queued"]
  /\ UNCHANGED <<idemVars, uploads, quarantine, moved>>

ScanStep(u) == \/ Fetch(u) \/ ScanObject(u) \/ CopyObject(u) \/ DeleteObject(u)
               \/ CommitScan(u) \/ ScanEnds(u)

-----------------------------------------------------------------------------
AnswerUpload(r) == Answer(r, RowOf(r)) /\ UNCHANGED fileVars

HandleStep(r) == PutObject(r) \/ CommitUpload(r) \/ EnqueueScan(r) \/ AnswerUpload(r)

Next ==
  \/ \E r \in Requests : \/ (Receive(r) \/ StopRequest(r)) /\ UNCHANGED fileVars
                         \/ HandleStep(r) \/ UploadFails(r)
  \/ \E k \in Keys : ExpireKey(k) /\ UNCHANGED fileVars
  \/ \E u \in DOMAIN scan : ScanStep(u) \/ ScanRaises(u) \/ Redeliver(u)

Spec == Init /\ [][Next]_vars

\* The event loops run what can run.
FairSpec ==
  /\ Spec
  /\ \A r \in Requests : WF_vars(HandleStep(r))
  /\ \A u \in 1..Cardinality(Requests) : WF_vars(u \in DOMAIN scan /\ ScanStep(u))
=============================================================================
