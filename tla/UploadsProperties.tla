--------------------------- MODULE UploadsProperties ---------------------------
(***************************************************************************)
(* What readers of uploaded files and clients that retry may rely on.      *)
(***************************************************************************)
EXTENDS Uploads

Rows == DOMAIN uploads

UploadStatus == {"pending", "clean", "infected", "error"}
Upload == [object : Requests, tenant : {WorkspaceOf[r] : r \in Requests},
           movedTo : BOOLEAN, status : UploadStatus]
ScanStates == {"absent", "queued", "fetched", "acting", "over", "acked", "raised"}

\* Rows, objects and jobs have the shape the handlers give them.
TypeOK ==
  /\ pc \in [Requests -> {"idle", "handle", "put", "committed", "handled",
                          "answered", "failed", "stopped"}]
  /\ cache \in [Keys -> Nat] /\ reply \in [Requests -> Nat]
  /\ uploads \in Seq(Upload)
  /\ quarantine \subseteq Requests /\ moved \subseteq Requests
  /\ Len(scan) = Len(uploads)
  /\ \A u \in Rows : scan[u].state \in ScanStates /\ scan[u].tries \in 0..MaxTries

\* Nothing is readable until a scan has come back clean (files/router.py:1-8):
\* a download URL is only given for an object that the scanner has nothing
\* against, and the object is at the key the URL points to, whatever crashed
\* or was delivered twice before.
ReadableIsClean ==
  \A u \in Rows : Download(u) = "url" =>
    /\ uploads[u].object \in Harmless
    /\ uploads[u].movedTo /\ uploads[u].object \in moved

\* A file found infected is not left anywhere in S3 (scan_worker.py:49-50), and
\* no infected object ever stands outside quarantine.
InfectedIsGone ==
  /\ moved \subseteq Harmless
  /\ \A u \in Rows : uploads[u].status = "infected" => uploads[u].object \notin quarantine

\* A harmless file is never lost: at every moment it is in quarantine or under
\* its final key, in the order copy, delete, commit (scan_worker.py:39-48).
HarmlessIsKept ==
  \A u \in Rows : uploads[u].object \in Harmless =>
    uploads[u].object \in quarantine \cup moved

\* A file that stays pending has a reason: its scan was never enqueued because
\* the request stopped or failed in between (files/router.py:43-47), is still
\* to run, or ended in an exception.
PendingIsExplained ==
  \A u \in Rows : uploads[u].status = "pending" =>
    \/ scan[u].state = "absent" /\ pc[uploads[u].object] \in {"committed", "failed", "stopped"}
    \/ scan[u].state \notin {"absent", "over", "acked"}

\* An answer names the row its own request created or, if the request created
\* none, the row of a request with the same key (idempotency.py:5-6).
ReplayedIsRecorded ==
  \A r \in Requests : reply[r] # NoAnswer =>
    /\ reply[r] \in Rows
    /\ KeyOf[uploads[reply[r]].object] = KeyOf[r]
    /\ \A u \in Rows : uploads[u].object = r => reply[r] = u

\* An upload that has been answered gets its verdict, unless its job raises.
ScanSettles ==
  \A u \in 1..Cardinality(Requests) :
    (u \in Rows /\ scan[u].state = "queued") ~>
      (u \in Rows /\ (uploads[u].status # "pending" \/ scan[u].state = "raised"))
-----------------------------------------------------------------------------
\* A retried request must not do its work twice (idempotency.py:2-3): of the
\* requests with one key that were answered, one at most created a row.
Worked(r) == pc[r] = "answered" /\ \E u \in Rows : uploads[u].object = r
NoDoubleSubmit ==
  \A r, q \in Requests :
    r # q /\ HasKey(r) /\ KeyOf[r] = KeyOf[q] => ~(Worked(r) /\ Worked(q))

\* Keys are scoped per tenant (idempotency.py:1): what a request is answered
\* with is a row of its own workspace.
ReplayStaysInWorkspace ==
  \A r \in Requests : reply[r] # NoAnswer => uploads[reply[r]].tenant = WorkspaceOf[r]
=============================================================================
