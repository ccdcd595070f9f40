----------------------------- MODULE UploadsProofs -----------------------------
(***************************************************************************)
(* Theorems about uploaded files, for any number of requests, keys and     *)
(* deliveries of a job, whatever stops, fails or is delivered again.       *)
(***************************************************************************)
EXTENDS UploadsProperties, SequenceTheorems, TLAPS

\* What stands at a position of a sequence over a set is in the set.
LEMMA ElementOf ==
  ASSUME NEW S, NEW s \in Seq(S), NEW i \in DOMAIN s
  PROVE  s[i] \in S
OBVIOUS

\* Replacing one element of a sequence over a set leaves it one.
LEMMA ReplaceOne ==
  ASSUME NEW S, NEW s \in Seq(S), NEW i \in DOMAIN s, NEW x \in S
  PROVE  /\ [s EXCEPT ![i] = x] \in Seq(S)
         /\ DOMAIN [s EXCEPT ![i] = x] = DOMAIN s
         /\ Len([s EXCEPT ![i] = x]) = Len(s)
         /\ \A j \in DOMAIN s : [s EXCEPT ![i] = x][j] = IF j = i THEN x ELSE s[j]
OBVIOUS

\* Appending one element to a sequence over a set leaves it one.
LEMMA AppendOne ==
  ASSUME NEW S, NEW s \in Seq(S), NEW x \in S
  PROVE  /\ Append(s, x) \in Seq(S)
         /\ DOMAIN Append(s, x) = DOMAIN s \cup {Len(s) + 1}
         /\ Len(Append(s, x)) = Len(s) + 1
         /\ \A j \in DOMAIN s : Append(s, x)[j] = s[j]
         /\ Append(s, x)[Len(s) + 1] = x
         /\ Len(s) + 1 \notin DOMAIN s
OBVIOUS

-----------------------------------------------------------------------------
(* The inductive invariant *)

\* The steps a job may still have to take.
Plans == {<<>>, <<"commit">>, <<"delete", "commit">>, <<"copy", "delete", "commit">>}
Job == [state : ScanStates, plan : Plans, status : UploadStatus, tries : 0..MaxTries]

\* Plans are followed from the front.
LEMMA PlanSteps ==
  ASSUME NEW plan \in Plans \ {<<>>}
  PROVE  /\ Head(plan) = "copy" =>
              plan = <<"copy", "delete", "commit">> /\ Tail(plan) = <<"delete", "commit">>
         /\ Head(plan) = "delete" =>
              plan = <<"delete", "commit">> /\ Tail(plan) = <<"commit">>
         /\ Head(plan) = "commit" => plan = <<"commit">>
<1>1. CASE plan = <<"commit">>
  <2>1. Head(plan) = "commit"
    BY <1>1
  <2>2. QED
    BY <1>1, <2>1
<1>2. CASE plan = <<"delete", "commit">>
  <2>1. Head(plan) = "delete"
    BY <1>2
  <2>2. Tail(plan) = <<"commit">>
    BY <1>2
  <2>3. QED
    BY <1>2, <2>1, <2>2
<1>3. CASE plan = <<"copy", "delete", "commit">>
  <2>1. Head(plan) = "copy"
    BY <1>3
  <2>2. Tail(plan) = <<"delete", "commit">>
    BY <1>3
  <2>3. QED
    BY <1>3, <2>1, <2>2
<1>4. QED
  BY <1>1, <1>2, <1>3 DEF Plans

Passed(label) == label \in {"committed", "handled", "answered", "failed", "stopped"}

\* Jobs and rows are of a kind, one job to a row.
JobsOK == scan \in Seq(Job) /\ DOMAIN scan = DOMAIN uploads

\* A request has one row at most, and has it from its commit on.
RowsFollowRequests ==
  /\ \A u \in Rows : Passed(pc[uploads[u].object])
  /\ \A u, v \in Rows : uploads[u].object = uploads[v].object => u = v
  /\ \A r \in Requests : pc[r] \in {"committed", "handled"} =>
       \E u \in Rows : uploads[u].object = r
  /\ \A r \in Requests : pc[r] = "put" => r \in quarantine

\* How far a job at work is with its object: what it has done is what is no
\* more in its plan.
JobsFollowPlans ==
  \A u \in Rows : scan[u].state = "acting" =>
    /\ scan[u].status \in Verdicts(uploads[u].object)
    /\ \/ scan[u].plan = Plan(scan[u].status)
       \/ /\ scan[u].status = "clean" /\ uploads[u].object \in moved
          /\ scan[u].plan \in {<<"delete", "commit">>, <<"commit">>}
       \/ /\ scan[u].status = "infected" /\ uploads[u].object \notin quarantine
          /\ scan[u].plan = <<"commit">>

\* What was answered is a row of the key; what is kept under a key, too.
AnswersAreRows ==
  /\ \A r \in Requests : reply[r] # NoAnswer =>
       /\ pc[r] = "answered" /\ reply[r] \in Rows
       /\ KeyOf[uploads[reply[r]].object] = KeyOf[r]
       /\ \A u \in Rows : uploads[u].object = r => reply[r] = u
  /\ \A r \in Requests : HasKey(r) /\ cache[CacheKey(r)] # NoAnswer =>
       /\ cache[CacheKey(r)] \in Rows
       /\ KeyOf[uploads[cache[CacheKey(r)]].object] = KeyOf[r]

Typed == TypeOK /\ JobsOK
FilesInv ==
  /\ Typed /\ RowsFollowRequests /\ JobsFollowPlans
  /\ ReadableIsClean /\ InfectedIsGone /\ HarmlessIsKept
  /\ PendingIsExplained
UploadsInv == FilesInv /\ AnswersAreRows

-----------------------------------------------------------------------------
(* Types *)

\* What one row and one job are made of.
LEMMA RowsAndJobs ==
  ASSUME Typed, NEW u \in DOMAIN scan
  PROVE  /\ u \in Rows /\ uploads[u] \in Upload /\ uploads[u].object \in Requests
         /\ scan[u] \in Job /\ scan[u].tries \in 0..MaxTries
<1>1. u \in Rows /\ uploads[u] \in Upload
  BY ElementOf DEF Typed, TypeOK, JobsOK, Rows
<1>2. scan[u] \in Job
  BY ElementOf DEF Typed, JobsOK
<1>3. QED
  BY <1>1, <1>2 DEF Upload, Job

\* A step of one job: it changes that job, its row and objects.
JobChange(u, job, row) ==
  /\ scan' = [scan EXCEPT ![u] = job]
  /\ uploads' = [uploads EXCEPT ![u] = row]
  /\ quarantine' \subseteq Requests /\ moved' \subseteq Requests
  /\ UNCHANGED idemVars

\* Such a step keeps the types, if the job and the row are of theirs.
LEMMA OneJobChanged ==
  ASSUME Typed, NEW u \in DOMAIN scan, NEW job \in Job, NEW row \in Upload,
         JobChange(u, job, row)
  PROVE  /\ Typed'
         /\ DOMAIN uploads' = DOMAIN uploads /\ DOMAIN scan' = DOMAIN scan
         /\ \A v \in Rows : uploads'[v] = IF v = u THEN row ELSE uploads[v]
         /\ \A v \in Rows : scan'[v] = IF v = u THEN job ELSE scan[v]
<1>. USE DEF JobChange
<1>1. scan \in Seq(Job) /\ uploads \in Seq(Upload) /\ DOMAIN scan = DOMAIN uploads
  BY DEF Typed, TypeOK, JobsOK
<1>2. /\ scan' \in Seq(Job) /\ uploads' \in Seq(Upload)
      /\ Len(scan') = Len(scan) /\ Len(uploads') = Len(uploads)
      /\ DOMAIN uploads' = DOMAIN uploads /\ DOMAIN scan' = DOMAIN scan
      /\ \A v \in Rows : uploads'[v] = IF v = u THEN row ELSE uploads[v]
      /\ \A v \in Rows : scan'[v] = IF v = u THEN job ELSE scan[v]
  BY <1>1, ReplaceOne DEF Rows
<1>3. \A v \in Rows : scan'[v] \in Job
  BY <1>1, <1>2, ElementOf DEF Rows
<1>4. TypeOK'
  BY <1>2, <1>3 DEF Typed, TypeOK, Rows, Job, idemVars
<1>5. QED
  BY <1>1, <1>2, <1>4 DEF Typed, JobsOK

-----------------------------------------------------------------------------
(* The steps of a job *)

\* A job moves in its queue: what it has done stays done.
JobMove(u, state, tries) ==
  /\ scan' = [scan EXCEPT ![u] = [scan[u] EXCEPT !.state = state, !.tries = tries]]
  /\ UNCHANGED <<idemVars, uploads, quarantine, moved>>

LEMMA OneJobMoves ==
  ASSUME FilesInv, NEW u \in DOMAIN scan,
         NEW tries \in 0..MaxTries,
         NEW state \in {"queued", "fetched", "raised"}, JobMove(u, state, tries)
  PROVE  FilesInv'
<1>. USE DEF JobMove
<1>. DEFINE job == [scan[u] EXCEPT !.state = state, !.tries = tries]
<1>1. Typed /\ u \in Rows /\ scan[u] \in Job /\ uploads[u] \in Upload
  BY RowsAndJobs DEF FilesInv
<1>2. job \in Job /\ job.state = state
  BY <1>1 DEF Job, ScanStates
<1>3. JobChange(u, job, uploads[u])
  BY <1>1 DEF Typed, TypeOK, JobChange
<1>. HIDE DEF job
<1>5. /\ Typed' /\ Rows' = Rows
      /\ \A v \in Rows : uploads'[v] = uploads[v]
      /\ \A v \in Rows : scan'[v] = IF v = u THEN job ELSE scan[v]
  <2>1. /\ Typed' /\ DOMAIN uploads' = DOMAIN uploads
        /\ \A v \in Rows : uploads'[v] = IF v = u THEN uploads[u] ELSE uploads[v]
        /\ \A v \in Rows : scan'[v] = IF v = u THEN job ELSE scan[v]
    BY <1>1, <1>2, <1>3, OneJobChanged
  <2>2. QED
    BY <2>1 DEF Rows
<1>6. RowsFollowRequests' /\ ReadableIsClean' /\ InfectedIsGone' /\ HarmlessIsKept'
  BY <1>5 DEF FilesInv, RowsFollowRequests, ReadableIsClean, InfectedIsGone,
              HarmlessIsKept, Download, idemVars
<1>7. JobsFollowPlans'
  BY <1>2, <1>5 DEF FilesInv, JobsFollowPlans
<1>8. PendingIsExplained'
  BY <1>2, <1>5 DEF FilesInv, PendingIsExplained, idemVars
<1>9. QED
  BY <1>5, <1>6, <1>7, <1>8 DEF FilesInv

\* A job is delivered, raises, or is to be delivered again.
LEMMA JobsMove ==
  ASSUME FilesInv, NEW u \in DOMAIN scan, Fetch(u) \/ ScanRaises(u) \/ Redeliver(u)
  PROVE  FilesInv'
<1>1. scan[u] \in Job /\ scan[u].tries \in 0..MaxTries
  BY RowsAndJobs DEF FilesInv
<1>2. CASE Fetch(u)
  <2>1. scan[u].tries + 1 \in 0..MaxTries
    BY <1>1, <1>2, UploadsAssumption DEF Fetch, Deliverable
  <2>2. PICK state \in {"fetched", "raised"} : JobMove(u, state, scan[u].tries + 1)
    BY <1>1, <1>2 DEF Fetch, Job, JobMove
  <2>3. QED
    BY <2>1, <2>2, OneJobMoves
<1>3. CASE ScanRaises(u)
  <2>1. JobMove(u, "raised", scan[u].tries)
    BY <1>1, <1>3 DEF ScanRaises, Job, JobMove
  <2>2. QED
    BY <1>1, <2>1, OneJobMoves
<1>4. CASE Redeliver(u)
  <2>1. JobMove(u, "queued", scan[u].tries)
    BY <1>1, <1>4 DEF Redeliver, Job, JobMove
  <2>2. QED
    BY <1>1, <2>1, OneJobMoves
<1>5. QED
  BY <1>2, <1>3, <1>4

\* The queue forgets a job that is over: its row has a verdict.
LEMMA JobEnds ==
  ASSUME FilesInv, NEW u \in DOMAIN scan, ScanEnds(u)
  PROVE  FilesInv'
<1>1. /\ Typed /\ u \in Rows /\ scan[u] \in Job /\ uploads[u] \in Upload
      /\ scan[u].tries \in 0..MaxTries
  BY RowsAndJobs DEF FilesInv
<1>2. CASE scan[u].state = "queued"
  <2>1. JobMove(u, "raised", scan[u].tries)
    BY <1>1, <1>2 DEF ScanEnds, Job, JobMove
  <2>2. QED
    BY <1>1, <2>1, OneJobMoves
<1>3. CASE scan[u].state = "over"
  <2>. DEFINE acked == [scan[u] EXCEPT !.state = "acked"]
  <2>1. acked \in Job /\ acked.state = "acked"
    BY <1>1 DEF Job, ScanStates
  <2>2. JobChange(u, acked, uploads[u]) /\ UNCHANGED <<uploads, quarantine, moved, idemVars>>
    BY <1>1, <1>3 DEF ScanEnds, Typed, TypeOK, JobChange
  <2>. HIDE DEF acked
  <2>3. /\ Typed' /\ DOMAIN uploads' = DOMAIN uploads
        /\ \A v \in Rows : scan'[v] = IF v = u THEN acked ELSE scan[v]
    BY <1>1, <2>1, <2>2, OneJobChanged
  <2>4. RowsFollowRequests' /\ ReadableIsClean' /\ InfectedIsGone' /\ HarmlessIsKept'
    BY <2>2 DEF FilesInv, RowsFollowRequests, ReadableIsClean, InfectedIsGone,
                HarmlessIsKept, Download, idemVars, Rows
  <2>5. JobsFollowPlans'
    BY <2>1, <2>2, <2>3 DEF FilesInv, JobsFollowPlans, Rows
  <2>6. uploads[u].status # "pending"
    BY <1>1, <1>3 DEF FilesInv, PendingIsExplained
  <2>7. PendingIsExplained'
    BY <2>2, <2>3, <2>6 DEF FilesInv, PendingIsExplained, idemVars, Rows
  <2>8. QED
    BY <2>3, <2>4, <2>5, <2>7 DEF FilesInv
<1>4. QED
  BY <1>2, <1>3 DEF ScanEnds

\* The scanner's answer sets the plan; nothing has been done yet.
LEMMA ObjectScanned ==
  ASSUME FilesInv, NEW u \in DOMAIN scan, ScanObject(u)
  PROVE  FilesInv'
<1>1. /\ Typed /\ u \in Rows /\ scan[u] \in Job /\ uploads[u] \in Upload
  BY RowsAndJobs DEF FilesInv
<1>2. PICK status \in Verdicts(uploads[u].object) :
        scan' = [scan EXCEPT ![u] = [scan[u] EXCEPT !.state = "acting", !.status = status,
                                                    !.plan = Plan(status)]]
  BY <1>1 DEF ScanObject, Job
<1>. DEFINE job == [scan[u] EXCEPT !.state = "acting", !.status = status,
                                   !.plan = Plan(status)]
<1>3. /\ job \in Job
      /\ job.state = "acting" /\ job.status = status /\ job.plan = Plan(status)
  <2>1. status \in {"clean", "infected", "error"}
    BY DEF Verdicts
  <2>2. Plan(status) \in Plans
    BY <2>1 DEF Plan, Plans
  <2>3. QED
    BY <1>1, <2>1, <2>2 DEF Job, ScanStates, UploadStatus
<1>4. JobChange(u, job, uploads[u]) /\ UNCHANGED <<uploads, quarantine, moved, idemVars>>
  <2>1. scan' = [scan EXCEPT ![u] = job]
    BY <1>2
  <2>2. UNCHANGED <<uploads, quarantine, moved, idemVars>>
    BY DEF ScanObject
  <2>3. uploads' = [uploads EXCEPT ![u] = uploads[u]]
    BY <1>1, <2>2 DEF Typed, TypeOK
  <2>. HIDE DEF job
  <2>4. QED
    BY <1>1, <2>1, <2>2, <2>3 DEF Typed, TypeOK, JobChange
<1>. HIDE DEF job
<1>5. /\ Typed' /\ DOMAIN uploads' = DOMAIN uploads
      /\ \A v \in Rows : scan'[v] = IF v = u THEN job ELSE scan[v]
  BY <1>1, <1>3, <1>4, OneJobChanged
<1>6. RowsFollowRequests' /\ ReadableIsClean' /\ InfectedIsGone' /\ HarmlessIsKept'
  BY <1>4 DEF FilesInv, RowsFollowRequests, ReadableIsClean, InfectedIsGone,
              HarmlessIsKept, Download, idemVars, Rows
<1>7. JobsFollowPlans'
  BY <1>3, <1>4, <1>5 DEF FilesInv, JobsFollowPlans, Rows
<1>8. PendingIsExplained'
  BY <1>3, <1>4, <1>5 DEF FilesInv, PendingIsExplained, idemVars, Rows
<1>9. QED
  BY <1>5, <1>6, <1>7, <1>8 DEF FilesInv

\* A job at work: how far it is, by the step it takes next.
LEMMA JobAtStep ==
  ASSUME FilesInv, NEW u \in DOMAIN scan, scan[u].state = "acting"
  PROVE  /\ Head(scan[u].plan) = "copy" =>
              /\ scan[u].status = "clean" /\ uploads[u].object \in Harmless
              /\ Tail(scan[u].plan) = <<"delete", "commit">>
         /\ Head(scan[u].plan) = "delete" =>
              /\ Tail(scan[u].plan) = <<"commit">>
              /\ \/ /\ scan[u].status = "clean" /\ uploads[u].object \in Harmless
                    /\ uploads[u].object \in moved
                 \/ scan[u].status = "infected" /\ uploads[u].object \notin Harmless
         /\ Head(scan[u].plan) = "commit" =>
              \/ /\ scan[u].status = "clean" /\ uploads[u].object \in Harmless
                 /\ uploads[u].object \in moved
              \/ scan[u].status = "infected" /\ uploads[u].object \notin quarantine
              \/ scan[u].status = "error"
<1>1. u \in Rows
  BY RowsAndJobs DEF FilesInv
<1>2. /\ scan[u].status \in Verdicts(uploads[u].object)
      /\ \/ scan[u].plan = Plan(scan[u].status)
         \/ /\ scan[u].status = "clean" /\ uploads[u].object \in moved
            /\ scan[u].plan \in {<<"delete", "commit">>, <<"commit">>}
         \/ /\ scan[u].status = "infected" /\ uploads[u].object \notin quarantine
            /\ scan[u].plan = <<"commit">>
  BY <1>1 DEF FilesInv, JobsFollowPlans
<1>3. /\ scan[u].status \in {"clean", "infected", "error"}
      /\ scan[u].status = "clean" => uploads[u].object \in Harmless
      /\ scan[u].status = "infected" => uploads[u].object \notin Harmless
  BY <1>2 DEF Verdicts
<1>4. scan[u].plan \in Plans \ {<<>>}
  BY <1>2, <1>3 DEF Plan, Plans
<1>5. /\ Plan("clean") = <<"copy", "delete", "commit">>
      /\ Plan("infected") = <<"delete", "commit">>
      /\ Plan("error") = <<"commit">>
  BY DEF Plan
<1>6. /\ Head(scan[u].plan) = "copy" =>
           /\ scan[u].plan = <<"copy", "delete", "commit">>
           /\ Tail(scan[u].plan) = <<"delete", "commit">>
      /\ Head(scan[u].plan) = "delete" =>
           /\ scan[u].plan = <<"delete", "commit">> /\ Tail(scan[u].plan) = <<"commit">>
      /\ Head(scan[u].plan) = "commit" => scan[u].plan = <<"commit">>
  BY <1>4, PlanSteps
<1>7. /\ <<"copy", "delete", "commit">> # <<"delete", "commit">>
      /\ <<"copy", "delete", "commit">> # <<"commit">>
      /\ <<"delete", "commit">> # <<"commit">>
  OBVIOUS
<1>8. CASE Head(scan[u].plan) = "copy"
  BY <1>2, <1>3, <1>5, <1>6, <1>7, <1>8
<1>9. CASE Head(scan[u].plan) = "delete"
  BY <1>2, <1>3, <1>5, <1>6, <1>7, <1>9
<1>10. CASE Head(scan[u].plan) = "commit"
  BY <1>2, <1>3, <1>5, <1>6, <1>7, <1>10
<1>11. QED
  BY <1>8, <1>9, <1>10

\* The object is copied: it is harmless, and still in quarantine.
LEMMA ObjectCopied ==
  ASSUME FilesInv, NEW u \in DOMAIN scan, CopyObject(u)
  PROVE  FilesInv'
<1>1. /\ Typed /\ u \in Rows /\ scan[u] \in Job /\ uploads[u] \in Upload
      /\ uploads[u].object \in Requests
  BY RowsAndJobs DEF FilesInv
<1>2. /\ scan[u].status = "clean" /\ uploads[u].object \in Harmless
      /\ Tail(scan[u].plan) = <<"delete", "commit">>
  BY JobAtStep DEF CopyObject, At
<1>. DEFINE job == [scan[u] EXCEPT !.plan = <<"delete", "commit">>]
<1>3. /\ job \in Job /\ job.state = scan[u].state
      /\ job.status = "clean" /\ job.plan = <<"delete", "commit">>
  BY <1>1, <1>2 DEF Job, Plans
<1>4. JobChange(u, job, uploads[u]) /\ UNCHANGED <<uploads, quarantine, idemVars>>
  <2>1. scan' = [scan EXCEPT ![u] = job]
    BY <1>2 DEF CopyObject, StepDone
  <2>2. UNCHANGED <<uploads, quarantine, idemVars>>
    BY DEF CopyObject
  <2>3. uploads' = [uploads EXCEPT ![u] = uploads[u]]
    BY <1>1, <2>2 DEF Typed, TypeOK
  <2>4. moved' \subseteq Requests /\ quarantine' \subseteq Requests
    BY <1>1 DEF CopyObject, Typed, TypeOK
  <2>. HIDE DEF job
  <2>5. QED
    BY <2>1, <2>2, <2>3, <2>4 DEF JobChange
<1>. HIDE DEF job
<1>5. /\ Typed' /\ DOMAIN uploads' = DOMAIN uploads
      /\ \A v \in Rows : scan'[v] = IF v = u THEN job ELSE scan[v]
  BY <1>1, <1>3, <1>4, OneJobChanged
<1>6. moved' = moved \cup {uploads[u].object}
  BY DEF CopyObject
<1>7. RowsFollowRequests' /\ ReadableIsClean' /\ InfectedIsGone' /\ HarmlessIsKept'
  BY <1>2, <1>4, <1>6 DEF FilesInv, RowsFollowRequests, ReadableIsClean, InfectedIsGone,
              HarmlessIsKept, Download, idemVars, Rows
<1>8. JobsFollowPlans'
  BY <1>2, <1>3, <1>4, <1>5, <1>6 DEF FilesInv, JobsFollowPlans, Rows, Verdicts
<1>9. PendingIsExplained'
  BY <1>3, <1>4, <1>5 DEF FilesInv, PendingIsExplained, idemVars, Rows
<1>10. QED
  BY <1>5, <1>7, <1>8, <1>9 DEF FilesInv

\* The object is deleted: it is copied before, or it is not harmless.
LEMMA ObjectDeleted ==
  ASSUME FilesInv, NEW u \in DOMAIN scan, DeleteObject(u)
  PROVE  FilesInv'
<1>1. /\ Typed /\ u \in Rows /\ scan[u] \in Job /\ uploads[u] \in Upload
      /\ uploads[u].object \in Requests
  BY RowsAndJobs DEF FilesInv
<1>2. /\ Tail(scan[u].plan) = <<"commit">>
      /\ \/ /\ scan[u].status = "clean" /\ uploads[u].object \in Harmless
            /\ uploads[u].object \in moved
         \/ scan[u].status = "infected" /\ uploads[u].object \notin Harmless
  BY JobAtStep DEF DeleteObject, At
<1>. DEFINE job == [scan[u] EXCEPT !.plan = <<"commit">>]
<1>3. /\ job \in Job /\ job.state = scan[u].state
      /\ job.status = scan[u].status /\ job.plan = <<"commit">>
  BY <1>1, <1>2 DEF Job, Plans
<1>4. JobChange(u, job, uploads[u]) /\ UNCHANGED <<uploads, moved, idemVars>>
  <2>1. scan' = [scan EXCEPT ![u] = job]
    BY <1>2 DEF DeleteObject, StepDone
  <2>2. UNCHANGED <<uploads, moved, idemVars>>
    BY DEF DeleteObject
  <2>3. uploads' = [uploads EXCEPT ![u] = uploads[u]]
    BY <1>1, <2>2 DEF Typed, TypeOK
  <2>4. moved' \subseteq Requests /\ quarantine' \subseteq Requests
    BY <1>1 DEF DeleteObject, Typed, TypeOK
  <2>. HIDE DEF job
  <2>5. QED
    BY <2>1, <2>2, <2>3, <2>4 DEF JobChange
<1>. HIDE DEF job
<1>5. /\ Typed' /\ DOMAIN uploads' = DOMAIN uploads
      /\ \A v \in Rows : scan'[v] = IF v = u THEN job ELSE scan[v]
  BY <1>1, <1>3, <1>4, OneJobChanged
<1>6. quarantine' = quarantine \ {uploads[u].object}
  BY DEF DeleteObject
<1>7. RowsFollowRequests'
  <2>1. \A r \in Requests : pc[r] = "put" => r # uploads[u].object
    BY <1>1 DEF FilesInv, RowsFollowRequests, Passed
  <2>2. QED
    BY <2>1, <1>4, <1>6 DEF FilesInv, RowsFollowRequests, idemVars, Rows
<1>8. ReadableIsClean' /\ InfectedIsGone'
  BY <1>4, <1>6 DEF FilesInv, ReadableIsClean, InfectedIsGone, Download, Rows
<1>9. HarmlessIsKept'
  BY <1>2, <1>4, <1>6 DEF FilesInv, HarmlessIsKept, Rows
<1>10. JobsFollowPlans'
  <2>1. ASSUME NEW v \in Rows, v # u, scan[v].state = "acting"
        PROVE  /\ scan[v].status \in Verdicts(uploads[v].object)
               /\ \/ scan[v].plan = Plan(scan[v].status)
                  \/ /\ scan[v].status = "clean" /\ uploads[v].object \in moved
                     /\ scan[v].plan \in {<<"delete", "commit">>, <<"commit">>}
                  \/ /\ scan[v].status = "infected" /\ uploads[v].object \notin quarantine'
                     /\ scan[v].plan = <<"commit">>
    BY <1>6, <2>1 DEF FilesInv, JobsFollowPlans
  <2>2. scan[u].status \in Verdicts(uploads[u].object)
    BY <1>1 DEF FilesInv, JobsFollowPlans, DeleteObject, At
  <2>3. QED
    BY <1>2, <1>3, <1>4, <1>5, <1>6, <2>1, <2>2 DEF JobsFollowPlans, Rows
<1>11. PendingIsExplained'
  BY <1>3, <1>4, <1>5 DEF FilesInv, PendingIsExplained, idemVars, Rows
<1>12. QED
  BY <1>5, <1>7, <1>8, <1>9, <1>10, <1>11 DEF FilesInv

\* The verdict is written: what it promises of the object has been done.
LEMMA ScanCommitted ==
  ASSUME FilesInv, NEW u \in DOMAIN scan, CommitScan(u)
  PROVE  FilesInv'
<1>1. /\ Typed /\ u \in Rows /\ scan[u] \in Job /\ uploads[u] \in Upload
      /\ uploads[u].object \in Requests
  BY RowsAndJobs DEF FilesInv
<1>2. \/ /\ scan[u].status = "clean" /\ uploads[u].object \in Harmless
         /\ uploads[u].object \in moved
      \/ scan[u].status = "infected" /\ uploads[u].object \notin quarantine
      \/ scan[u].status = "error"
  BY JobAtStep DEF CommitScan, At
<1>. DEFINE job == [scan[u] EXCEPT !.state = "over"]
            row == [uploads[u] EXCEPT !.status = scan[u].status,
                       !.movedTo = uploads[u].movedTo \/ scan[u].status = "clean"]
<1>3. job \in Job /\ job.state = "over"
  BY <1>1 DEF Job, ScanStates
<1>4. /\ row \in Upload /\ row.object = uploads[u].object
      /\ row.status = scan[u].status
      /\ scan[u].status = "clean" => row.movedTo
  <2>1. (uploads[u].movedTo \/ scan[u].status = "clean") \in BOOLEAN
    OBVIOUS
  <2>2. scan[u].status \in UploadStatus
    BY <1>2 DEF UploadStatus
  <2>3. QED
    BY <1>1, <2>1, <2>2 DEF Upload
<1>5. JobChange(u, job, row) /\ UNCHANGED <<quarantine, moved, idemVars>>
  <2>1. scan' = [scan EXCEPT ![u] = job]
    BY DEF CommitScan
  <2>2. uploads' = [uploads EXCEPT ![u] = row]
    BY <1>1 DEF CommitScan, Written, Upload
  <2>3. UNCHANGED <<quarantine, moved, idemVars>>
    BY DEF CommitScan
  <2>. HIDE DEF job, row
  <2>4. QED
    BY <1>1, <2>1, <2>2, <2>3 DEF JobChange, Typed, TypeOK
<1>. HIDE DEF job, row
<1>6. /\ Typed' /\ DOMAIN uploads' = DOMAIN uploads
      /\ \A v \in Rows : uploads'[v] = IF v = u THEN row ELSE uploads[v]
      /\ \A v \in Rows : scan'[v] = IF v = u THEN job ELSE scan[v]
  BY <1>1, <1>3, <1>4, <1>5, OneJobChanged
<1>7. \A v \in Rows : uploads'[v].object = uploads[v].object
  BY <1>4, <1>6
<1>8. RowsFollowRequests' /\ HarmlessIsKept'
  BY <1>5, <1>6, <1>7 DEF FilesInv, RowsFollowRequests, HarmlessIsKept, idemVars, Rows
<1>9. ReadableIsClean' /\ InfectedIsGone'
  <2>1. ReadableIsClean'
    BY <1>2, <1>4, <1>5, <1>6 DEF FilesInv, ReadableIsClean, Download, Rows
  <2>2. InfectedIsGone'
    BY <1>2, <1>4, <1>5, <1>6 DEF FilesInv, InfectedIsGone, Rows
  <2>3. QED
    BY <2>1, <2>2
<1>10. JobsFollowPlans'
  BY <1>3, <1>5, <1>6, <1>7 DEF FilesInv, JobsFollowPlans, Rows
<1>11. PendingIsExplained'
  BY <1>2, <1>3, <1>4, <1>5, <1>6, <1>7 DEF FilesInv, PendingIsExplained, idemVars, Rows
<1>12. QED
  BY <1>6, <1>8, <1>9, <1>10, <1>11 DEF FilesInv

-----------------------------------------------------------------------------
(* The steps of a request *)

Labels == {"idle", "handle", "put", "committed", "handled", "answered", "failed", "stopped"}

\* Where a request may go while rows, objects and jobs stay as they are.
LEMMA RequestMoves ==
  ASSUME FilesInv, UNCHANGED fileVars,
         cache' \in [Keys -> Nat], reply' \in [Requests -> Nat],
         NEW r \in Requests, NEW label \in Labels, pc' = [pc EXCEPT ![r] = label],
         label \notin {"put", "committed", "handled"},
         Passed(pc[r]) => Passed(label),
         pc[r] = "committed" => label \in {"failed", "stopped"},
         pc[r] \notin {"failed", "stopped"}
  PROVE  FilesInv'
<1>1. Typed' /\ pc \in [Requests -> Labels] /\ pc' \in [Requests -> Labels]
  BY DEF FilesInv, Typed, TypeOK, JobsOK, fileVars, Rows, Labels
<1>2. \A u \in Rows : uploads[u].object \in Requests
  BY RowsAndJobs DEF FilesInv, Typed, JobsOK, Rows
<1>3. RowsFollowRequests'
  BY <1>1, <1>2 DEF FilesInv, RowsFollowRequests, Rows, fileVars, Passed
<1>4. JobsFollowPlans' /\ ReadableIsClean' /\ InfectedIsGone' /\ HarmlessIsKept'
  BY DEF FilesInv, JobsFollowPlans, ReadableIsClean, InfectedIsGone,
         HarmlessIsKept, Download, fileVars, Rows
<1>5. PendingIsExplained'
  BY <1>1, <1>2 DEF FilesInv, PendingIsExplained, Rows, fileVars
<1>6. QED
  BY <1>1, <1>3, <1>4, <1>5 DEF FilesInv

\* The object is put before there is a row to name it.
LEMMA ObjectPut ==
  ASSUME FilesInv, NEW r \in Requests, PutObject(r)
  PROVE  FilesInv'
<1>1. /\ pc[r] = "handle" /\ pc' = [pc EXCEPT ![r] = "put"]
      /\ quarantine' = quarantine \cup {r}
      /\ UNCHANGED <<cache, reply, uploads, moved, scan>>
  BY DEF PutObject, Goto
<1>2. Typed' /\ pc \in [Requests -> Labels]
  BY <1>1 DEF FilesInv, Typed, TypeOK, JobsOK, Rows, Labels
<1>3. \A u \in Rows : uploads[u].object \in Requests /\ uploads[u].object # r
  <2>1. \A u \in Rows : uploads[u].object \in Requests
    BY RowsAndJobs DEF FilesInv, Typed, JobsOK, Rows
  <2>2. QED
    BY <1>1, <2>1 DEF FilesInv, RowsFollowRequests, Passed
<1>4. RowsFollowRequests'
  BY <1>1, <1>2, <1>3 DEF FilesInv, RowsFollowRequests, Rows
<1>5. ReadableIsClean' /\ InfectedIsGone' /\ HarmlessIsKept'
  BY <1>1, <1>3 DEF FilesInv, ReadableIsClean, InfectedIsGone, HarmlessIsKept, Download, Rows
<1>6. JobsFollowPlans'
  BY <1>1, <1>3 DEF FilesInv, JobsFollowPlans, Rows
<1>7. PendingIsExplained'
  BY <1>1, <1>2, <1>3 DEF FilesInv, PendingIsExplained, Rows
<1>8. QED
  BY <1>2, <1>4, <1>5, <1>6, <1>7 DEF FilesInv

\* The row is committed: the object it names is in quarantine.
LEMMA UploadCommitted ==
  ASSUME FilesInv, NEW r \in Requests, CommitUpload(r)
  PROVE  FilesInv'
<1>. DEFINE row == [object |-> r, tenant |-> WorkspaceOf[r],
                    status |-> "pending", movedTo |-> FALSE]
            job == [state |-> "absent", plan |-> <<>>, status |-> "pending", tries |-> 0]
            n == Len(uploads) + 1
<1>1. /\ pc[r] = "put" /\ pc' = [pc EXCEPT ![r] = "committed"]
      /\ uploads' = Append(uploads, row) /\ scan' = Append(scan, job)
      /\ UNCHANGED <<cache, reply, quarantine, moved>>
  BY DEF CommitUpload, Goto
<1>2. /\ uploads \in Seq(Upload) /\ scan \in Seq(Job) /\ DOMAIN scan = Rows
      /\ Len(scan) = Len(uploads) /\ pc \in [Requests -> Labels]
  BY DEF FilesInv, Typed, TypeOK, JobsOK, Rows, Labels
<1>3. row \in Upload /\ row.object = r /\ row.status = "pending"
  BY DEF Upload, UploadStatus
<1>4. job \in Job /\ job.state = "absent" /\ job.tries = 0
  BY UploadsAssumption DEF Job, ScanStates, UploadStatus, Plans
<1>. HIDE DEF row, job
<1>5. /\ uploads' \in Seq(Upload) /\ Rows' = Rows \cup {n} /\ n \notin Rows
      /\ Len(uploads') = n
      /\ \A u \in Rows : uploads'[u] = uploads[u]
      /\ uploads'[n] = row
  BY <1>1, <1>2, <1>3, AppendOne DEF Rows
<1>6. /\ scan' \in Seq(Job) /\ DOMAIN scan' = Rows' /\ Len(scan') = n
      /\ \A u \in Rows : scan'[u] = scan[u]
      /\ scan'[n] = job
  BY <1>1, <1>2, <1>4, <1>5, AppendOne DEF Rows
<1>. HIDE DEF n
<1>7. Typed'
  <2>1. \A u \in Rows' : scan'[u].state \in ScanStates /\ scan'[u].tries \in 0..MaxTries
    <3>1. \A u \in Rows' : scan'[u] \in Job
      BY <1>6, ElementOf
    <3>2. QED
      BY <3>1 DEF Job
  <2>2. TypeOK'
    BY <1>1, <1>5, <1>6, <2>1 DEF FilesInv, Typed, TypeOK, Labels
  <2>3. QED
    BY <1>5, <1>6, <2>2 DEF Typed, JobsOK, Rows
<1>8. \A u \in Rows : uploads[u].object \in Requests /\ uploads[u].object # r
  <2>1. \A u \in Rows : uploads[u].object \in Requests
    BY RowsAndJobs DEF FilesInv, Typed, JobsOK, Rows
  <2>2. QED
    BY <1>1, <2>1 DEF FilesInv, RowsFollowRequests, Passed
<1>9. r \in quarantine
  BY <1>1 DEF FilesInv, RowsFollowRequests
<1>10. RowsFollowRequests'
  <2>1. \A u \in Rows' : Passed(pc[uploads[u].object])'
    BY <1>1, <1>2, <1>3, <1>5, <1>8 DEF FilesInv, RowsFollowRequests, Passed
  <2>2. \A u, v \in Rows' : uploads'[u].object = uploads'[v].object => u = v
    BY <1>3, <1>5, <1>8 DEF FilesInv, RowsFollowRequests
  <2>3. \A q \in Requests : pc'[q] \in {"committed", "handled"} =>
          \E u \in Rows' : uploads'[u].object = q
    BY <1>1, <1>2, <1>3, <1>5 DEF FilesInv, RowsFollowRequests
  <2>4. \A q \in Requests : pc'[q] = "put" => q \in quarantine'
    BY <1>1, <1>2 DEF FilesInv, RowsFollowRequests
  <2>5. QED
    BY <2>1, <2>2, <2>3, <2>4 DEF RowsFollowRequests
<1>11. ReadableIsClean' /\ InfectedIsGone' /\ HarmlessIsKept'
  BY <1>1, <1>3, <1>5, <1>9 DEF FilesInv, ReadableIsClean, InfectedIsGone,
                                HarmlessIsKept, Download
<1>12. JobsFollowPlans'
  BY <1>1, <1>4, <1>5, <1>6 DEF FilesInv, JobsFollowPlans
<1>13. PendingIsExplained'
  BY <1>1, <1>2, <1>3, <1>4, <1>5, <1>6, <1>8 DEF FilesInv, PendingIsExplained
<1>14. QED
  BY <1>7, <1>10, <1>11, <1>12, <1>13 DEF FilesInv

\* The job is enqueued for the row of its request, which is the only one.
LEMMA RowOfRequest ==
  ASSUME FilesInv, NEW r \in Requests, pc[r] \in {"committed", "handled"}
  PROVE  /\ RowOf(r) \in Rows /\ uploads[RowOf(r)].object = r
         /\ \A u \in Rows : uploads[u].object = r => u = RowOf(r)
<1>1. \E u \in DOMAIN uploads : uploads[u].object = r
  BY DEF FilesInv, RowsFollowRequests, Rows
<1>2. RowOf(r) \in DOMAIN uploads /\ uploads[RowOf(r)].object = r
  BY <1>1 DEF RowOf
<1>3. QED
  BY <1>2 DEF FilesInv, RowsFollowRequests, Rows

LEMMA ScanEnqueued ==
  ASSUME FilesInv, NEW r \in Requests, EnqueueScan(r)
  PROVE  FilesInv'
<1>. DEFINE u == RowOf(r)
            job == [scan[u] EXCEPT !.state = "queued"]
<1>1. /\ pc[r] = "committed" /\ pc' = [pc EXCEPT ![r] = "handled"]
      /\ UNCHANGED <<cache, reply, uploads, quarantine, moved>>
  BY DEF EnqueueScan, Goto
<1>2. /\ u \in Rows /\ uploads[u].object = r
      /\ \A v \in Rows : uploads[v].object = r => v = u
  BY <1>1, RowOfRequest
<1>3. /\ scan \in Seq(Job) /\ DOMAIN scan = Rows /\ Len(scan) = Len(uploads)
      /\ pc \in [Requests -> Labels]
  BY DEF FilesInv, Typed, TypeOK, JobsOK, Rows, Labels
<1>4. scan' = [scan EXCEPT ![u] = job]
  BY DEF EnqueueScan
<1>5. job \in Job /\ job.state = "queued" /\ job.tries \in 0..MaxTries
  <2>1. scan[u] \in Job
    BY <1>2, <1>3, ElementOf
  <2>2. QED
    BY <2>1 DEF Job, ScanStates
<1>. HIDE DEF u, job
<1>6. /\ scan' \in Seq(Job) /\ DOMAIN scan' = Rows /\ Len(scan') = Len(scan)
      /\ \A v \in Rows : scan'[v] = IF v = u THEN job ELSE scan[v]
  BY <1>2, <1>3, <1>4, <1>5, ReplaceOne
<1>7. Typed'
  <2>1. \A v \in Rows : scan'[v].state \in ScanStates /\ scan'[v].tries \in 0..MaxTries
    BY <1>5, <1>6 DEF FilesInv, Typed, TypeOK, ScanStates
  <2>2. TypeOK'
    BY <1>1, <1>3, <1>6, <2>1 DEF FilesInv, Typed, TypeOK, Labels, Rows
  <2>3. QED
    BY <1>1, <1>6, <2>2 DEF Typed, JobsOK, Rows
<1>8. \A v \in Rows : uploads[v].object \in Requests
  BY RowsAndJobs DEF FilesInv, Typed, JobsOK, Rows
<1>9. RowsFollowRequests'
  BY <1>1, <1>2, <1>3, <1>8 DEF FilesInv, RowsFollowRequests, Rows, Passed
<1>10. ReadableIsClean' /\ InfectedIsGone' /\ HarmlessIsKept'
  BY <1>1 DEF FilesInv, ReadableIsClean, InfectedIsGone, HarmlessIsKept, Download, Rows
<1>11. JobsFollowPlans'
  BY <1>1, <1>5, <1>6 DEF FilesInv, JobsFollowPlans, Rows
<1>12. PendingIsExplained'
  BY <1>1, <1>2, <1>3, <1>5, <1>6, <1>8 DEF FilesInv, PendingIsExplained, Rows
<1>13. QED
  BY <1>7, <1>9, <1>10, <1>11, <1>12 DEF FilesInv

-----------------------------------------------------------------------------
(* Answers *)

\* Rows are only added, and keep the object they name: what was answered and
\* what is kept under a key stay rows of the key.
RowsStay == Rows \subseteq Rows' /\ \A u \in Rows : uploads'[u].object = uploads[u].object

LEMMA AnswersStay ==
  ASSUME AnswersAreRows, RowsStay, UNCHANGED reply,
         \A q \in Requests : pc[q] = "answered" => pc'[q] = "answered",
         \A u \in Rows' \ Rows : pc[uploads'[u].object] # "answered",
         \A k \in Keys : cache'[k] \in {NoAnswer, cache[k]}
  PROVE  AnswersAreRows'
<1>2. \A q \in Requests : HasKey(q) => CacheKey(q) \in Keys
  BY DEF Keys
<1>3. \A q \in Requests : reply'[q] # NoAnswer =>
        /\ pc'[q] = "answered" /\ reply'[q] \in Rows'
        /\ KeyOf[uploads'[reply'[q]].object] = KeyOf[q]
        /\ \A u \in Rows' : uploads'[u].object = q => reply'[q] = u
  BY DEF AnswersAreRows, RowsStay
<1>4. \A q \in Requests : HasKey(q) /\ cache'[CacheKey(q)] # NoAnswer =>
        /\ cache'[CacheKey(q)] \in Rows'
        /\ KeyOf[uploads'[cache'[CacheKey(q)]].object] = KeyOf[q]
  BY <1>2 DEF AnswersAreRows, RowsStay
<1>5. QED
  BY <1>3, <1>4 DEF AnswersAreRows

\* A request is answered, with a row of its key.
LEMMA AnswerGiven ==
  ASSUME FilesInv, AnswersAreRows, UNCHANGED fileVars,
         NEW r \in Requests, NEW id \in Rows,
         pc' = [pc EXCEPT ![r] = "answered"], reply' = [reply EXCEPT ![r] = id],
         KeyOf[uploads[id].object] = KeyOf[r],
         \A u \in Rows : uploads[u].object = r => id = u,
         \/ UNCHANGED cache
         \/ cache' = IF HasKey(r) THEN [cache EXCEPT ![CacheKey(r)] = id] ELSE cache
  PROVE  AnswersAreRows'
<1>1. /\ pc \in [Requests -> Labels] /\ reply \in [Requests -> Nat]
      /\ cache \in [Keys -> Nat] /\ UNCHANGED uploads /\ Rows' = Rows
  BY DEF FilesInv, Typed, TypeOK, Labels, fileVars, Rows
<1>2. \A q \in Requests : HasKey(q) => CacheKey(q) \in Keys
  BY DEF Keys
<1>3. \A q \in Requests : reply'[q] # NoAnswer =>
        /\ pc'[q] = "answered" /\ reply'[q] \in Rows'
        /\ KeyOf[uploads'[reply'[q]].object] = KeyOf[q]
        /\ \A u \in Rows' : uploads'[u].object = q => reply'[q] = u
  BY <1>1 DEF AnswersAreRows
<1>4. ASSUME NEW q \in Requests, HasKey(q), cache'[CacheKey(q)] # NoAnswer
      PROVE  /\ cache'[CacheKey(q)] \in Rows'
             /\ KeyOf[uploads'[cache'[CacheKey(q)]].object] = KeyOf[q]
  <2>1. CASE cache'[CacheKey(q)] = cache[CacheKey(q)]
    BY <1>1, <1>4, <2>1 DEF AnswersAreRows
  <2>2. CASE cache'[CacheKey(q)] # cache[CacheKey(q)]
    <3>1. CacheKey(q) = CacheKey(r) /\ cache'[CacheKey(q)] = id
      BY <1>1, <1>2, <1>4, <2>2
    <3>2. KeyOf[q] = KeyOf[r]
      BY <3>1 DEF CacheKey
    <3>3. QED
      BY <1>1, <3>1, <3>2
  <2>3. QED
    BY <2>1, <2>2
<1>5. QED
  BY <1>3, <1>4 DEF AnswersAreRows

-----------------------------------------------------------------------------
(* Every step *)

LEMMA UploadsInvInit == Init => UploadsInv
<1> SUFFICES ASSUME Init PROVE UploadsInv
  OBVIOUS
<1> USE DEF Init, IdemInit, FilesInit
<1>1. uploads = <<>> /\ scan = <<>> /\ Rows = {}
  BY DEF Rows
<1>2. /\ cache \in [Keys -> Nat] /\ \A k \in Keys : cache[k] = NoAnswer
      /\ reply \in [Requests -> Nat] /\ \A r \in Requests : reply[r] = NoAnswer
      /\ pc \in [Requests -> Labels] /\ \A r \in Requests : pc[r] = "idle"
      /\ moved = {} /\ quarantine = {}
  BY DEF NoAnswer, Labels
<1>3. Typed
  <2>1. uploads \in Seq(Upload) /\ scan \in Seq(Job) /\ Len(scan) = Len(uploads)
    BY <1>1
  <2>2. QED
    BY <1>1, <1>2, <2>1 DEF Typed, TypeOK, JobsOK, Labels
<1>4. FilesInv
  BY <1>1, <1>2, <1>3 DEF FilesInv, RowsFollowRequests, JobsFollowPlans, ReadableIsClean,
       InfectedIsGone, HarmlessIsKept, PendingIsExplained
<1>5. AnswersAreRows
  <2>1. \A r \in Requests : HasKey(r) => CacheKey(r) \in Keys
    BY DEF Keys
  <2>2. QED
    BY <1>2, <2>1 DEF AnswersAreRows
<1>6. QED
  BY <1>4, <1>5 DEF UploadsInv

\* A job's step leaves requests, their answers and what rows name alone.
LEMMA JobStepInv ==
  ASSUME UploadsInv, NEW u \in DOMAIN scan, ScanStep(u) \/ ScanRaises(u) \/ Redeliver(u)
  PROVE  UploadsInv'
<1>1. FilesInv'
  BY JobsMove, ObjectScanned, ObjectCopied, ObjectDeleted, ScanCommitted, JobEnds
     DEF ScanStep, UploadsInv
<1>2. UNCHANGED idemVars
  BY DEF ScanStep, ScanRaises, Redeliver, Fetch, ScanObject, CopyObject, DeleteObject,
         CommitScan, ScanEnds
<1>3. RowsStay /\ Rows' = Rows
  <2>1. CASE UNCHANGED uploads
    BY <2>1 DEF RowsStay, Rows
  <2>2. CASE CommitScan(u)
    <3>1. uploads \in Seq(Upload) /\ u \in Rows /\ uploads[u] \in Upload
      BY RowsAndJobs DEF UploadsInv, FilesInv, Typed, TypeOK
    <3>2. QED
      BY <2>2, <3>1 DEF RowsStay, Rows, CommitScan, Upload
  <2>3. QED
    BY <2>1, <2>2 DEF ScanStep, ScanRaises, Redeliver, Fetch, ScanObject, CopyObject,
                      DeleteObject, ScanEnds
<1>4. AnswersAreRows'
  BY <1>2, <1>3, AnswersStay DEF UploadsInv, idemVars
<1>5. QED
  BY <1>1, <1>4 DEF UploadsInv

\* A request comes in: its answer is that of an earlier one, or it is handled.
LEMMA ReceiveInv ==
  ASSUME UploadsInv, NEW r \in Requests, Receive(r), UNCHANGED fileVars
  PROVE  UploadsInv'
<1>. USE DEF UploadsInv
<1>1. /\ pc \in [Requests -> Labels] /\ cache \in [Keys -> Nat] /\ UNCHANGED cache
      /\ reply \in [Requests -> Nat] /\ pc[r] = "idle"
  BY DEF FilesInv, Typed, TypeOK, Labels, Receive
<1>2. RowsStay /\ Rows' = Rows
  BY DEF RowsStay, Rows, fileVars
<1>3. CASE HasKey(r) /\ cache[CacheKey(r)] # NoAnswer
  <2>. DEFINE id == cache[CacheKey(r)]
  <2>1. pc' = [pc EXCEPT ![r] = "answered"] /\ reply' = [reply EXCEPT ![r] = id]
    BY <1>3 DEF Receive, Goto
  <2>2. id \in Rows /\ KeyOf[uploads[id].object] = KeyOf[r]
    BY <1>3 DEF AnswersAreRows
  <2>3. \A u \in Rows : uploads[u].object # r
    BY <1>1 DEF FilesInv, RowsFollowRequests, Passed
  <2>4. id \in Nat
    BY <2>2 DEF Rows, FilesInv, Typed, TypeOK
  <2>. HIDE DEF id
  <2>5. reply' \in [Requests -> Nat]
    BY <1>1, <2>1, <2>4
  <2>6. FilesInv'
    BY <1>1, <2>1, <2>5, RequestMoves DEF Labels, Passed
  <2>7. AnswersAreRows'
    BY <1>1, <2>1, <2>2, <2>3, AnswerGiven
  <2>8. QED
    BY <2>6, <2>7
<1>4. CASE ~(HasKey(r) /\ cache[CacheKey(r)] # NoAnswer)
  <2>1. pc' = [pc EXCEPT ![r] = "handle"] /\ UNCHANGED reply
    BY <1>4 DEF Receive, Goto
  <2>2. FilesInv'
    BY <1>1, <2>1, RequestMoves DEF Labels, Passed
  <2>3. AnswersAreRows'
    BY <1>1, <1>2, <2>1, AnswersStay
  <2>4. QED
    BY <2>2, <2>3
<1>5. QED
  BY <1>3, <1>4

\* A request ends without an answer.
LEMMA RequestEndsInv ==
  ASSUME UploadsInv, NEW r \in Requests, UNCHANGED <<cache, reply>>, UNCHANGED fileVars,
         NEW label \in {"failed", "stopped"}, pc' = [pc EXCEPT ![r] = label],
         pc[r] \notin {"answered", "failed", "stopped"}
  PROVE  UploadsInv'
<1>. USE DEF UploadsInv
<1>1. /\ pc \in [Requests -> Labels] /\ cache \in [Keys -> Nat]
      /\ reply \in [Requests -> Nat]
  BY DEF FilesInv, Typed, TypeOK, Labels
<1>2. RowsStay /\ Rows' = Rows
  BY DEF RowsStay, Rows, fileVars
<1>3. FilesInv'
  BY <1>1, RequestMoves DEF Labels, Passed
<1>4. AnswersAreRows'
  BY <1>1, <1>2, AnswersStay
<1>5. QED
  BY <1>3, <1>4

\* The handler's steps up to its answer.
LEMMA HandleStepInv ==
  ASSUME UploadsInv, NEW r \in Requests, HandleStep(r)
  PROVE  UploadsInv'
<1>. USE DEF UploadsInv
<1>1. /\ pc \in [Requests -> Labels] /\ cache \in [Keys -> Nat]
      /\ reply \in [Requests -> Nat]
  BY DEF FilesInv, Typed, TypeOK, Labels
<1>2. CASE PutObject(r)
  <2>1. RowsStay /\ Rows' = Rows
    BY <1>2 DEF RowsStay, Rows, PutObject
  <2>2. AnswersAreRows'
    BY <1>1, <1>2, <2>1, AnswersStay DEF PutObject, Goto
  <2>3. QED
    BY <1>2, <2>2, ObjectPut
<1>3. CASE CommitUpload(r)
  <2>1. /\ uploads \in Seq(Upload) /\ pc[r] = "put"
        /\ pc' = [pc EXCEPT ![r] = "committed"] /\ UNCHANGED <<cache, reply>>
    BY <1>3 DEF FilesInv, Typed, TypeOK, CommitUpload, Goto
  <2>2. RowsStay /\ \A u \in Rows' \ Rows : uploads'[u].object = r
    BY <1>3, <2>1 DEF RowsStay, Rows, CommitUpload
  <2>3. AnswersAreRows'
    BY <1>1, <2>1, <2>2, AnswersStay
  <2>4. QED
    BY <1>3, <2>3, UploadCommitted
<1>4. CASE EnqueueScan(r)
  <2>1. RowsStay /\ Rows' = Rows
    BY <1>4 DEF RowsStay, Rows, EnqueueScan
  <2>2. AnswersAreRows'
    BY <1>1, <1>4, <2>1, AnswersStay DEF EnqueueScan, Goto
  <2>3. QED
    BY <1>4, <2>2, ScanEnqueued
<1>5. CASE AnswerUpload(r)
  <2>. DEFINE id == RowOf(r)
  <2>1. /\ pc[r] = "handled" /\ pc' = [pc EXCEPT ![r] = "answered"]
        /\ reply' = [reply EXCEPT ![r] = id] /\ UNCHANGED fileVars
        /\ cache' = IF HasKey(r) THEN [cache EXCEPT ![CacheKey(r)] = id] ELSE cache
    BY <1>5 DEF AnswerUpload, Answer, Goto
  <2>2. /\ id \in Rows /\ uploads[id].object = r
        /\ \A u \in Rows : uploads[u].object = r => id = u
    BY <2>1, RowOfRequest
  <2>3. id \in Nat
    BY <2>2 DEF Rows, FilesInv, Typed, TypeOK
  <2>. HIDE DEF id
  <2>4. cache' \in [Keys -> Nat] /\ reply' \in [Requests -> Nat]
    BY <1>1, <2>1, <2>3
  <2>5. FilesInv'
    BY <2>1, <2>4, RequestMoves DEF Labels, Passed
  <2>6. AnswersAreRows'
    BY <2>1, <2>2, AnswerGiven
  <2>7. QED
    BY <2>5, <2>6
<1>6. QED
  BY <1>2, <1>3, <1>4, <1>5 DEF HandleStep

\* A key that runs out is asked for in vain.
LEMMA ExpireKeyInv ==
  ASSUME UploadsInv, NEW k \in Keys, ExpireKey(k), UNCHANGED fileVars
  PROVE  UploadsInv'
<1>1. /\ cache \in [Keys -> Nat] /\ cache' = [cache EXCEPT ![k] = NoAnswer]
      /\ UNCHANGED <<pc, reply>>
  BY DEF UploadsInv, FilesInv, Typed, TypeOK, ExpireKey
<1>2. cache' \in [Keys -> Nat] /\ \A j \in Keys : cache'[j] \in {NoAnswer, cache[j]}
  BY <1>1 DEF NoAnswer
<1>3. RowsStay /\ Rows' = Rows
  BY DEF RowsStay, Rows, fileVars
<1>4. AnswersAreRows'
  BY <1>1, <1>2, <1>3, AnswersStay DEF UploadsInv
<1>5. FilesInv'
  BY <1>1, <1>2 DEF UploadsInv, FilesInv, Typed, TypeOK, JobsOK, Rows, fileVars,
     RowsFollowRequests, JobsFollowPlans, ReadableIsClean, InfectedIsGone, HarmlessIsKept,
     PendingIsExplained, Download
<1>6. QED
  BY <1>4, <1>5 DEF UploadsInv

LEMMA UploadsInvNext == UploadsInv /\ [Next]_vars => UploadsInv'
<1> SUFFICES ASSUME UploadsInv, [Next]_vars PROVE UploadsInv'
  OBVIOUS
<1>1. ASSUME NEW r \in Requests, Receive(r), UNCHANGED fileVars PROVE UploadsInv'
  BY <1>1, ReceiveInv
<1>2. ASSUME NEW r \in Requests, StopRequest(r), UNCHANGED fileVars PROVE UploadsInv'
  BY <1>2, RequestEndsInv DEF StopRequest, Goto
<1>3. ASSUME NEW r \in Requests, HandleStep(r) PROVE UploadsInv'
  BY <1>3, HandleStepInv
<1>4. ASSUME NEW r \in Requests, UploadFails(r) PROVE UploadsInv'
  BY <1>4, RequestEndsInv DEF UploadFails, HandlerFails, Goto
<1>5. ASSUME NEW k \in Keys, ExpireKey(k), UNCHANGED fileVars PROVE UploadsInv'
  BY <1>5, ExpireKeyInv
<1>6. ASSUME NEW u \in DOMAIN scan, ScanStep(u) \/ ScanRaises(u) \/ Redeliver(u)
      PROVE UploadsInv'
  BY <1>6, JobStepInv
<1>7. CASE UNCHANGED vars
  BY <1>7 DEF vars, idemVars, fileVars, UploadsInv, FilesInv, Typed, TypeOK, JobsOK, Rows,
     RowsFollowRequests, JobsFollowPlans, ReadableIsClean, InfectedIsGone, HarmlessIsKept,
     PendingIsExplained, Download, AnswersAreRows
<1>8. QED
  BY <1>1, <1>2, <1>3, <1>4, <1>5, <1>6, <1>7 DEF Next

LEMMA UploadsInvariant == Spec => []UploadsInv
<1>1. QED
  BY UploadsInvInit, UploadsInvNext, PTL DEF Spec

\* Requests, answers, rows, objects and jobs stay of their types (files/models.py).
THEOREM UploadsTyped == Spec => []TypeOK
<1>1. UploadsInv => TypeOK
  BY DEF UploadsInv, FilesInv, Typed
<1>2. QED
  BY <1>1, UploadsInvariant, PTL

\* Nothing is readable until a scan has come back clean (files/router.py:1-8):
\* whatever crashes, fails or is delivered again, a download URL is given for a
\* harmless object only, and the object is where the URL points.
THEOREM NothingInfectedIsRead == Spec => []ReadableIsClean
<1>1. UploadsInv => ReadableIsClean
  BY DEF UploadsInv, FilesInv
<1>2. QED
  BY <1>1, UploadsInvariant, PTL

\* A row found infected names an object that is deleted for good, and nothing
\* infected ever stands under a final key (scan_worker.py:39-50).
THEOREM NothingInfectedIsKept == Spec => []InfectedIsGone
<1>1. UploadsInv => InfectedIsGone
  BY DEF UploadsInv, FilesInv
<1>2. QED
  BY <1>1, UploadsInvariant, PTL

\* Copy, delete, commit, in this order (scan_worker.py:39-48), never lose a
\* harmless file, however often they are interrupted and begun again.
THEOREM NothingHarmlessIsLost == Spec => []HarmlessIsKept
<1>1. UploadsInv => HarmlessIsKept
  BY DEF UploadsInv, FilesInv
<1>2. QED
  BY <1>1, UploadsInvariant, PTL

\* A file stays pending for the reasons PendingIsExplained lists and no other
\* (files/router.py:43-47, scan_worker.py:60-71).
THEOREM PendingHasAReason == Spec => []PendingIsExplained
<1>1. UploadsInv => PendingIsExplained
  BY DEF UploadsInv, FilesInv
<1>2. QED
  BY <1>1, UploadsInvariant, PTL

\* What a client is told is a row of a request with its key, and its own
\* request's row if there is one (idempotency.py:5-6).
THEOREM AnswersAreRecorded == Spec => []ReplayedIsRecorded
<1>1. UploadsInv => ReplayedIsRecorded
  BY DEF UploadsInv, AnswersAreRows, ReplayedIsRecorded
<1>2. QED
  BY <1>1, UploadsInvariant, PTL
=============================================================================
