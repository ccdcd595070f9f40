--------------------------- MODULE LedgerSerialProofs ---------------------------
(***************************************************************************)
(* Theorems about the ledger when one call ends before the next begins,    *)
(* the way the repository's tests drive it: what a call has read is then   *)
(* still so when it commits.  A call may still stop at any step.           *)
(***************************************************************************)
EXTENDS LedgerReportsProofs

AtMostOneRuns == \A r, q \in Requests : pc[r] \in Running /\ pc[q] \in Running => r = q

\* What the running call has read is what the tables say.
CommitsOpen == \A r \in Requests :
  pc[r] = "commit" => ~Shut(draft[r].tenant, draft[r].date)
LoadedFresh == \A r \in Requests : pc[r] \in Writing =>
  \A p \in DOMAIN loaded[r] : loaded[r][p] = closed[p]

\* As long as no call has stopped, the entry a void is about to reverse is
\* POSTED, so that none has two reversals.
NoCrash == \A r \in Requests : pc[r] # "crashed"
Reversing(r) == pc[r] \in {"void_check", "check_period", "commit"} /\ draft[r].reverses # 0
OriginalsPosted == NoCrash => \A r \in Requests :
  Reversing(r) => entries[draft[r].reverses].status = "POSTED"

SerialInv == /\ VoidInv /\ AtMostOneRuns /\ CommitsOpen /\ LoadedFresh
             /\ OriginalsPosted /\ NoDoubleReversal

\* One step of the call r, begun while no other was running.
SerialStep(r) == (Quiet /\ Begin(r)) \/ Advance(r) \/ Crash(r)

\* Calls that do not overlap take the same steps.
LEMMA SerialIsNext == [SerialNext]_vars => [Next]_vars
BY DEF SerialNext, Next

\* The call that takes a step is the only one that runs, and changes nothing
\* that another call holds.
LEMMA Alone ==
  ASSUME TypeOK, AtMostOneRuns, NEW r \in Requests, SerialStep(r)
  PROVE  /\ pc[r] \in {"idle"} \cup Running
         /\ \A q \in Requests : q # r =>
              /\ pc[q] \notin Running /\ pc'[q] = pc[q]
              /\ draft'[q] = draft[q] /\ loaded'[q] = loaded[q]
<1>1. /\ pc \in [Requests -> {"idle"} \cup Running \cup Ended]
      /\ draft \in [Requests -> Entry \cup {NoEntry}]
      /\ loaded \in [Requests -> UNION {[S -> BOOLEAN] : S \in SUBSET Periods}]
  BY DEF TypeOK
<1>2. Begin(r) => pc[r] = "idle"
  BY DEF Begin, Submit, ReadOriginal, VoidNotFound, ReadPeriod, ReadYear
<1>3. Advance(r) \/ Crash(r) => pc[r] \in Running
  BY DEF Advance, CheckPeriod, CommitPosting, PostingFails, CheckReversalPeriod,
     PeriodCheckRaises, FlipOriginal, CommitPeriods, Crash, Running
<1>4. \A q \in Requests : q # r => pc[q] \notin Running
  BY <1>3 DEF SerialStep, Quiet, AtMostOneRuns
<1>5. \E label : pc' = [pc EXCEPT ![r] = label]
  <2>1. ASSUME Begin(r) PROVE \E label : pc' = [pc EXCEPT ![r] = label]
    BY <2>1 DEF Begin, Submit, ReadOriginal, VoidNotFound, ReadPeriod, ReadYear, Goto
  <2>2. ASSUME Advance(r) \/ Crash(r) PROVE \E label : pc' = [pc EXCEPT ![r] = label]
    BY <2>2 DEF Advance, CheckPeriod, CommitPosting, PostingFails, CheckReversalPeriod,
       PeriodCheckRaises, FlipOriginal, CommitPeriods, Crash, Goto
  <2>3. QED
    BY <2>1, <2>2 DEF SerialStep
<1>6. draft' = draft \/ \E e : draft' = [draft EXCEPT ![r] = e]
  <2>1. ASSUME Begin(r) PROVE draft' = draft \/ \E e : draft' = [draft EXCEPT ![r] = e]
    BY <2>1 DEF Begin, Submit, ReadOriginal, VoidNotFound, ReadPeriod, ReadYear
  <2>2. ASSUME Advance(r) \/ Crash(r) PROVE draft' = draft
    BY <2>2 DEF Advance, CheckPeriod, CommitPosting, PostingFails, CheckReversalPeriod,
       PeriodCheckRaises, FlipOriginal, CommitPeriods, Crash
  <2>3. QED
    BY <2>1, <2>2 DEF SerialStep
<1>7. loaded' = loaded \/ \E f : loaded' = [loaded EXCEPT ![r] = f]
  <2>1. ASSUME Begin(r) PROVE loaded' = loaded \/ \E f : loaded' = [loaded EXCEPT ![r] = f]
    BY <2>1 DEF Begin, Submit, ReadOriginal, VoidNotFound, ReadPeriod, ReadYear, Load
  <2>2. ASSUME Advance(r) \/ Crash(r) PROVE loaded' = loaded
    BY <2>2 DEF Advance, CheckPeriod, CommitPosting, PostingFails, CheckReversalPeriod,
       PeriodCheckRaises, FlipOriginal, CommitPeriods, Crash
  <2>3. QED
    BY <2>1, <2>2 DEF SerialStep
<1>8. QED
  BY <1>1, <1>2, <1>3, <1>4, <1>5, <1>6, <1>7 DEF SerialStep

\* Each of the next lemmas is about one part of the invariant and one step.
LEMMA AtMostOneRunsNext ==
  ASSUME TypeOK, AtMostOneRuns, NEW r \in Requests, SerialStep(r)
  PROVE  AtMostOneRuns'
BY Alone DEF AtMostOneRuns

\* A period check that lets a call pass has seen a period of the day open, or none.
LEMMA CommitsOpenNext ==
  ASSUME TypeOK, AtMostOneRuns, CommitsOpen, NEW r \in Requests, SerialStep(r)
  PROVE  CommitsOpen'
<1>1. pc \in [Requests -> {"idle"} \cup Running \cup Ended] /\ closed \in [Periods -> BOOLEAN]
  BY DEF TypeOK
<1>2. ASSUME pc'[r] = "commit" PROVE CheckPeriod(r)
  <2>1. ~Begin(r)
    BY <1>1, <1>2 DEF Begin, Submit, ReadOriginal, VoidNotFound, ReadPeriod, ReadYear, Goto
  <2>2. ~Crash(r) /\ ~CommitPosting(r) /\ ~PostingFails(r) /\ ~CheckReversalPeriod(r)
        /\ ~PeriodCheckRaises(r) /\ ~FlipOriginal(r) /\ ~CommitPeriods(r)
    BY <1>1, <1>2 DEF Crash, CommitPosting, AfterPosting, PostingFails,
       CheckReversalPeriod, PeriodCheckRaises, FlipOriginal, CommitPeriods, Goto
  <2>3. QED
    BY <2>1, <2>2 DEF SerialStep, Advance
<1>3. ASSUME pc'[r] = "commit" PROVE ~Shut(draft[r].tenant, draft[r].date)'
  <2>1. PICK isClosed \in PeriodReads(draft[r].tenant, draft[r].date) :
          pc'[r] = IF isClosed THEN "rejected" ELSE "commit"
    BY <1>1, <1>2, <1>3 DEF CheckPeriod, Goto
  <2>2. ~isClosed
    BY <1>3, <2>1
  <2>3. ~Shut(draft[r].tenant, draft[r].date)
    BY <1>1, <2>2 DEF PeriodReads, Shut
  <2>4. UNCHANGED <<draft, closed>>
    BY <1>2, <1>3 DEF CheckPeriod
  <2>5. QED
    BY <2>3, <2>4 DEF Shut
<1>4. ASSUME NEW q \in Requests, q # r PROVE pc'[q] # "commit"
  BY <1>4, Alone DEF Running
<1>5. QED
  BY <1>3, <1>4 DEF CommitsOpen

\* A call that is about to write its periods has read them just now.
LEMMA LoadedFreshNext ==
  ASSUME TypeOK, AtMostOneRuns, LoadedFresh, NEW r \in Requests, SerialStep(r)
  PROVE  LoadedFresh'
<1>1. /\ pc \in [Requests -> {"idle"} \cup Running \cup Ended]
      /\ loaded \in [Requests -> UNION {[S -> BOOLEAN] : S \in SUBSET Periods}]
  BY DEF TypeOK
<1>2. ASSUME pc'[r] \in Writing PROVE ReadPeriod(r) \/ ReadYear(r)
  <2>1. ~Submit(r) /\ ~ReadOriginal(r) /\ ~VoidNotFound(r)
    BY <1>1, <1>2 DEF Submit, ReadOriginal, VoidNotFound, Goto, Writing
  <2>2. ~Advance(r)
    BY <1>1, <1>2 DEF Advance, CheckPeriod, CommitPosting, AfterPosting, PostingFails,
       CheckReversalPeriod, PeriodCheckRaises, FlipOriginal, CommitPeriods, Goto, Writing
  <2>3. ~Crash(r)
    BY <1>1, <1>2 DEF Crash, Goto, Writing
  <2>4. QED
    BY <2>1, <2>2, <2>3 DEF SerialStep, Begin
<1>3. ASSUME pc'[r] \in Writing
      PROVE  \E rows : loaded'[r] = [p \in rows |-> closed[p]]
  <2>1. CASE ReadPeriod(r)
    <3>1. ~(Goto(r, "rejected") /\ UNCHANGED loaded)
      BY <1>1, <1>3 DEF Goto, Writing
    <3>2. PICK p \in Periods : Load(r, {p})
      BY <2>1, <3>1 DEF ReadPeriod
    <3>3. QED
      BY <1>1, <3>2 DEF Load
  <2>2. CASE ReadYear(r)
    BY <1>1, <2>2 DEF ReadYear, Load
  <2>3. QED
    BY <1>2, <1>3, <2>1, <2>2
<1>4. pc'[r] \in Writing => closed' = closed
  BY <1>2 DEF ReadPeriod, ReadYear
<1>5. ASSUME NEW q \in Requests, q # r PROVE pc'[q] \notin Writing
  BY <1>5, Alone DEF Running
<1>6. ASSUME NEW q \in Requests, pc'[q] \in Writing, NEW p \in DOMAIN loaded'[q]
      PROVE  loaded'[q][p] = closed'[p]
  <2>1. q = r
    BY <1>5, <1>6
  <2>2. PICK rows : loaded'[r] = [x \in rows |-> closed[x]]
    BY <1>3, <1>6, <2>1
  <2>3. QED
    BY <1>4, <1>6, <2>1, <2>2
<1>7. QED
  BY <1>6 DEF LoadedFresh

\* A void goes on only while its original is POSTED: nothing but that void could
\* mark it.
LEMMA OriginalsPostedNext ==
  ASSUME TypeOK, AtMostOneRuns, OriginalsPosted, NEW r \in Requests, SerialStep(r), NoCrash'
  PROVE  \A q \in Requests : Reversing(q)' => entries'[draft'[q].reverses].status = "POSTED"
<1>1. /\ pc \in [Requests -> {"idle"} \cup Running \cup Ended]
      /\ draft \in [Requests -> Entry \cup {NoEntry}]
  BY DEF TypeOK
<1>2. NoCrash
  <2>1. pc[r] # "crashed"
    BY Alone DEF Running, Writing
  <2>2. QED
    BY <2>1, Alone DEF NoCrash
<1>3. ASSUME NEW q \in Requests, q # r PROVE ~Reversing(q)'
  BY <1>3, Alone DEF Reversing, Running
<1>4. ASSUME Submit(r) PROVE ~Reversing(r)'
  BY <1>1, <1>4 DEF Submit, Reversing
<1>5. ASSUME ReadOriginal(r), Reversing(r)'
      PROVE  entries'[draft'[r].reverses].status = "POSTED"
  <2>1. PICK t \in Tenants, d \in Dates : \E i \in VisibleTo(t) :
          IF Voidable(entries[i])
          THEN /\ draft' = [draft EXCEPT ![r] =
                    [tenant |-> t, date |-> d, reverses |-> i,
                     status |-> "DRAFT", lines |-> Mirror(entries[i].lines)]]
               /\ Goto(r, "void_check")
          ELSE Goto(r, "rejected") /\ UNCHANGED draft
    BY <1>5 DEF ReadOriginal
  <2>2. PICK i \in VisibleTo(t) :
          IF Voidable(entries[i])
          THEN /\ draft' = [draft EXCEPT ![r] =
                    [tenant |-> t, date |-> d, reverses |-> i,
                     status |-> "DRAFT", lines |-> Mirror(entries[i].lines)]]
               /\ Goto(r, "void_check")
          ELSE Goto(r, "rejected") /\ UNCHANGED draft
    BY <2>1
  <2>3. Voidable(entries[i])
    BY <1>1, <1>5, <2>2 DEF Goto, Reversing
  <2>4. draft'[r].reverses = i
    BY <1>1, <2>2, <2>3
  <2>5. entries' = entries
    BY <1>5 DEF ReadOriginal
  <2>6. QED
    BY <2>3, <2>4, <2>5 DEF Voidable
<1>6. ASSUME CheckPeriod(r) \/ CheckReversalPeriod(r), Reversing(r)'
      PROVE  entries'[draft'[r].reverses].status = "POSTED"
  <2>1. UNCHANGED <<entries, draft>> /\ pc[r] \in {"void_check", "check_period"}
    BY <1>6 DEF CheckPeriod, CheckReversalPeriod
  <2>2. Reversing(r)
    BY <1>6, <2>1 DEF Reversing
  <2>3. QED
    BY <1>2, <2>1, <2>2 DEF OriginalsPosted
<1>7. ASSUME \/ VoidNotFound(r) \/ ReadPeriod(r) \/ ReadYear(r) \/ CommitPosting(r)
             \/ PostingFails(r) \/ PeriodCheckRaises(r) \/ FlipOriginal(r)
             \/ CommitPeriods(r) \/ Crash(r)
      PROVE  ~Reversing(r)'
  <2>1. pc'[r] \in {"rejected", "close", "reopen", "close_year", "done", "flip", "error",
                    "crashed"}
    BY <1>1, <1>7 DEF VoidNotFound, ReadPeriod, ReadYear, CommitPosting, AfterPosting,
       PostingFails, PeriodCheckRaises, FlipOriginal, CommitPeriods, Crash, Goto
  <2>2. QED
    BY <2>1 DEF Reversing
<1>8. QED
  BY <1>3, <1>4, <1>5, <1>6, <1>7 DEF SerialStep, Begin, Advance

\* A second reversal would be that of a void begun while the first one ran, or
\* after it had stopped half-way.
LEMMA NoDoubleReversalNext ==
  ASSUME VoidInv, AtMostOneRuns, OriginalsPosted, NoDoubleReversal,
         NEW r \in Requests, SerialStep(r)
  PROVE  NoDoubleReversal'
<1> USE DEF EntryIds
<1>t. TypeOK
  BY DEF VoidInv, TypeInv
<1>1. ASSUME NoCrash' PROVE NoCrash
  <2>1. pc[r] # "crashed"
    BY <1>t, Alone DEF Running, Writing
  <2>2. QED
    BY <1>1, <1>t, <2>1, Alone DEF NoCrash
<1>2. ASSUME NoCrash', ~CommitPosting(r)
      PROVE  \A j \in EntryIds' : j \in EntryIds /\ entries'[j].reverses = entries[j].reverses
  <2>1. [Next]_vars
    BY DEF SerialStep, Next
  <2>2. \/ \E q \in Requests : FlipOriginal(q)
        \/ UNCHANGED entries
        \/ \E q \in Requests : CommitPosting(q)
    BY <2>1, WhoWrites
  <2>3. \A q \in Requests : q # r => ~CommitPosting(q)
    BY <1>t, Alone DEF CommitPosting, Running
  <2>4. CASE \E q \in Requests : FlipOriginal(q)
    BY <2>4, VoidedEntry DEF VoidInv
  <2>5. CASE UNCHANGED entries
    BY <2>5
  <2>6. QED
    BY <1>2, <2>2, <2>3, <2>4, <2>5
<1>3. ASSUME NoCrash', CommitPosting(r), draft[r].reverses # 0
      PROVE  \A j \in EntryIds : entries[j].reverses # draft[r].reverses
  <2>1. pc[r] = "commit" /\ Reversing(r)
    BY <1>3 DEF CommitPosting, Reversing
  <2>2. /\ draft[r].reverses \in EntryIds
        /\ entries[draft[r].reverses].status # "VOID"
    BY <1>1, <1>3, <2>1 DEF OriginalsPosted, VoidInv, TypeInv, DraftOK, Building
  <2>3. ASSUME NEW j \in EntryIds, entries[j].reverses = draft[r].reverses
        PROVE  FALSE
    <3>1. PICK q \in Requests : posted[q] = j /\ pc[q] \in {"flip", "crashed"}
      BY <2>2, <2>3 DEF VoidInv, UnfinishedVoidIsKnown
    <3>2. pc[q] = "flip"
      BY <1>1, <1>3, <3>1 DEF NoCrash
    <3>3. QED
      BY <1>t, <2>1, <3>2, Alone DEF Running
  <2>4. QED
    BY <2>3
<1>4. ASSUME NoCrash', NEW i \in EntryIds', NEW j \in EntryIds', NEW k \in EntryIds',
             entries'[j].reverses = i, entries'[k].reverses = i
      PROVE  j = k
  <2>0. \A a, b \in EntryIds : \A e \in EntryIds :
          entries[a].reverses = e /\ entries[b].reverses = e => a = b
    BY <1>1, <1>4 DEF NoDoubleReversal, NoCrash, ReversalsOf
  <2>r. \A a \in EntryIds : entries[a].reverses \in {0} \cup EntryIds
    BY DEF VoidInv, EntriesRecordable
  <2>z. i # 0
    BY <1>t, VoidInvNext DEF SerialStep, Next, VoidInv, TypeInv, TypeOK
  <2>1. CASE ~CommitPosting(r)
    BY <1>2, <1>4, <2>0, <2>1, <2>r, <2>z
  <2>2. CASE CommitPosting(r)
    <3> DEFINE n == Len(entries) + 1
    <3>1. /\ DOMAIN entries' = DOMAIN entries \cup {n}
          /\ \A e \in DOMAIN entries : entries'[e] = entries[e]
          /\ entries'[n].reverses = draft[r].reverses
      BY <2>2, PostedEntry
    <3>2. QED
      BY <1>3, <1>4, <2>0, <2>2, <2>r, <2>z, <3>1
  <2>3. QED
    BY <2>1, <2>2
<1>5. QED
  BY <1>4 DEF NoDoubleReversal, NoCrash, ReversalsOf

LEMMA SerialInvInit == Init => SerialInv
<1> SUFFICES ASSUME Init PROVE SerialInv
  OBVIOUS
<1>1. DOMAIN entries = {} /\ \A r \in Requests : pc[r] = "idle"
  BY DEF Init
<1>2. QED
  BY <1>1, VoidInvInit DEF SerialInv, AtMostOneRuns, CommitsOpen, LoadedFresh,
     OriginalsPosted, NoDoubleReversal, Reversing, ReversalsOf, EntryIds, Running, Writing

\* Every step of calls that do not overlap keeps the invariant.
LEMMA SerialInvNext == SerialInv /\ [SerialNext]_vars => SerialInv'
<1> SUFFICES ASSUME SerialInv, [SerialNext]_vars PROVE SerialInv'
  OBVIOUS
<1>1. VoidInv' /\ TypeOK
  BY SerialIsNext, VoidInvNext DEF SerialInv, VoidInv, TypeInv
<1>2. ASSUME NEW r \in Requests, SerialStep(r) PROVE SerialInv'
  <2>1. AtMostOneRuns' /\ CommitsOpen' /\ LoadedFresh'
    BY <1>1, <1>2, AtMostOneRunsNext, CommitsOpenNext, LoadedFreshNext DEF SerialInv
  <2>2. OriginalsPosted'
    BY <1>1, <1>2, OriginalsPostedNext DEF SerialInv, OriginalsPosted
  <2>3. NoDoubleReversal'
    BY <1>2, NoDoubleReversalNext DEF SerialInv
  <2>4. QED
    BY <1>1, <2>1, <2>2, <2>3 DEF SerialInv
<1>3. CASE UNCHANGED vars
  BY <1>1, <1>3 DEF vars, SerialInv, AtMostOneRuns, CommitsOpen, LoadedFresh, Shut,
     OriginalsPosted, NoCrash, NoDoubleReversal, Reversing, ReversalsOf, EntryIds
<1>4. QED
  BY <1>2, <1>3 DEF SerialNext, SerialStep

\* An entry is never reversed twice (void.py:49-50) by calls that do not overlap,
\* unless one of them stopped between its two commits.
THEOREM NothingIsReversedTwice == SerialSpec => []NoDoubleReversal
<1>1. SerialInv => NoDoubleReversal
  BY DEF SerialInv
<1>2. QED
  BY <1>1, SerialInvInit, SerialInvNext, PTL DEF SerialSpec

-----------------------------------------------------------------------------
(* Closed periods *)

\* The commit of an entry is the only step that adds one, and its day is open.
LEMMA CommitIsOpen ==
  ASSUME SerialInv, NEW r \in Requests, CommitPosting(r)
  PROVE  LET n == Len(entries) + 1
         IN  /\ DOMAIN entries' = DOMAIN entries \cup {n}
             /\ n \notin DOMAIN entries
             /\ \A i \in DOMAIN entries : entries'[i] = entries[i]
             /\ ~Shut(entries'[n].tenant, entries'[n].date)
<1>1. ~Shut(draft[r].tenant, draft[r].date)
  BY DEF SerialInv, CommitsOpen, CommitPosting
<1>2. QED
  BY <1>1, PostedEntry DEF SerialInv

\* Posting into a closed period is prohibited (periods.py:3-5): by calls that do
\* not overlap, nothing is ever entered on a day that only closed periods cover.
THEOREM NothingPostedIntoClosedPeriods == SerialSpec => NoPostingIntoClosedPeriod
<1>1. ASSUME SerialInv, [SerialNext]_vars, NEW i \in DOMAIN entries' \ DOMAIN entries
      PROVE  ~Shut(entries'[i].tenant, entries'[i].date)
  <2>1. CASE \E r \in Requests : CommitPosting(r)
    BY <1>1, <2>1, CommitIsOpen
  <2>2. CASE \E r \in Requests : FlipOriginal(r)
    BY <1>1, <2>2, VoidedEntry DEF SerialInv, VoidInv
  <2>3. CASE UNCHANGED entries
    BY <1>1, <2>3
  <2>4. QED
    BY <1>1, <2>1, <2>2, <2>3, SerialIsNext, WhoWrites
<1>2. SerialInv /\ [SerialNext]_vars =>
        [\A i \in DOMAIN entries' \ DOMAIN entries :
           ~Shut(entries'[i].tenant, entries'[i].date)]_vars
  BY <1>1
<1>3. QED
  BY <1>2, SerialInvInit, SerialInvNext, PTL DEF SerialSpec, NoPostingIntoClosedPeriod

\* A closed period freezes its reports (periods.py:3-5): while its days stay
\* shut, its trial balance and its profit stay what they are, row by row.
THEOREM ClosedPeriodsAreFrozen == SerialSpec => ClosedPeriodIsFrozen
<1>1. ASSUME SerialInv, [SerialNext]_vars, NEW p \in Periods, entries' # entries,
             \A d \in DaysOf(p) : Shut(Span[p].tenant, d)
      PROVE  SameLines(entries', entries, Span[p].tenant, DaysOf(p))
  <2>1. ASSUME NEW r \in Requests, CommitPosting(r)
        PROVE  SameLines(entries', entries, Span[p].tenant, DaysOf(p))
    BY <1>1, <2>1, CommitIsOpen, AddedElsewhere
  <2>2. ASSUME NEW r \in Requests, FlipOriginal(r)
        PROVE  SameLines(entries', entries, Span[p].tenant, DaysOf(p))
    BY <1>1, <2>2, FlipKeepsLines DEF SerialInv
  <2>3. QED
    BY <1>1, <2>1, <2>2, SerialIsNext, WhoWrites
<1>2. ASSUME SerialInv, [SerialNext]_vars, NEW p \in Periods, entries' # entries,
             \A d \in DaysOf(p) : Shut(Span[p].tenant, d)
      PROVE  /\ TrialBalance(entries', Span[p].tenant, DaysOf(p))
                = TrialBalance(entries, Span[p].tenant, DaysOf(p))
             /\ ProfitAndLoss(entries', Span[p].tenant, DaysOf(p))
                = ProfitAndLoss(entries, Span[p].tenant, DaysOf(p))
  BY <1>1, <1>2, SameReports
<1>3. SerialInv /\ [SerialNext]_vars =>
        [\A p \in Periods :
           LET t == Span[p].tenant
           IN  entries' # entries /\ (\A d \in DaysOf(p) : Shut(t, d) /\ Shut(t, d)') =>
                 /\ TrialBalance(entries', t, DaysOf(p)) = TrialBalance(entries, t, DaysOf(p))
                 /\ ProfitAndLoss(entries', t, DaysOf(p)) = ProfitAndLoss(entries, t, DaysOf(p))]_vars
  BY <1>2
<1>4. QED
  BY <1>3, SerialInvInit, SerialInvNext, PTL DEF SerialSpec, ClosedPeriodIsFrozen

\* Closing a year leaves every period of it closed (periods.py:114), the rows it
\* does not write included, because they still are what it read.
THEOREM ClosedYearsAreClosed == SerialSpec => YearIsClosed
<1>1. ASSUME SerialInv, [SerialNext]_vars, NEW q \in Requests,
             pc[q] = "close_year", pc'[q] = "done", NEW p \in DOMAIN loaded[q]
      PROVE  closed'[p]
  <2>t. TypeOK /\ AtMostOneRuns
    BY <1>1 DEF SerialInv, VoidInv, TypeInv
  <2>1. PICK r \in Requests : SerialStep(r)
    BY <1>1 DEF SerialNext, SerialStep, vars
  <2>2. r = q
    BY <1>1, <2>1, <2>t, Alone
  <2>3. CommitPeriods(q)
    <3>1. ~Begin(q)
      BY <1>1 DEF Begin, Submit, ReadOriginal, VoidNotFound, ReadPeriod, ReadYear
    <3>2. ~Crash(q)
      BY <1>1, <2>t DEF Crash, Goto, TypeOK
    <3>3. QED
      BY <1>1, <2>1, <2>2, <3>1, <3>2 DEF SerialStep, Advance, CheckPeriod, CommitPosting,
         PostingFails, CheckReversalPeriod, PeriodCheckRaises, FlipOriginal
  <2>4. p \in Periods /\ loaded[q][p] \in BOOLEAN
    <3>1. loaded[q] \in UNION {[S -> BOOLEAN] : S \in SUBSET Periods}
      BY <2>t DEF TypeOK
    <3>2. PICK S \in SUBSET Periods : loaded[q] \in [S -> BOOLEAN]
      BY <3>1
    <3>3. QED
      BY <1>1, <3>2
  <2>5. closed[p] = loaded[q][p]
    BY <1>1 DEF SerialInv, LoadedFresh, Writing
  <2>6. closed'[p] = IF p \in Dirty(q, TRUE) THEN TRUE ELSE closed[p]
    BY <1>1, <2>3, <2>4 DEF CommitPeriods
  <2>7. QED
    BY <1>1, <2>4, <2>5, <2>6 DEF Dirty
<1>2. SerialInv /\ [SerialNext]_vars =>
        [\A r \in Requests : pc[r] = "close_year" /\ pc'[r] = "done" =>
           \A p \in DOMAIN loaded[r] : closed'[p]]_vars
  BY <1>1
<1>3. QED
  BY <1>2, SerialInvInit, SerialInvNext, PTL DEF SerialSpec, YearIsClosed
=============================================================================
