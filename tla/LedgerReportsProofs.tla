-------------------------- MODULE LedgerReportsProofs --------------------------
(***************************************************************************)
(* Theorems about what the ledger tells its readers: the audit trail, the  *)
(* reports, and whose entries a call touches.  Like those of LedgerProofs  *)
(* they hold for any number of calls, workspaces, accounts and days.       *)
(***************************************************************************)
EXTENDS LedgerProofs

-----------------------------------------------------------------------------
(* Reports, from the lines they are drawn from *)

\* Two states of the journal show one workspace and some days the same lines.
SameLines(es, fs, t, days) ==
  /\ PostedLines(es, t, days) = PostedLines(fs, t, days)
  /\ \A o \in PostedLines(es, t, days) : LineAt(es, o) = LineAt(fs, o)

\* Sums over the same lines are the same.
LEMMA SameSums ==
  ASSUME NEW es, NEW fs, NEW lines, \A o \in lines : LineAt(es, o) = LineAt(fs, o)
  PROVE  /\ Debits(es, lines) = Debits(fs, lines) /\ Credits(es, lines) = Credits(fs, lines)
         /\ \A a : OnAccount(es, a, lines) = OnAccount(fs, a, lines)
         /\ \A type : OfType(es, type, lines) = OfType(fs, type, lines)
         /\ {LineAt(es, o).account : o \in lines} = {LineAt(fs, o).account : o \in lines}
<1>1. [o \in lines |-> LineAt(es, o).debit] = [o \in lines |-> LineAt(fs, o).debit]
  OBVIOUS
<1>2. [o \in lines |-> LineAt(es, o).credit] = [o \in lines |-> LineAt(fs, o).credit]
  OBVIOUS
<1>3. Debits(es, lines) = Debits(fs, lines) /\ Credits(es, lines) = Credits(fs, lines)
  BY <1>1, <1>2, Zenon DEF Debits, Credits
<1>4. \A a : OnAccount(es, a, lines) = OnAccount(fs, a, lines)
  BY DEF OnAccount
<1>5. \A type : OfType(es, type, lines) = OfType(fs, type, lines)
  BY DEF OfType
<1>6. {LineAt(es, o).account : o \in lines} = {LineAt(fs, o).account : o \in lines}
  OBVIOUS
<1>7. QED
  BY <1>3, <1>4, <1>5, <1>6

\* A section of a report over the same lines has the same rows.
LEMMA SameRows ==
  ASSUME NEW es, NEW fs, NEW lines, NEW type,
         \A o \in lines : LineAt(es, o) = LineAt(fs, o)
  PROVE  Rows(es, type, lines) = Rows(fs, type, lines)
<1>. DEFINE those == OfType(es, type, lines)
            fthose == OfType(fs, type, lines)
<1>1. those = fthose /\ those \subseteq lines
  BY SameSums DEF OfType
<1>2. {LineAt(es, o).account : o \in those} = {LineAt(fs, o).account : o \in those}
  BY <1>1, SameSums
<1>3. ASSUME NEW a
      PROVE  Amount(es, OnAccount(es, a, those)) = Amount(fs, OnAccount(fs, a, those))
  <2>1. OnAccount(es, a, those) = OnAccount(fs, a, those)
        /\ OnAccount(es, a, those) \subseteq lines
    BY <1>1, SameSums DEF OnAccount
  <2>2. QED
    BY <2>1, SameSums DEF Amount
<1>. HIDE DEF those
<1>4. [a \in {LineAt(es, o).account : o \in those} |->
         Signed(type, Amount(es, OnAccount(es, a, those)))]
      = [a \in {LineAt(fs, o).account : o \in those} |->
           Signed(type, Amount(fs, OnAccount(fs, a, those)))]
  BY <1>2, <1>3
<1>5. QED
  BY <1>1, <1>4 DEF Rows, those

\* A report is a function of the lines it is drawn from.
LEMMA SameReports ==
  ASSUME NEW es, NEW fs, NEW t, NEW days, SameLines(es, fs, t, days)
  PROVE  /\ TrialBalance(es, t, days) = TrialBalance(fs, t, days)
         /\ ProfitAndLoss(es, t, days) = ProfitAndLoss(fs, t, days)
         /\ BalanceSheet(es, t, days) = BalanceSheet(fs, t, days)
<1>. DEFINE lines == PostedLines(es, t, days)
<1>1. lines = PostedLines(fs, t, days) /\ \A o \in lines : LineAt(es, o) = LineAt(fs, o)
  BY DEF SameLines
<1>2. \A type : Rows(es, type, lines) = Rows(fs, type, lines)
  BY <1>1, SameRows
<1>3. TrialBalance(es, t, days) = TrialBalance(fs, t, days)
  <2>1. ASSUME NEW a
        PROVE  LET mine == OnAccount(es, a, lines)
               IN  /\ mine = OnAccount(fs, a, lines)
                   /\ Debits(es, mine) = Debits(fs, mine)
                   /\ Credits(es, mine) = Credits(fs, mine)
    <3>1. OnAccount(es, a, lines) = OnAccount(fs, a, lines)
          /\ OnAccount(es, a, lines) \subseteq lines
      BY <1>1, SameSums DEF OnAccount
    <3>2. QED
      BY <1>1, <3>1, SameSums
  <2>2. {LineAt(es, o).account : o \in lines} = {LineAt(fs, o).account : o \in lines}
    BY <1>1, SameSums
  <2>. HIDE DEF lines
  <2>3. [a \in {LineAt(es, o).account : o \in lines} |->
           [debit |-> Debits(es, OnAccount(es, a, lines)),
            credit |-> Credits(es, OnAccount(es, a, lines))]]
        = [a \in {LineAt(fs, o).account : o \in lines} |->
             [debit |-> Debits(fs, OnAccount(fs, a, lines)),
              credit |-> Credits(fs, OnAccount(fs, a, lines))]]
    BY <2>1, <2>2
  <2>4. QED
    BY <1>1, <2>3 DEF TrialBalance, lines
<1>4. ProfitAndLoss(es, t, days) = ProfitAndLoss(fs, t, days)
  BY <1>1, <1>2 DEF ProfitAndLoss
<1>5. BalanceSheet(es, t, days) = BalanceSheet(fs, t, days)
  BY <1>1, <1>2, <1>4 DEF BalanceSheet
<1>6. QED
  BY <1>3, <1>4, <1>5

-----------------------------------------------------------------------------
(* Steps that change the entries *)

\* Only two steps of a call write an entry, a trail event or what it posted.
LEMMA WhoWrites ==
  ASSUME [Next]_vars
  PROVE  \/ \E r \in Requests : CommitPosting(r)
         \/ \E r \in Requests : FlipOriginal(r)
         \/ UNCHANGED <<entries, audit, posted>>
<1>1. CASE UNCHANGED vars
  BY <1>1 DEF vars
<1>2. ASSUME NEW r \in Requests, Begin(r) PROVE UNCHANGED <<entries, audit, posted>>
  BY <1>2 DEF Begin, Submit, ReadOriginal, VoidNotFound, ReadPeriod, ReadYear
<1>3. ASSUME NEW r \in Requests, Advance(r), ~CommitPosting(r), ~FlipOriginal(r)
      PROVE  UNCHANGED <<entries, audit, posted>>
  BY <1>3 DEF Advance, CheckPeriod, PostingFails, CheckReversalPeriod,
     PeriodCheckRaises, CommitPeriods
<1>4. ASSUME NEW r \in Requests, Crash(r) PROVE UNCHANGED <<entries, audit, posted>>
  BY <1>4 DEF Crash
<1>5. QED
  BY <1>1, <1>2, <1>3, <1>4 DEF Next

\* The entries a report is drawn from.
Reported(es, t, days) ==
  {k \in DOMAIN es : es[k].tenant = t /\ es[k].status \in ReportableStatuses
                     /\ es[k].date \in days}

\* When these are the same and have the same lines, so are the lines a report
\* counts.
LEMMA SameReported ==
  ASSUME NEW es, NEW fs, NEW t, NEW days,
         Reported(es, t, days) = Reported(fs, t, days),
         \A i \in Reported(es, t, days) : es[i].lines = fs[i].lines
  PROVE  SameLines(es, fs, t, days)
<1>1. \A gs : PostedLines(gs, t, days)
                = UNION {{i} \X DOMAIN gs[i].lines : i \in Reported(gs, t, days)}
  BY DEF PostedLines, Reported
<1>2. {{i} \X DOMAIN es[i].lines : i \in Reported(es, t, days)}
      = {{i} \X DOMAIN fs[i].lines : i \in Reported(fs, t, days)}
  OBVIOUS
<1>3. PostedLines(es, t, days) = PostedLines(fs, t, days)
  BY <1>1, <1>2
<1>4. ASSUME NEW o \in PostedLines(es, t, days)
      PROVE  LineAt(es, o) = LineAt(fs, o)
  <2>1. PICK i \in Reported(es, t, days) : o \in {i} \X DOMAIN es[i].lines
    BY <1>1
  <2>2. o[1] = i
    BY <2>1
  <2>3. QED
    BY <2>2 DEF LineAt
<1>5. QED
  BY <1>3, <1>4 DEF SameLines

\* Every entry on record is reportable, and marking one VOID leaves it so.
LEMMA FlipKeepsLines ==
  ASSUME VoidInv, NEW r \in Requests, FlipOriginal(r), NEW t, NEW days
  PROVE  SameLines(entries', entries, t, days)
<1>1. \A i \in DOMAIN entries : entries[i].status \in ReportableStatuses
  BY DEF VoidInv, EntriesRecordable, EntryIds, ReportableStatuses
<1>2. /\ DOMAIN entries' = DOMAIN entries
      /\ \A i \in DOMAIN entries' :
           /\ entries'[i].tenant = entries[i].tenant /\ entries'[i].date = entries[i].date
           /\ entries'[i].lines = entries[i].lines
           /\ entries'[i].status \in {"VOID", entries[i].status}
  BY VoidedEntry DEF VoidInv
<1>3. \A i \in DOMAIN entries' : entries'[i].status \in ReportableStatuses
  BY <1>1, <1>2 DEF ReportableStatuses
<1>4. Reported(entries', t, days) = Reported(entries, t, days)
  BY <1>1, <1>2, <1>3 DEF Reported
<1>5. \A i \in Reported(entries', t, days) : entries'[i].lines = entries[i].lines
  BY <1>2 DEF Reported
<1>6. QED
  BY <1>4, <1>5, SameReported

\* Marking an entry VOID takes nothing out of any report, for any workspace and
\* any day (reporting/services.py:5-14, against void.py:4-6, by which reports
\* stop counting it): only its reversal does.
THEOREM VoidingKeepsReports == Spec => MarkingVoidKeepsReports
<1>1. ASSUME VoidInv, [Next]_vars, Len(entries') = Len(entries),
             NEW t \in Tenants, NEW d \in Dates
      PROVE  /\ TrialBalance(entries', t, UpTo(d)) = TrialBalance(entries, t, UpTo(d))
             /\ ProfitAndLoss(entries', t, {d}) = ProfitAndLoss(entries, t, {d})
  <2>1. ASSUME NEW r \in Requests PROVE ~CommitPosting(r)
    <3>1. entries \in Seq(Entry)
      BY <1>1 DEF VoidInv, TypeInv, TypeOK
    <3>2. \A e : Len(Append(entries, e)) = Len(entries) + 1 /\ Len(entries) \in Nat
      BY <3>1
    <3>3. QED
      BY <1>1, <3>2 DEF CommitPosting
  <2>2. ASSUME NEW r \in Requests, FlipOriginal(r)
        PROVE  /\ SameLines(entries', entries, t, UpTo(d))
               /\ SameLines(entries', entries, t, {d})
    BY <1>1, <2>2, FlipKeepsLines
  <2>3. CASE \E r \in Requests : FlipOriginal(r)
    BY <2>2, <2>3, SameReports
  <2>4. CASE entries' = entries
    BY <2>4
  <2>5. QED
    BY <1>1, <2>1, <2>3, <2>4, WhoWrites
<1>2. VoidInv /\ [Next]_vars =>
        [Len(entries') = Len(entries) =>
           \A t \in Tenants, d \in Dates :
             /\ TrialBalance(entries', t, UpTo(d)) = TrialBalance(entries, t, UpTo(d))
             /\ ProfitAndLoss(entries', t, {d}) = ProfitAndLoss(entries, t, {d})]_vars
  BY <1>1
<1>3. QED
  BY <1>2, VoidInvInit, VoidInvNext, PTL DEF Spec, MarkingVoidKeepsReports

\* A report of a workspace is a function of that workspace's entries.
LEMMA OwnLines ==
  ASSUME NEW es, NEW fs, NEW t, NEW days, EntriesOf(es, t) = EntriesOf(fs, t)
  PROVE  SameLines(es, fs, t, days)
<1>1. \A gs, i : <<i, gs[i]>> \in EntriesOf(gs, t)
                 <=> i \in DOMAIN gs /\ gs[i].tenant = t
  BY DEF EntriesOf
<1>2. ASSUME NEW i, i \in DOMAIN es /\ es[i].tenant = t
      PROVE  i \in DOMAIN fs /\ fs[i] = es[i]
  <2>1. <<i, es[i]>> \in EntriesOf(fs, t)
    BY <1>1, <1>2
  <2>2. QED
    BY <2>1 DEF EntriesOf
<1>3. ASSUME NEW i, i \in DOMAIN fs /\ fs[i].tenant = t
      PROVE  i \in DOMAIN es /\ fs[i] = es[i]
  <2>1. <<i, fs[i]>> \in EntriesOf(es, t)
    BY <1>1, <1>3
  <2>2. QED
    BY <2>1 DEF EntriesOf
<1>4. Reported(es, t, days) = Reported(fs, t, days)
  BY <1>2, <1>3 DEF Reported
<1>5. \A i \in Reported(es, t, days) : es[i].lines = fs[i].lines
  BY <1>2 DEF Reported
<1>6. QED
  BY <1>4, <1>5, SameReported

\* An entry of another workspace, or of another day, adds no line to a report.
LEMMA AddedElsewhere ==
  ASSUME NEW es, NEW fs, NEW t, NEW days, NEW n,
         DOMAIN es = DOMAIN fs \cup {n}, n \notin DOMAIN fs,
         \A i \in DOMAIN fs : es[i] = fs[i],
         ~(es[n].tenant = t /\ es[n].date \in days)
  PROVE  SameLines(es, fs, t, days)
<1>1. Reported(es, t, days) = Reported(fs, t, days)
  BY DEF Reported
<1>2. \A i \in Reported(es, t, days) : es[i].lines = fs[i].lines
  BY <1>1 DEF Reported
<1>3. QED
  BY <1>1, <1>2, SameReported

\* Whatever calls do in one workspace, the reports of another stay what they
\* are, line by line (_posted_lines_with_accounts, reporting/services.py:50-55).
THEOREM WorkspacesStayApart == Spec => ReportsStayApart
<1>1. \A t : EntriesOf(entries', t) = EntriesOf(entries, t) =>
        BalanceSheet(entries', t, Dates) = BalanceSheet(entries, t, Dates)
  BY OwnLines, SameReports
<1>2. [\A t \in Tenants :
         entries' # entries /\ EntriesOf(entries', t) = EntriesOf(entries, t) =>
           BalanceSheet(entries', t, Dates) = BalanceSheet(entries, t, Dates)]_vars
  BY <1>1
<1>3. QED
  BY <1>2, PTL DEF ReportsStayApart

-----------------------------------------------------------------------------
(* The audit trail *)

\* No two calls have posted the same entry, and the reversal that a "void"
\* event names was posted by a call that has ended.
PostedOnce ==
  /\ \A r \in Requests : posted[r] \in {0} \cup EntryIds
  /\ \A r, q \in Requests : posted[r] = posted[q] /\ posted[r] # 0 => r = q

VoidEventsDone == \A k \in Events("void") :
  \E q \in Requests : pc[q] = "done" /\ posted[q] = audit[k].reversal

TrailInv == VoidInv /\ PostedOnce /\ VoidEventsDone /\ AuditTellsLedger

\* A call that has ended does nothing more.
LEMMA DoneStaysDone ==
  ASSUME TypeOK, [Next]_vars, NEW q \in Requests, pc[q] = "done"
  PROVE  pc'[q] = "done" /\ posted'[q] = posted[q]
<1>1. CASE UNCHANGED vars
  BY <1>1 DEF vars
<1>2. ASSUME NEW r \in Requests, r = q PROVE ~(Begin(r) \/ Advance(r) \/ Crash(r))
  BY <1>2 DEF Begin, Submit, ReadOriginal, VoidNotFound, ReadPeriod, ReadYear,
     Advance, CheckPeriod, CommitPosting, PostingFails, CheckReversalPeriod,
     PeriodCheckRaises, FlipOriginal, CommitPeriods, Crash, Running, Writing
<1>3. ASSUME NEW r \in Requests, r # q, Begin(r)
      PROVE  pc'[q] = "done" /\ posted'[q] = posted[q]
  BY <1>3 DEF Begin, Submit, ReadOriginal, VoidNotFound, ReadPeriod, ReadYear, Goto, TypeOK
<1>4. ASSUME NEW r \in Requests, r # q, Advance(r)
      PROVE  pc'[q] = "done" /\ posted'[q] = posted[q]
  BY <1>4 DEF Advance, CheckPeriod, CommitPosting, PostingFails, CheckReversalPeriod,
     PeriodCheckRaises, FlipOriginal, CommitPeriods, Goto, TypeOK
<1>5. ASSUME NEW r \in Requests, r # q, Crash(r)
      PROVE  pc'[q] = "done" /\ posted'[q] = posted[q]
  BY <1>5 DEF Crash, Goto, TypeOK
<1>6. QED
  BY <1>1, <1>2, <1>3, <1>4, <1>5 DEF Next

\* What appending to a sequence does.
LEMMA Appended ==
  ASSUME NEW S, NEW s \in Seq(S), NEW e
  PROVE  LET n == Len(s) + 1
         IN  /\ DOMAIN Append(s, e) = DOMAIN s \cup {n}
             /\ n \in Nat /\ \A k \in DOMAIN s : k \in Nat /\ k < n
             /\ \A k \in DOMAIN s : Append(s, e)[k] = s[k]
             /\ Append(s, e)[n] = e
OBVIOUS

\* The trail before any call has been made.
LEMMA TrailInvInit == Init => TrailInv
<1> SUFFICES ASSUME Init PROVE TrailInv
  OBVIOUS
<1>1. VoidInv
  BY VoidInvInit
<1>2. DOMAIN entries = {} /\ DOMAIN audit = {} /\ \A r \in Requests : posted[r] = 0
  BY DEF Init
<1>3. QED
  BY <1>1, <1>2 DEF TrailInv, PostedOnce, VoidEventsDone, AuditTellsLedger, Events, EntryIds

\* The commit of an entry: a "post" event that names it.
LEMMA TrailPost ==
  ASSUME TrailInv, [Next]_vars, NEW r \in Requests, CommitPosting(r)
  PROVE  PostedOnce' /\ VoidEventsDone' /\ AuditTellsLedger'
<1> DEFINE n == Len(entries) + 1
           m == Len(audit) + 1
<1>t. TypeOK /\ VoidInv
  BY DEF TrailInv, VoidInv, TypeInv
<1>1. /\ DOMAIN entries' = DOMAIN entries \cup {n}
      /\ n \in Nat /\ n \notin DOMAIN entries
      /\ \A i \in DOMAIN entries : entries'[i] = entries[i]
      /\ entries'[n].status = "POSTED"
  BY <1>t, PostedEntry
<1>2. \A i \in DOMAIN entries : i \in Nat /\ 0 < i /\ i < n
  BY <1>t DEF TypeOK
<1>3. /\ DOMAIN audit' = DOMAIN audit \cup {m}
      /\ m \in Nat /\ \A k \in DOMAIN audit : k \in Nat /\ k < m
      /\ \A k \in DOMAIN audit : audit'[k] = audit[k]
      /\ audit'[m].entity = n /\ audit'[m].action = "post"
  <2>1. audit \in Seq(AuditEvent)
    BY <1>t DEF TypeOK
  <2>2. audit' = Append(audit, [entity |-> n, action |-> "post", reversal |-> 0])
    BY DEF CommitPosting
  <2>3. QED
    BY <2>1, <2>2, Appended
<1>4. Events("void")' = Events("void") /\ Events("post")' = Events("post") \cup {m}
  BY <1>3 DEF Events
<1>5. posted'[r] = n /\ pc[r] = "commit"
      /\ \A q \in Requests : q # r => posted'[q] = posted[q]
  BY <1>t DEF CommitPosting, TypeOK
<1>6. PostedOnce'
  BY <1>1, <1>2, <1>5 DEF TrailInv, PostedOnce, EntryIds
<1>7. VoidEventsDone'
  BY <1>3, <1>4, <1>t, DoneStaysDone DEF TrailInv, VoidEventsDone, Events
<1>8. AuditTellsLedger'
  <2>. USE DEF EntryIds
  <2>e. /\ \A k \in Events("post") \cup Events("void") : k \in DOMAIN audit /\ k # m
        /\ \A k \in Events("post") : audit[k].entity \in DOMAIN entries
    BY <1>3 DEF Events, TrailInv, AuditTellsLedger
  <2>1. {audit'[k].entity : k \in Events("post")'} = EntryIds'
    <3>1. {audit'[k].entity : k \in Events("post") \cup {m}}
          = {audit[k].entity : k \in Events("post")} \cup {n}
      BY <1>3, <2>e
    <3>2. {audit[k].entity : k \in Events("post")} = DOMAIN entries
      BY DEF TrailInv, AuditTellsLedger
    <3>3. QED
      BY <3>1, <3>2, <1>1, <1>4
  <2>2. \A k, l \in Events("post")' : k < l => audit'[k].entity < audit'[l].entity
    <3>1. \A k \in Events("post") : k < m /\ ~(m < k) /\ audit[k].entity < n
      BY <1>2, <1>3, <2>e
    <3>2. ~(m < m)
      BY <1>3
    <3>3. \A k, l \in Events("post") : k < l => audit[k].entity < audit[l].entity
      BY DEF TrailInv, AuditTellsLedger
    <3>4. QED
      BY <1>3, <1>4, <2>e, <3>1, <3>2, <3>3
  <2>3. \A k \in Events("void")' :
          /\ audit'[k].entity \in EntryIds' /\ audit'[k].reversal \in EntryIds'
          /\ entries'[audit'[k].entity].status = "VOID"
          /\ Reversal(audit[k].reversal, audit[k].entity)'
    BY <1>1, <1>3, <1>4, <2>e DEF TrailInv, AuditTellsLedger, Reversal
  <2>4. \A k, l \in Events("void")' : audit'[k].reversal = audit'[l].reversal => k = l
    BY <1>3, <1>4, <2>e DEF TrailInv, AuditTellsLedger
  <2>5. \A i \in EntryIds' : entries'[i].status = "VOID" =>
          \E k \in Events("void")' : audit'[k].entity = i
    BY <1>1, <1>3, <1>4, <2>e DEF TrailInv, AuditTellsLedger
  <2>6. QED
    BY <2>1, <2>2, <2>3, <2>4, <2>5 DEF AuditTellsLedger
<1>9. QED
  BY <1>6, <1>7, <1>8

\* The second commit of a void: a "void" event with a reversal no other names.
LEMMA TrailVoid ==
  ASSUME TrailInv, [Next]_vars, NEW r \in Requests, FlipOriginal(r)
  PROVE  PostedOnce' /\ VoidEventsDone' /\ AuditTellsLedger'
<1> DEFINE o == draft[r].reverses
           m == Len(audit) + 1
<1>t. TypeOK /\ TypeInv /\ VoidInv
  BY DEF TrailInv, VoidInv, TypeInv
<1>1. /\ o \in DOMAIN entries
      /\ DOMAIN entries' = DOMAIN entries
      /\ \A i \in DOMAIN entries :
           /\ entries'[i].tenant = entries[i].tenant
           /\ entries'[i].reverses = entries[i].reverses
           /\ entries'[i].lines = entries[i].lines
           /\ entries'[i].status = IF i = o THEN "VOID" ELSE entries[i].status
  BY <1>t, VoidedEntry
<1>2. posted[r] \in EntryIds /\ Reversal(posted[r], o)
  BY <1>t DEF VoidInv, FlipsReversed, FlipOriginal
<1>3. /\ DOMAIN audit' = DOMAIN audit \cup {m}
      /\ m \in Nat /\ \A k \in DOMAIN audit : k \in Nat /\ k < m
      /\ \A k \in DOMAIN audit : audit'[k] = audit[k]
      /\ audit'[m].entity = o /\ audit'[m].action = "void" /\ audit'[m].reversal = posted[r]
  <2>1. audit \in Seq(AuditEvent)
    BY <1>t DEF TypeOK
  <2>2. audit' = Append(audit, [entity |-> o, action |-> "void", reversal |-> posted[r]])
    BY DEF FlipOriginal, VoidEvent
  <2>3. QED
    BY <2>1, <2>2, Appended
<1>4. Events("void")' = Events("void") \cup {m} /\ Events("post")' = Events("post")
  BY <1>3 DEF Events
<1>5. posted' = posted /\ pc[r] = "flip" /\ pc'[r] = "done"
  BY <1>t DEF FlipOriginal, Goto, TypeOK
<1>6. PostedOnce'
  BY <1>1, <1>5 DEF TrailInv, PostedOnce, EntryIds
<1>e. /\ \A k \in Events("post") \cup Events("void") : k \in DOMAIN audit /\ k # m
      /\ \A k \in Events("post") : audit[k].entity \in DOMAIN entries
  BY <1>3 DEF Events, TrailInv, AuditTellsLedger, EntryIds
<1>7. VoidEventsDone'
  BY <1>3, <1>4, <1>5, <1>t, <1>e, DoneStaysDone DEF TrailInv, VoidEventsDone
<1>8. \A k \in Events("void") : audit[k].reversal # posted[r]
  <2>1. ASSUME NEW k \in Events("void"), audit[k].reversal = posted[r] PROVE FALSE
    <3>1. PICK q \in Requests : pc[q] = "done" /\ posted[q] = posted[r]
      BY <2>1 DEF TrailInv, VoidEventsDone
    <3>2. posted[r] # 0
      BY <1>2, <1>t DEF TypeOK, EntryIds
    <3>3. QED
      BY <3>1, <3>2, <1>5 DEF TrailInv, PostedOnce
  <2>2. QED
    BY <2>1
<1>9. AuditTellsLedger'
  <2>. USE DEF EntryIds
  <2>1. {audit'[k].entity : k \in Events("post")'} = EntryIds'
    <3>1. {audit'[k].entity : k \in Events("post")} = {audit[k].entity : k \in Events("post")}
      BY <1>3, <1>e
    <3>2. {audit[k].entity : k \in Events("post")} = DOMAIN entries
      BY DEF TrailInv, AuditTellsLedger
    <3>3. QED
      BY <3>1, <3>2, <1>1, <1>4
  <2>2. \A k, l \in Events("post")' : k < l => audit'[k].entity < audit'[l].entity
    BY <1>3, <1>4, <1>e DEF TrailInv, AuditTellsLedger
  <2>3. ASSUME NEW k \in Events("void")'
        PROVE  /\ audit'[k].entity \in EntryIds' /\ audit'[k].reversal \in EntryIds'
               /\ entries'[audit'[k].entity].status = "VOID"
               /\ Reversal(audit[k].reversal, audit[k].entity)'
    <3>1. CASE k = m
      BY <3>1, <1>1, <1>2, <1>3 DEF Reversal
    <3>2. CASE k \in Events("void")
      <4>1. audit'[k] = audit[k]
        BY <3>2, <1>3, <1>e
      <4>2. /\ audit[k].entity \in DOMAIN entries /\ audit[k].reversal \in DOMAIN entries
            /\ entries[audit[k].entity].status = "VOID"
            /\ Reversal(audit[k].reversal, audit[k].entity)
        BY <3>2 DEF TrailInv, AuditTellsLedger
      <4>3. QED
        BY <4>1, <4>2, <1>1 DEF Reversal
    <3>3. QED
      BY <3>1, <3>2, <1>4
  <2>4. \A k, l \in Events("void")' : audit'[k].reversal = audit'[l].reversal => k = l
    BY <1>3, <1>4, <1>8, <1>e DEF TrailInv, AuditTellsLedger
  <2>5. \A i \in EntryIds' : entries'[i].status = "VOID" =>
          \E k \in Events("void")' : audit'[k].entity = i
    BY <1>1, <1>3, <1>4, <1>e DEF TrailInv, AuditTellsLedger
  <2>6. QED
    BY <2>1, <2>2, <2>3, <2>4, <2>5 DEF AuditTellsLedger
<1>10. QED
  BY <1>6, <1>7, <1>9

\* Every step keeps the trail true to the ledger.
LEMMA TrailInvNext == TrailInv /\ [Next]_vars => TrailInv'
<1> SUFFICES ASSUME TrailInv, [Next]_vars PROVE TrailInv'
  OBVIOUS
<1>t. VoidInv' /\ TypeOK
  BY VoidInvNext DEF TrailInv, VoidInv, TypeInv
<1>1. CASE UNCHANGED <<entries, audit, posted>>
  <2>1. PostedOnce'
    BY <1>1 DEF TrailInv, PostedOnce, EntryIds
  <2>2. VoidEventsDone'
    BY <1>1, <1>t, DoneStaysDone DEF TrailInv, VoidEventsDone, Events
  <2>3. AuditTellsLedger'
    BY <1>1 DEF TrailInv, AuditTellsLedger, Events, EntryIds, Reversal
  <2>4. QED
    BY <2>1, <2>2, <2>3, <1>t DEF TrailInv
<1>2. QED
  BY <1>1, <1>t, WhoWrites, TrailPost, TrailVoid DEF TrailInv

\* The audit trail tells the history of the ledger (core/audit.py:49-51): one
\* "post" event per entry, in commit order, and one "void" event per reversal
\* whose original is marked, however calls overlap and wherever they stop.
THEOREM TrailIsTrue == Spec => []AuditTellsLedger
<1>1. TrailInv => AuditTellsLedger
  BY DEF TrailInv
<1>2. QED
  BY <1>1, TrailInvInit, TrailInvNext, PTL DEF Spec

-----------------------------------------------------------------------------
(* Whose rows a call touches *)

\* The two halves of OneOwnerPerCall.
ReversalsOwned == \A j \in EntryIds : entries[j].reverses # 0 =>
  entries[entries[j].reverses].tenant = entries[j].tenant
LoadsOwned == \A r \in Requests : \A p, q \in DOMAIN loaded[r] : Span[p].tenant = Span[q].tenant

OwnerInv == VoidInv /\ ReversalsOwned /\ LoadsOwned

LEMMA OwnerInvInit == Init => OwnerInv
<1> SUFFICES ASSUME Init PROVE OwnerInv
  OBVIOUS
<1>1. DOMAIN entries = {} /\ \A r \in Requests : DOMAIN loaded[r] = {}
  BY DEF Init
<1>2. QED
  BY <1>1, VoidInvInit DEF OwnerInv, ReversalsOwned, LoadsOwned, EntryIds

\* A reversal is written in the workspace whose entry the call has read.
LEMMA ReversalsOwnedNext == VoidInv /\ ReversalsOwned /\ [Next]_vars => ReversalsOwned'
<1> SUFFICES ASSUME VoidInv, ReversalsOwned, [Next]_vars PROVE ReversalsOwned'
  OBVIOUS
<1> USE DEF EntryIds
<1>0. \A j \in DOMAIN entries : entries[j].reverses \in {0} \cup DOMAIN entries
  BY DEF VoidInv, EntriesRecordable
<1>1. ASSUME NEW r \in Requests, CommitPosting(r) PROVE ReversalsOwned'
  <2> DEFINE n == Len(entries) + 1
  <2>1. /\ DOMAIN entries' = DOMAIN entries \cup {n}
        /\ n \notin DOMAIN entries
        /\ \A i \in DOMAIN entries : entries'[i] = entries[i]
        /\ entries'[n].reverses = draft[r].reverses
        /\ entries'[n].tenant = draft[r].tenant
    BY <1>1, PostedEntry
  <2>2. draft[r].reverses # 0 =>
          /\ draft[r].reverses \in DOMAIN entries
          /\ draft[r].tenant = entries[draft[r].reverses].tenant
    BY <1>1 DEF CommitPosting, VoidInv, TypeInv, DraftOK, DraftsMirror, Building
  <2>3. QED
    BY <1>0, <2>1, <2>2 DEF ReversalsOwned
<1>2. ASSUME NEW r \in Requests, FlipOriginal(r) PROVE ReversalsOwned'
  <2>1. /\ DOMAIN entries' = DOMAIN entries
        /\ \A i \in DOMAIN entries :
             /\ entries'[i].tenant = entries[i].tenant
             /\ entries'[i].reverses = entries[i].reverses
    BY <1>2, VoidedEntry DEF VoidInv
  <2>2. QED
    BY <1>0, <2>1 DEF ReversalsOwned
<1>3. CASE UNCHANGED <<entries, audit, posted>>
  BY <1>3 DEF ReversalsOwned
<1>4. QED
  BY <1>1, <1>2, <1>3, WhoWrites

\* The rows of periods a call has read, and may write, have one owner.
LEMMA LoadsOwnedNext == TypeOK /\ LoadsOwned /\ [Next]_vars => LoadsOwned'
<1> SUFFICES ASSUME TypeOK, LoadsOwned, [Next]_vars PROVE LoadsOwned'
  OBVIOUS
<1>1. ASSUME NEW r \in Requests, NEW rows, Load(r, rows),
             \A p, q \in rows : Span[p].tenant = Span[q].tenant
      PROVE  LoadsOwned'
  <2>1. /\ DOMAIN loaded'[r] = rows
        /\ \A q \in Requests : q # r => loaded'[q] = loaded[q]
    BY <1>1 DEF Load, TypeOK
  <2>2. QED
    BY <1>1, <2>1 DEF LoadsOwned
<1>2. ASSUME UNCHANGED loaded PROVE LoadsOwned'
  BY <1>2 DEF LoadsOwned
<1>3. ASSUME NEW r \in Requests, ReadPeriod(r) PROVE LoadsOwned'
  <2>1. \/ \E p \in Periods : Load(r, {p})
        \/ UNCHANGED loaded
    BY <1>3 DEF ReadPeriod
  <2>2. QED
    BY <1>1, <1>2, <2>1
<1>4. ASSUME NEW r \in Requests, ReadYear(r) PROVE LoadsOwned'
  <2>1. PICK t \in Tenants, y \in Years :
          Load(r, {p \in Periods : Span[p].tenant = t /\ YearOf[Span[p].last] = y})
    BY <1>4 DEF ReadYear
  <2>2. QED
    BY <1>1, <2>1
<1>5. ASSUME NEW r \in Requests,
             \/ Submit(r) \/ ReadOriginal(r) \/ VoidNotFound(r) \/ Advance(r) \/ Crash(r)
      PROVE  UNCHANGED loaded
  BY <1>5 DEF Submit, ReadOriginal, VoidNotFound, Advance, CheckPeriod, CommitPosting,
     PostingFails, CheckReversalPeriod, PeriodCheckRaises, FlipOriginal, CommitPeriods, Crash
<1>6. QED
  BY <1>2, <1>3, <1>4, <1>5 DEF Next, Begin, vars

\* A call of one workspace writes nothing of another's (void.py:57-58,
\* periods.py:88, periods.py:118): neither the entry that it reverses, nor a period.
THEOREM CallsKeepToTheirWorkspace == Spec => []OneOwnerPerCall
<1>1. OwnerInv => OneOwnerPerCall
  BY DEF OwnerInv, ReversalsOwned, LoadsOwned, OneOwnerPerCall
<1>2. OwnerInv /\ [Next]_vars => OwnerInv'
  BY VoidInvNext, ReversalsOwnedNext, LoadsOwnedNext DEF OwnerInv, VoidInv, TypeInv
<1>3. QED
  BY <1>1, <1>2, OwnerInvInit, PTL DEF Spec

-----------------------------------------------------------------------------
(* The reports tie out *)

\* Lines that can be added up: finitely many, in whole units, each on an account.
Summable(es, lines) ==
  /\ IsFiniteSet(lines)
  /\ \A o \in lines : /\ LineAt(es, o).account \in Accounts
                      /\ LineAt(es, o).debit \in Int
                      /\ LineAt(es, o).credit \in Int

\* Entries whose reports tie out: lists of such lines, each in balance.
Sound(es) ==
  /\ IsFiniteSet(DOMAIN es)
  /\ \A i \in DOMAIN es :
       /\ IsFiniteSet(DOMAIN es[i].lines)
       /\ \A k \in DOMAIN es[i].lines : /\ es[i].lines[k].account \in Accounts
                                        /\ es[i].lines[k].debit \in Int
                                        /\ es[i].lines[k].credit \in Int
       /\ Balanced(es[i].lines)

AccountsOf(es, lines) == {LineAt(es, o).account : o \in lines}

LEMMA SummablePart ==
  ASSUME NEW es, NEW lines, Summable(es, lines), NEW some \in SUBSET lines
  PROVE  Summable(es, some)
BY FS_Subset DEF Summable

LEMMA FiniteAccounts ==
  ASSUME NEW es, NEW lines, Summable(es, lines)
  PROVE  IsFiniteSet(AccountsOf(es, lines)) /\ AccountsOf(es, lines) \subseteq Accounts
<1> DEFINE h == [o \in lines |-> LineAt(es, o).account]
<1>1. h \in Surjection(lines, AccountsOf(es, lines))
  BY DEF AccountsOf, Surjection
<1>2. QED
  BY <1>1, FS_Surjection DEF Summable, AccountsOf

LEMMA TotalsType ==
  ASSUME NEW es, NEW lines, Summable(es, lines)
  PROVE  /\ Debits(es, lines) \in Int /\ Credits(es, lines) \in Int
         /\ Amount(es, lines) \in Int
<1> DEFINE d == [o \in lines |-> LineAt(es, o).debit]
           c == [o \in lines |-> LineAt(es, o).credit]
<1>1. IsFiniteSet(lines) /\ d \in [lines -> Int] /\ c \in [lines -> Int]
  BY DEF Summable
<1>2. SumFunction(d) \in Int
  <2>. HIDE DEF d
  <2>1. QED
    BY <1>1, SumType
<1>3. SumFunction(c) \in Int
  <2>. HIDE DEF c
  <2>1. QED
    BY <1>1, SumType
<1>4. QED
  BY <1>2, <1>3 DEF Debits, Credits, Amount

\* Every line a report counts is counted on one account.
LEMMA TotalsByAccount ==
  ASSUME NEW es, NEW lines, Summable(es, lines)
  PROVE  /\ SumFunction([a \in AccountsOf(es, lines) |-> Debits(es, OnAccount(es, a, lines))])
            = Debits(es, lines)
         /\ SumFunction([a \in AccountsOf(es, lines) |-> Credits(es, OnAccount(es, a, lines))])
            = Credits(es, lines)
<1> DEFINE K == AccountsOf(es, lines)
           key == [o \in lines |-> LineAt(es, o).account]
           d == [o \in lines |-> LineAt(es, o).debit]
           c == [o \in lines |-> LineAt(es, o).credit]
<1>1. /\ IsFiniteSet(lines) /\ d \in [lines -> Int] /\ c \in [lines -> Int]
      /\ key \in [lines -> K]
  BY DEF Summable, AccountsOf
<1>2. IsFiniteSet(K)
  BY FiniteAccounts
<1>3. ASSUME NEW a
      PROVE  /\ {o \in lines : key[o] = a} = OnAccount(es, a, lines)
             /\ SumFunction(Part(d, {o \in lines : key[o] = a})) = Debits(es, OnAccount(es, a, lines))
             /\ SumFunction(Part(c, {o \in lines : key[o] = a})) = Credits(es, OnAccount(es, a, lines))
  <2>1. {o \in lines : key[o] = a} = OnAccount(es, a, lines)
    BY DEF OnAccount
  <2>2. OnAccount(es, a, lines) \subseteq lines
    BY DEF OnAccount
  <2>3. /\ Part(d, OnAccount(es, a, lines))
           = [o \in OnAccount(es, a, lines) |-> LineAt(es, o).debit]
        /\ Part(c, OnAccount(es, a, lines))
           = [o \in OnAccount(es, a, lines) |-> LineAt(es, o).credit]
    BY <2>2 DEF Part
  <2>. HIDE DEF d, c, key
  <2>4. QED
    BY <2>1, <2>3, Zenon DEF Debits, Credits
<1>4. SumFunction(d) = SumFunction([a \in K |-> SumFunction(Part(d, {o \in lines : key[o] = a}))])
  <2>. HIDE DEF d, key, K
  <2>1. QED
    BY <1>1, <1>2, SumByKey
<1>5. SumFunction(c) = SumFunction([a \in K |-> SumFunction(Part(c, {o \in lines : key[o] = a}))])
  <2>. HIDE DEF c, key, K
  <2>1. QED
    BY <1>1, <1>2, SumByKey
<1>6. /\ [a \in K |-> SumFunction(Part(d, {o \in lines : key[o] = a}))]
         = [a \in K |-> Debits(es, OnAccount(es, a, lines))]
      /\ [a \in K |-> SumFunction(Part(c, {o \in lines : key[o] = a}))]
         = [a \in K |-> Credits(es, OnAccount(es, a, lines))]
  <2>. HIDE DEF d, c, key, K
  <2>1. QED
    BY <1>3
<1>7. SumFunction(d) = Debits(es, lines) /\ SumFunction(c) = Credits(es, lines)
  BY DEF Debits, Credits
<1>8. QED
  <2>. HIDE DEF d, c, key, K
  <2>1. QED
    BY <1>4, <1>5, <1>6, <1>7 DEF K

\* The lines a report counts are those of the entries it is drawn from.
LEMMA LinesOfReported ==
  ASSUME NEW es, NEW t, NEW days, Sound(es)
  PROVE  LET R == Reported(es, t, days)
             D == [i \in R |-> DOMAIN es[i].lines]
         IN  /\ PostedLines(es, t, days) = Pairs(R, D)
             /\ IsFiniteSet(R) /\ \A i \in R : IsFiniteSet(D[i])
<1>1. Reported(es, t, days) \subseteq DOMAIN es
  BY DEF Reported
<1>2. IsFiniteSet(Reported(es, t, days))
  BY <1>1, FS_Subset DEF Sound
<1>3. \A i \in Reported(es, t, days) : IsFiniteSet(DOMAIN es[i].lines)
  BY <1>1 DEF Sound
<1>4. QED
  BY <1>2, <1>3 DEF PostedLines, Reported, Pairs

LEMMA ReportedSummable ==
  ASSUME NEW es, NEW t, NEW days, Sound(es)
  PROVE  Summable(es, PostedLines(es, t, days))
<1> DEFINE R == Reported(es, t, days)
           D == [i \in R |-> DOMAIN es[i].lines]
<1>1. /\ PostedLines(es, t, days) = Pairs(R, D)
      /\ IsFiniteSet(R) /\ \A i \in R : IsFiniteSet(D[i])
  BY LinesOfReported
<1>2. IsFiniteSet(Pairs(R, D))
  <2>. HIDE DEF R, D
  <2>1. QED
    BY <1>1, PairsFinite
<1>3. ASSUME NEW o \in PostedLines(es, t, days)
      PROVE  o[1] \in DOMAIN es /\ o[2] \in DOMAIN es[o[1]].lines
  BY DEF PostedLines
<1>4. QED
  BY <1>1, <1>2, <1>3 DEF Summable, Sound, LineAt

\* As every entry balances, so do all the lines of a report.
LEMMA ReportedBalance ==
  ASSUME NEW es, NEW t, NEW days, Sound(es)
  PROVE  Debits(es, PostedLines(es, t, days)) = Credits(es, PostedLines(es, t, days))
<1> DEFINE lines == PostedLines(es, t, days)
           R == Reported(es, t, days)
           D == [i \in R |-> DOMAIN es[i].lines]
           d == [o \in lines |-> LineAt(es, o).debit]
           c == [o \in lines |-> LineAt(es, o).credit]
<1>1. lines = Pairs(R, D) /\ IsFiniteSet(R) /\ \A i \in R : IsFiniteSet(D[i])
  BY LinesOfReported
<1>2. d \in [Pairs(R, D) -> Int] /\ c \in [Pairs(R, D) -> Int]
  BY <1>1, ReportedSummable DEF Summable
<1>3. ASSUME NEW i \in R
      PROVE  /\ [k \in D[i] |-> d[<<i, k>>]] = [k \in DOMAIN es[i].lines |-> es[i].lines[k].debit]
             /\ [k \in D[i] |-> c[<<i, k>>]] = [k \in DOMAIN es[i].lines |-> es[i].lines[k].credit]
  <2>1. \A k \in DOMAIN es[i].lines : <<i, k>> \in lines
    BY <1>1 DEF Pairs
  <2>2. QED
    BY <2>1 DEF LineAt
<1>4. ASSUME NEW i \in R
      PROVE  SumFunction([k \in D[i] |-> d[<<i, k>>]]) = SumFunction([k \in D[i] |-> c[<<i, k>>]])
  <2>1. Balanced(es[i].lines)
    BY DEF Reported, Sound
  <2>2. SumFunction([k \in DOMAIN es[i].lines |-> es[i].lines[k].debit])
        = SumFunction([k \in DOMAIN es[i].lines |-> es[i].lines[k].credit])
    BY <2>1 DEF Balanced, TotalDebit, TotalCredit
  <2>. HIDE DEF d, c, D, R
  <2>3. QED
    BY <1>3, <2>2, Zenon
<1>5. SumFunction(d)
      = SumFunction([i \in R |-> SumFunction([k \in D[i] |-> d[<<i, k>>]])])
  <2>. HIDE DEF d, D, R
  <2>1. QED
    BY <1>1, <1>2, SumOfPairs
<1>6. SumFunction(c)
      = SumFunction([i \in R |-> SumFunction([k \in D[i] |-> c[<<i, k>>]])])
  <2>. HIDE DEF c, D, R
  <2>1. QED
    BY <1>1, <1>2, SumOfPairs
<1>7. [i \in R |-> SumFunction([k \in D[i] |-> d[<<i, k>>]])]
      = [i \in R |-> SumFunction([k \in D[i] |-> c[<<i, k>>]])]
  <2>. HIDE DEF d, c, D, R
  <2>1. QED
    BY <1>4
<1>8. SumFunction(d) = SumFunction(c)
  <2>. HIDE DEF d, c, D, R
  <2>1. QED
    BY <1>5, <1>6, <1>7
<1>9. QED
  BY <1>8 DEF Debits, Credits

\* The rows of a section add up to what its accounts come to together.
LEMMA SectionTotal ==
  ASSUME NEW es, NEW lines, Summable(es, lines), NEW type
  PROVE  LET those == OfType(es, type, lines)
         IN  /\ Total(Rows(es, type, lines)) = Signed(type, Amount(es, those))
             /\ Amount(es, those) \in Int
             /\ IsFiniteSet(AccountsOf(es, those)) /\ AccountsOf(es, those) \subseteq Accounts
             /\ Rows(es, type, lines) \in [AccountsOf(es, those) -> Int]
<1> DEFINE those == OfType(es, type, lines)
           K == AccountsOf(es, those)
           d == [a \in K |-> Debits(es, OnAccount(es, a, those))]
           c == [a \in K |-> Credits(es, OnAccount(es, a, those))]
<1>1. Summable(es, those)
  BY SummablePart DEF OfType
<1>2. IsFiniteSet(K) /\ K \subseteq Accounts
  BY <1>1, FiniteAccounts
<1>3. \A a : Summable(es, OnAccount(es, a, those))
  BY <1>1, SummablePart DEF OnAccount
<1>4. d \in [K -> Int] /\ c \in [K -> Int]
  BY <1>3, TotalsType
<1>5. SumFunction(d) = Debits(es, those) /\ SumFunction(c) = Credits(es, those)
  BY <1>1, TotalsByAccount
<1>6. Rows(es, type, lines) = [a \in K |-> Signed(type, d[a] - c[a])]
  BY DEF Rows, AccountsOf, Amount
<1>7. Debits(es, those) \in Int /\ Credits(es, those) \in Int
  BY <1>1, TotalsType
<1>. HIDE DEF d, c, K
<1>8. SumFunction([a \in K |-> d[a] - c[a]]) = SumFunction(d) - SumFunction(c)
  BY <1>2, <1>4, SumMinus
<1>9. SumFunction([a \in K |-> c[a] - d[a]]) = SumFunction(c) - SumFunction(d)
  BY <1>2, <1>4, SumMinus
<1>10. Total(Rows(es, type, lines)) = Signed(type, Amount(es, those))
  <2>1. CASE type \in {"asset", "expense"}
    <3>1. Rows(es, type, lines) = [a \in K |-> d[a] - c[a]]
      BY <1>6, <2>1 DEF Signed
    <3>2. SumFunction(Rows(es, type, lines)) = SumFunction(d) - SumFunction(c)
      BY <1>8, <3>1
    <3>3. QED
      BY <1>5, <2>1, <3>2 DEF Total, Signed, Amount
  <2>2. CASE type \notin {"asset", "expense"}
    <3>1. \A a \in K : -(d[a] - c[a]) = c[a] - d[a]
      BY <1>4
    <3>2. Rows(es, type, lines) = [a \in K |-> c[a] - d[a]]
      BY <1>6, <2>2, <3>1 DEF Signed
    <3>3. SumFunction(Rows(es, type, lines)) = SumFunction(c) - SumFunction(d)
      BY <1>9, <3>2
    <3>4. -(Debits(es, those) - Credits(es, those)) = Credits(es, those) - Debits(es, those)
      BY <1>7
    <3>5. QED
      BY <1>5, <2>2, <3>3, <3>4 DEF Total, Signed, Amount
  <2>3. QED
    BY <2>1, <2>2
<1>11. \A a \in K : Signed(type, d[a] - c[a]) \in Int
  BY <1>4 DEF Signed
<1>12. QED
  BY <1>1, <1>2, <1>6, <1>10, <1>11, TotalsType DEF K

\* Every line a report counts is on an account of one of the five types.
LEMMA SumsByType ==
  ASSUME NEW es, NEW lines, Summable(es, lines), NEW f \in [lines -> Int]
  PROVE  LET of(type) == SumFunction(Part(f, OfType(es, type, lines)))
         IN  SumFunction(f) = of("asset") + (of("liability") + (of("equity")
                                + (of("revenue") + of("expense"))))
<1> DEFINE A == OfType(es, "asset", lines)
           L == OfType(es, "liability", lines)
           Q == OfType(es, "equity", lines)
           R == OfType(es, "revenue", lines)
           E == OfType(es, "expense", lines)
<1>1. /\ A \in SUBSET lines /\ L \in SUBSET lines /\ Q \in SUBSET lines
      /\ R \in SUBSET lines /\ E \in SUBSET lines
  BY DEF OfType
<1>2. \A o \in lines : AccountType[LineAt(es, o).account] \in AccountTypes
  BY ReportsAssumption, ChartAssumption DEF Summable
<1>3. lines = A \cup (L \cup (Q \cup (R \cup E)))
  BY <1>2 DEF OfType, AccountTypes
<1>4. /\ A \cap (L \cup (Q \cup (R \cup E))) = {} /\ L \cap (Q \cup (R \cup E)) = {}
      /\ Q \cap (R \cup E) = {} /\ R \cap E = {}
  BY DEF OfType
<1>5. IsFiniteSet(lines)
  BY DEF Summable
<1>. HIDE DEF A, L, Q, R, E
<1>6. SumFunction(Part(f, R \cup E)) = SumFunction(Part(f, R)) + SumFunction(Part(f, E))
  BY <1>1, <1>4, <1>5, SumAdd
<1>7. SumFunction(Part(f, Q \cup (R \cup E)))
      = SumFunction(Part(f, Q)) + SumFunction(Part(f, R \cup E))
  <2>1. R \cup E \in SUBSET lines
    BY <1>1
  <2>2. QED
    BY <1>1, <1>4, <1>5, <2>1, SumAdd
<1>8. SumFunction(Part(f, L \cup (Q \cup (R \cup E))))
      = SumFunction(Part(f, L)) + SumFunction(Part(f, Q \cup (R \cup E)))
  <2>1. Q \cup (R \cup E) \in SUBSET lines
    BY <1>1
  <2>2. QED
    BY <1>1, <1>4, <1>5, <2>1, SumAdd
<1>9. SumFunction(Part(f, A \cup (L \cup (Q \cup (R \cup E)))))
      = SumFunction(Part(f, A)) + SumFunction(Part(f, L \cup (Q \cup (R \cup E))))
  <2>1. L \cup (Q \cup (R \cup E)) \in SUBSET lines
    BY <1>1
  <2>2. QED
    BY <1>1, <1>4, <1>5, <2>1, SumAdd
<1>10. Part(f, A \cup (L \cup (Q \cup (R \cup E)))) = f
  BY <1>3, PartAll
<1>11. QED
  BY <1>6, <1>7, <1>8, <1>9, <1>10 DEF A, L, Q, R, E

\* Of lines in balance, what the five types come to cancels out.
LEMMA TypesCancel ==
  ASSUME NEW es, NEW lines, Summable(es, lines), Debits(es, lines) = Credits(es, lines)
  PROVE  LET of(type) == Amount(es, OfType(es, type, lines))
         IN  of("asset") + of("expense") = -of("liability") - of("equity") - of("revenue")
<1> DEFINE d == [o \in lines |-> LineAt(es, o).debit]
           c == [o \in lines |-> LineAt(es, o).credit]
           D(type) == Debits(es, OfType(es, type, lines))
           C(type) == Credits(es, OfType(es, type, lines))
<1>1. d \in [lines -> Int] /\ c \in [lines -> Int]
  BY DEF Summable
<1>2. ASSUME NEW type
      PROVE  /\ SumFunction(Part(d, OfType(es, type, lines))) = D(type)
             /\ SumFunction(Part(c, OfType(es, type, lines))) = C(type)
             /\ D(type) \in Int /\ C(type) \in Int
  <2> DEFINE those == OfType(es, type, lines)
  <2>1. those \in SUBSET lines
    BY DEF OfType
  <2>2. Part(d, those) = [o \in those |-> LineAt(es, o).debit]
    BY <2>1 DEF Part
  <2>3. Part(c, those) = [o \in those |-> LineAt(es, o).credit]
    BY <2>1 DEF Part
  <2>4. SumFunction(Part(d, those)) = D(type) /\ SumFunction(Part(c, those)) = C(type)
    <3>. HIDE DEF d, c, those
    <3>1. QED
      BY <2>2, <2>3, Zenon DEF Debits, Credits, those
  <2>5. Summable(es, those)
    BY <2>1, SummablePart
  <2>6. QED
    BY <2>4, <2>5, TotalsType
<1>3. SumFunction(d) = D("asset") + (D("liability") + (D("equity")
                         + (D("revenue") + D("expense"))))
  <2> DEFINE of(type) == SumFunction(Part(d, OfType(es, type, lines)))
  <2>. HIDE DEF d, D
  <2>1. SumFunction(d) = of("asset") + (of("liability") + (of("equity")
                           + (of("revenue") + of("expense"))))
    BY <1>1, SumsByType
  <2>2. \A type : of(type) = D(type)
    BY <1>2
  <2>. HIDE DEF of
  <2>3. QED
    BY <2>1, <2>2
<1>4. SumFunction(c) = C("asset") + (C("liability") + (C("equity")
                         + (C("revenue") + C("expense"))))
  <2> DEFINE of(type) == SumFunction(Part(c, OfType(es, type, lines)))
  <2>. HIDE DEF c, C
  <2>1. SumFunction(c) = of("asset") + (of("liability") + (of("equity")
                           + (of("revenue") + of("expense"))))
    BY <1>1, SumsByType
  <2>2. \A type : of(type) = C(type)
    BY <1>2
  <2>. HIDE DEF of
  <2>3. QED
    BY <2>1, <2>2
<1>5. SumFunction(d) = SumFunction(c)
  BY DEF Debits, Credits
<1>6. \A type : Amount(es, OfType(es, type, lines)) = D(type) - C(type)
  BY DEF Amount
<1>. HIDE DEF d, c, D, C
<1>7. QED
  BY <1>2, <1>3, <1>4, <1>5, <1>6

\* The row of retained earnings adds net income to the section.
LEMMA EquityTotal ==
  ASSUME NEW K \in SUBSET Accounts, IsFiniteSet(K), NEW rows \in [K -> Int], NEW income \in Int
  PROVE  Total(EquityRows(rows, income)) = Total(rows) + income
<1> DEFINE D == K \cup {Retained}
           f == EquityRows(rows, income)
<1>1. Retained \notin K
  BY ChartAssumption
<1>2. SumFunction(rows) \in Int
  BY SumType
<1>3. CASE income = 0
  <2>1. f = rows
    BY <1>1, <1>3 DEF EquityRows
  <2>2. QED
    BY <1>2, <1>3, <2>1 DEF Total
<1>4. CASE income # 0
  <2>1. f \in [D -> Int] /\ f[Retained] = income /\ \A a \in K : f[a] = rows[a]
    BY <1>1, <1>4 DEF EquityRows
  <2>2. IsFiniteSet(D)
    BY FS_AddElement
  <2>3. D \ {Retained} = K
    BY <1>1
  <2>4. Part(f, K) = rows
    BY <2>1 DEF Part
  <2>5. SumFunction(f) = f[Retained] + SumFunction(Part(f, D \ {Retained}))
    <3>. HIDE DEF f
    <3>1. Retained \in D
      OBVIOUS
    <3>. HIDE DEF D
    <3>2. QED
      BY <2>1, <2>2, <3>1, SumExtend
  <2>6. SumFunction(f) = SumFunction(rows) + income
    <3>. HIDE DEF f
    <3>1. QED
      BY <1>2, <2>1, <2>3, <2>4, <2>5
  <2>7. QED
    BY <2>6 DEF Total
<1>5. QED
  BY <1>3, <1>4

\* The reports of balanced entries tie out.
LEMMA SoundTiesOut ==
  ASSUME NEW es, NEW t, NEW days, Sound(es)
  PROVE  TiesOut(es, t, days)
<1> DEFINE lines == PostedLines(es, t, days)
           tb == TrialBalance(es, t, days)
           pl == ProfitAndLoss(es, t, days)
           sheet == BalanceSheet(es, t, days)
           of(type) == Amount(es, OfType(es, type, lines))
           rows(type) == Rows(es, type, lines)
<1>1. Summable(es, lines) /\ Debits(es, lines) = Credits(es, lines)
  BY ReportedSummable, ReportedBalance
<1>2. IsBalanced(tb)
  <2>1. /\ DOMAIN tb = AccountsOf(es, lines)
        /\ \A a \in DOMAIN tb : /\ tb[a].debit = Debits(es, OnAccount(es, a, lines))
                                /\ tb[a].credit = Credits(es, OnAccount(es, a, lines))
    BY DEF TrialBalance, AccountsOf
  <2>2. /\ [a \in DOMAIN tb |-> tb[a].debit]
           = [a \in AccountsOf(es, lines) |-> Debits(es, OnAccount(es, a, lines))]
        /\ [a \in DOMAIN tb |-> tb[a].credit]
           = [a \in AccountsOf(es, lines) |-> Credits(es, OnAccount(es, a, lines))]
    BY <2>1
  <2>3. TotalDebits(tb) = Debits(es, lines)
    BY <1>1, <2>2, TotalsByAccount DEF TotalDebits
  <2>4. TotalCredits(tb) = Credits(es, lines)
    BY <1>1, <2>2, TotalsByAccount DEF TotalCredits
  <2>5. QED
    BY <1>1, <2>3, <2>4 DEF IsBalanced
<1>3. \A type : Total(rows(type)) = Signed(type, of(type)) /\ of(type) \in Int
  BY <1>1, SectionTotal
<1>4. of("asset") + of("expense") = -of("liability") - of("equity") - of("revenue")
  BY <1>1, TypesCancel
<1> DEFINE income == pl.net_income
<1>5. income = Total(rows("revenue")) - Total(rows("expense"))
  BY DEF ProfitAndLoss, Net
<1>6. /\ sheet.assets = rows("asset") /\ sheet.liabilities = rows("liability")
      /\ sheet.equity = EquityRows(rows("equity"), income)
      /\ sheet.total_assets = Total(rows("asset"))
      /\ sheet.total_liabilities = Total(rows("liability"))
      /\ sheet.total_equity = Total(rows("equity")) + income
  BY DEF BalanceSheet
<1>7. /\ pl.total_revenue = Total(pl.revenue) /\ pl.total_expenses = Total(pl.expenses)
  BY DEF ProfitAndLoss
<1>8. income \in Int
  <2>. HIDE DEF rows, of, pl
  <2>1. QED
    BY <1>3, <1>5 DEF Signed
<1>9. Total(sheet.equity) = sheet.total_equity
  <2> DEFINE K == AccountsOf(es, OfType(es, "equity", lines))
  <2>1. K \in SUBSET Accounts /\ IsFiniteSet(K) /\ rows("equity") \in [K -> Int]
    BY <1>1, SectionTotal
  <2>. HIDE DEF K, rows, pl, sheet
  <2>2. QED
    BY <1>6, <1>8, <2>1, EquityTotal
<1>10. sheet.total_assets = sheet.total_liabilities + sheet.total_equity
  <2>. HIDE DEF rows, of, pl, sheet
  <2>1. QED
    BY <1>3, <1>4, <1>5, <1>6 DEF Signed
<1>11. ASSUME NEW type \in ReportTypes
       PROVE  \A k \in DOMAIN Export(type, es, t, days) :
                Total(Export(type, es, t, days)[k].rows) = Export(type, es, t, days)[k].total
  <2>1. CASE type = "trial_balance"
    <3> DEFINE d == [a \in DOMAIN tb |-> tb[a].debit]
               c == [a \in DOMAIN tb |-> tb[a].credit]
    <3>1. Export(type, es, t, days)
          = <<Section(d, TotalDebits(tb)), Section(c, TotalCredits(tb))>>
      BY <2>1 DEF Export
    <3>2. Total(d) = TotalDebits(tb) /\ Total(c) = TotalCredits(tb)
      BY DEF Total, TotalDebits, TotalCredits
    <3>. HIDE DEF d, c, tb
    <3>3. QED
      BY <3>1, <3>2 DEF Section
  <2>2. CASE type = "profit_and_loss"
    BY <1>7, <2>2 DEF Export, Section
  <2>3. CASE type = "balance_sheet"
    BY <1>6, <1>9, <2>3 DEF Export, Section
  <2>4. QED
    BY <2>1, <2>2, <2>3 DEF ReportTypes
<1>12. QED
  BY <1>2, <1>10, <1>11 DEF TiesOut

\* What is on record is on accounts of the chart: the foreign key of a line.
OnAccounts == \A i \in EntryIds : AccountsExist(entries[i].lines)

LEMMA OnAccountsNext == VoidInv /\ OnAccounts /\ [Next]_vars => OnAccounts'
<1> SUFFICES ASSUME VoidInv, OnAccounts, [Next]_vars PROVE OnAccounts'
  OBVIOUS
<1>1. ASSUME NEW r \in Requests, CommitPosting(r) PROVE OnAccounts'
  <2> DEFINE n == Len(entries) + 1
  <2>1. /\ DOMAIN entries' = DOMAIN entries \cup {n}
        /\ \A i \in DOMAIN entries : entries'[i] = entries[i]
        /\ entries'[n].lines = Stored(draft[r].lines)
    BY <1>1, PostedEntry
  <2>2. AccountsExist(Stored(draft[r].lines))
    BY <1>1 DEF CommitPosting, AccountsExist, Stored
  <2>3. QED
    BY <2>1, <2>2 DEF OnAccounts, EntryIds
<1>2. ASSUME NEW r \in Requests, FlipOriginal(r) PROVE OnAccounts'
  <2>1. /\ DOMAIN entries' = DOMAIN entries
        /\ \A i \in DOMAIN entries : entries'[i].lines = entries[i].lines
    BY <1>2, VoidedEntry DEF VoidInv
  <2>2. QED
    BY <2>1 DEF OnAccounts, EntryIds
<1>3. ASSUME UNCHANGED entries PROVE OnAccounts'
  BY <1>3 DEF OnAccounts, EntryIds
<1>4. QED
  BY <1>1, <1>2, <1>3, WhoWrites

\* A journal on accounts whose entries balance has sound reports.
LEMMA JournalIsSound ==
  ASSUME VoidInv, OnAccounts, StoredEntriesBalance
  PROVE  Sound(entries)
<1>1. entries \in Seq(Entry)
  BY DEF VoidInv, TypeInv, TypeOK
<1>2. DOMAIN entries = 1..Len(entries) /\ Len(entries) \in Nat
  BY <1>1
<1>3. IsFiniteSet(DOMAIN entries)
  BY <1>2, FS_Interval
<1>4. ASSUME NEW i \in DOMAIN entries
      PROVE  /\ IsFiniteSet(DOMAIN entries[i].lines)
             /\ \A k \in DOMAIN entries[i].lines : /\ entries[i].lines[k].account \in Accounts
                                                   /\ entries[i].lines[k].debit \in Int
                                                   /\ entries[i].lines[k].credit \in Int
             /\ Balanced(entries[i].lines)
  <2>1. entries[i] \in Entry
    BY <1>1, ElementOf
  <2> DEFINE ls == entries[i].lines
  <2>2. ls \in Seq(Line(AccountIds))
    BY <2>1 DEF Entry
  <2>3. \A k \in DOMAIN ls : ls[k] \in Line(AccountIds)
    BY <2>2, ElementOf
  <2>4. \A k \in DOMAIN ls : ls[k].debit \in Int /\ ls[k].credit \in Int
    BY <2>3 DEF Line
  <2>5. DOMAIN ls = 1..Len(ls) /\ Len(ls) \in Nat
    BY <2>2
  <2>6. IsFiniteSet(DOMAIN ls)
    BY <2>5, FS_Interval
  <2>7. QED
    BY <2>4, <2>6 DEF OnAccounts, StoredEntriesBalance, EntryIds, AccountsExist
<1>5. QED
  BY <1>3, <1>4 DEF Sound

\* The reports tie out (reporting/services.py:16-21, 212-216): when no submission
\* that passes the balance test loses its balance as it is rounded into the table,
\* the trial balance balances, assets equal liabilities and equity, and every
\* printed section adds up to its total, in every workspace and on every day.
THEOREM ReportsTieOut ==
  ASSUME \A ls \in Submissions : PassesBalanceCheck(ls) => Balanced(Stored(ls))
  PROVE  Spec => []BooksTieOut
<1>1. Spec => []StoredEntriesBalance
  BY EntriesBalance
<1>2. Init => VoidInv /\ OnAccounts
  BY VoidInvInit DEF Init, OnAccounts, EntryIds
<1>3. VoidInv /\ OnAccounts /\ StoredEntriesBalance => BooksTieOut
  BY JournalIsSound, SoundTiesOut DEF BooksTieOut
<1>4. VoidInv /\ OnAccounts /\ [Next]_vars => VoidInv' /\ OnAccounts'
  BY VoidInvNext, OnAccountsNext
<1>5. QED
  BY <1>1, <1>2, <1>3, <1>4, PTL DEF Spec

\* When callers send whole cents, as the invoices do (sales/services.py:104-135),
\* every entry on record is in balance and every report ties out.
THEOREM WholeCentsTieOut ==
  ASSUME \A ls \in Submissions : WholeCents(ls)
  PROVE  Spec => [](StoredEntriesBalance /\ BooksTieOut)
<1>1. \A ls \in Submissions : PassesBalanceCheck(ls) => Balanced(Stored(ls))
  BY WholeCentsKept, LedgerAssumption
<1>2. Spec => []StoredEntriesBalance
  BY <1>1, EntriesBalance
<1>3. Spec => []BooksTieOut
  BY <1>1, ReportsTieOut
<1>4. QED
  BY <1>2, <1>3, PTL
=============================================================================
