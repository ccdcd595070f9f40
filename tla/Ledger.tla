-------------------------------- MODULE Ledger --------------------------------
(***************************************************************************)
(* The general ledger, app/modules/accounting_core: journal entries, the   *)
(* accounting periods that lock them and the audit trail, driven by        *)
(* concurrent calls of post_journal_entry, void_journal_entry,             *)
(* close_period, reopen_period and close_fiscal_year.                      *)
(*                                                                         *)
(* A call runs on a database session of its own.  Another call can run     *)
(* whenever it awaits a query, and PostgreSQL's READ COMMITTED shows it    *)
(* what others have committed, nothing else; no row is locked.  A step     *)
(* here is the code from one such point to the next, so that what a call   *)
(* read may be stale when it commits.  Committed rows are entries, closed  *)
(* and audit; pc, draft, loaded and posted are local to a call and are     *)
(* lost, with everything not committed, when its process stops.            *)
(***************************************************************************)
EXTENDS Books

CONSTANTS
  Requests,        \* calls in a behaviour: each runs one operation, once
  Tenants,         \* client workspaces
  Accounts,        \* ids of the rows of accounts, of every workspace
  Submissions,     \* the line lists a caller of post_journal_entry may pass
  Dates,           \* days, as integers in order
  Years, YearOf,   \* the calendar year of a day
  Periods, Span,   \* rows of accounting_periods: tenant, first and last day
  PeriodKeywords   \* the keywords void_journal_entry may call ensure_period_open by

AccountIds == Accounts \cup {"unknown"}

ASSUME LedgerAssumption ==
  /\ Dates \subseteq Nat
  /\ YearOf \in [Dates -> Years]
  /\ Span \in [Periods -> [tenant : Tenants, first : Dates, last : Dates]]
  /\ Submissions \subseteq Seq(Line(AccountIds))
  /\ PeriodKeywords \subseteq {"posting_date", "entry_date"}

VARIABLES
  entries,   \* rows of journal_entries with their lines, in commit order
  closed,    \* is_closed of every period
  audit,     \* rows of audit_log, in commit order
  pc,        \* where each call stands
  draft,     \* the JournalEntry a call is building, with its lines
  loaded,    \* is_closed of the period rows a call holds, as it read them
  posted     \* the id of the entry a call has posted, 0 before

vars == <<entries, closed, audit, pc, draft, loaded, posted>>

\* An entry's id is its place in commit order.  The memo of a reversal names
\* the entry it reverses; 0 stands for any other memo.
Entry == [tenant : Tenants, date : Dates, reverses : Nat,
          status : {"DRAFT", "POSTED", "VOID"}, lines : Seq(Line(AccountIds))]

NoEntry == [reverses |-> 0]

AuditEvent == [entity : Nat, action : {"post", "void"}, reversal : Nat]

Writing == {"close", "reopen", "close_year"}
Running == {"check_period", "commit", "void_check", "flip"} \cup Writing
Ended   == {"done", "rejected", "error", "crashed"}

TypeOK ==
  /\ entries \in Seq(Entry)
  /\ closed \in [Periods -> BOOLEAN]
  /\ audit \in Seq(AuditEvent)
  /\ pc \in [Requests -> {"idle"} \cup Running \cup Ended]
  /\ draft \in [Requests -> Entry \cup {NoEntry}]
  /\ loaded \in [Requests -> UNION {[S -> BOOLEAN] : S \in SUBSET Periods}]
  /\ posted \in [Requests -> Nat]

Init ==
  /\ entries = <<>>
  /\ closed \in [Periods -> BOOLEAN]
  /\ audit = <<>>
  /\ pc = [r \in Requests |-> "idle"]
  /\ draft = [r \in Requests |-> NoEntry]
  /\ loaded = [r \in Requests |-> <<>>]
  /\ posted = [r \in Requests |-> 0]

Goto(r, label) == pc' = [pc EXCEPT ![r] = label]

\* Nothing constrains the periods of a workspace to be disjoint or to cover
\* every day.  The query of ensure_period_open keeps the first row that
\* matches, in no order, and a day in no period is open: PeriodReads is the
\* set of values of is_closed that the query may find.
Covers(p, t, d) == Span[p].tenant = t /\ Span[p].first <= d /\ d <= Span[p].last
\* Slips: the last day left out, the answer ignored.
PeriodReadsLastDayOpen(t, d) ==
  LET found == {p \in Periods : Covers(p, t, d) /\ d < Span[p].last}
  IN  IF found = {} THEN {FALSE} ELSE {closed[p] : p \in found}
PeriodReadsIgnored(t, d) == {FALSE}
PeriodReads(t, d) ==
  LET found == {p \in Periods : Covers(p, t, d)}
  IN  IF found = {} THEN {FALSE} ELSE {closed[p] : p \in found}

-----------------------------------------------------------------------------
(* post_journal_entry *)

\* The call up to its first await: the balance test, on what the caller sent.
Submit(r) ==
  /\ pc[r] = "idle"
  /\ \E t \in Tenants, d \in Dates, ls \in Submissions :
       /\ draft' = [draft EXCEPT ![r] =
            [tenant |-> t, date |-> d, reverses |-> 0,
             status |-> "DRAFT", lines |-> ls]]
       /\ Goto(r, IF PassesBalanceCheck(ls) THEN "check_period" ELSE "rejected")
  /\ UNCHANGED <<entries, closed, audit, loaded, posted>>

\* ensure_period_open: the answer is used at the commit, which comes later.
CheckPeriod(r) ==
  /\ pc[r] = "check_period"
  /\ \E isClosed \in PeriodReads(draft[r].tenant, draft[r].date) :
       Goto(r, IF isClosed THEN "rejected" ELSE "commit")
  /\ UNCHANGED <<entries, closed, audit, draft, loaded, posted>>

\* The only reference the database checks is that every account exists.
AccountsExist(lines) == \A i \in DOMAIN lines : lines[i].account \in Accounts

\* The caller of post_journal_entry: a route is done, a void goes on to a
\* second transaction.  Slip: the void stops there.
AfterPostingStops(r) == "done"
AfterPosting(r) == IF draft[r].reverses = 0 THEN "done" ELSE "flip"

\* One transaction: the entry, its lines and the audit event.
CommitPosting(r) ==
  /\ pc[r] = "commit"
  /\ AccountsExist(draft[r].lines)
  /\ entries' = Append(entries, [draft[r] EXCEPT !.status = "POSTED",
                                                 !.lines = Stored(@)])
  /\ audit' = Append(audit, [entity   |-> Len(entries) + 1,
                             action   |-> "post",
                             reversal |-> 0])
  /\ posted' = [posted EXCEPT ![r] = Len(entries) + 1]
  /\ Goto(r, AfterPosting(r))
  /\ UNCHANGED <<closed, draft, loaded>>

\* A line that names no account violates the foreign key: a server error.
PostingFails(r) ==
  /\ pc[r] = "commit"
  /\ ~AccountsExist(draft[r].lines)
  /\ Goto(r, "error")
  /\ UNCHANGED <<entries, closed, audit, draft, loaded, posted>>

-----------------------------------------------------------------------------
(* void_journal_entry *)

\* The workspace's entries.  Slip: the filter on tenant_id forgotten.
VisibleToAnyone(t) == DOMAIN entries
VisibleTo(t) == {i \in DOMAIN entries : entries[i].tenant = t}

\* Slip: the status test forgotten.
VoidableTwice(e) == e.lines # <<>>
Voidable(e) == e.status = "POSTED" /\ e.lines # <<>>

\* The queries of the original entry and of its lines, which never change
\* once they are committed, and the tests on them.  The effective date is the
\* caller's choice or else today, so it may be any day.
ReadOriginal(r) ==
  /\ pc[r] = "idle"
  /\ \E t \in Tenants, d \in Dates : \E i \in VisibleTo(t) :
       IF Voidable(entries[i])
       THEN /\ draft' = [draft EXCEPT ![r] =
                 [tenant |-> t, date |-> d, reverses |-> i,
                  status |-> "DRAFT", lines |-> Mirror(entries[i].lines)]]
            /\ Goto(r, "void_check")
       ELSE Goto(r, "rejected") /\ UNCHANGED draft
  /\ UNCHANGED <<entries, closed, audit, loaded, posted>>

\* An id that is no entry's, or that of an entry of another workspace, is not
\* found; a caller may send one at any time.
VoidNotFound(r) ==
  /\ pc[r] = "idle"
  /\ Goto(r, "rejected")
  /\ UNCHANGED <<entries, closed, audit, draft, loaded, posted>>

\* The period check of the void, and the balance test that post_journal_entry
\* makes on the mirrored lines before its own period check.  Called with a
\* keyword it does not have, ensure_period_open raises a TypeError.
CheckReversalPeriod(r) ==
  /\ pc[r] = "void_check"
  /\ "posting_date" \in PeriodKeywords
  /\ \E isClosed \in PeriodReads(draft[r].tenant, draft[r].date) :
       Goto(r, IF ~isClosed /\ PassesBalanceCheck(draft[r].lines)
               THEN "check_period" ELSE "rejected")
  /\ UNCHANGED <<entries, closed, audit, draft, loaded, posted>>

PeriodCheckRaises(r) ==
  /\ pc[r] = "void_check"
  /\ "entry_date" \in PeriodKeywords
  /\ Goto(r, "error")
  /\ UNCHANGED <<entries, closed, audit, draft, loaded, posted>>

\* Slips: the lines dropped with the status, a status no reader knows, the
\* reversal marked in place of the original.
MarkVoidEmptied(i)  == [entries EXCEPT ![i].status = "VOID", ![i].lines = <<>>]
MarkVoidMisspelt(i) == [entries EXCEPT ![i].status = "VOIDED"]
MarkVoidNewest(i)   == [entries EXCEPT ![Len(entries)].status = "VOID"]
MarkVoid(i) == [entries EXCEPT ![i].status = "VOID"]

\* Slip: the two ids exchanged.
VoidEventSwapped(r) == [entity |-> posted[r], action |-> "void",
                        reversal |-> draft[r].reverses]
VoidEvent(r) == [entity |-> draft[r].reverses, action |-> "void",
                 reversal |-> posted[r]]

\* The second transaction of a void: an UPDATE of the row by its id, whatever
\* its status has become since ReadOriginal, and the audit event.
FlipOriginal(r) ==
  /\ pc[r] = "flip"
  /\ entries' = MarkVoid(draft[r].reverses)
  /\ audit' = Append(audit, VoidEvent(r))
  /\ Goto(r, "done")
  /\ UNCHANGED <<closed, draft, loaded, posted>>

-----------------------------------------------------------------------------
(* close_period, reopen_period, close_fiscal_year *)

\* Each reads its rows, tests them, and commits later what it decided.
Load(r, rows) == loaded' = [loaded EXCEPT ![r] = [p \in rows |-> closed[p]]]

ReadPeriod(r) ==
  /\ pc[r] = "idle"
  /\ \E p \in Periods, op \in {"close", "reopen"} :
       IF closed[p] = (op = "reopen")
       THEN Load(r, {p}) /\ Goto(r, op)
       ELSE Goto(r, "rejected") /\ UNCHANGED loaded
  /\ UNCHANGED <<entries, closed, audit, draft, posted>>

\* Every period of the workspace that ends in the year, open or closed.
ReadYear(r) ==
  /\ pc[r] = "idle"
  /\ \E t \in Tenants, y \in Years :
       Load(r, {p \in Periods : Span[p].tenant = t /\ YearOf[Span[p].last] = y})
  /\ Goto(r, "close_year")
  /\ UNCHANGED <<entries, closed, audit, draft, posted>>

\* The session sends an UPDATE only for the rows whose value the assignment
\* changes: a row read as closed is not written when the year is closed.
\* Slip: only one of the rows assigned.
DirtyOne(r, value) ==
  LET dirty == {p \in DOMAIN loaded[r] : loaded[r][p] # value}
  IN  IF dirty = {} THEN {} ELSE {CHOOSE p \in dirty : TRUE}
Dirty(r, value) == {p \in DOMAIN loaded[r] : loaded[r][p] # value}

CommitPeriods(r) ==
  /\ pc[r] \in Writing
  /\ LET value == pc[r] # "reopen"
     IN  closed' = [p \in Periods |->
                     IF p \in Dirty(r, value) THEN value ELSE closed[p]]
  /\ Goto(r, "done")
  /\ UNCHANGED <<entries, audit, draft, loaded, posted>>

-----------------------------------------------------------------------------
\* The process stops, or the connection drops, while the call is running.
Crash(r) ==
  /\ pc[r] \in Running
  /\ Goto(r, "crashed")
  /\ UNCHANGED <<entries, closed, audit, draft, loaded, posted>>

Begin(r) == \/ Submit(r) \/ ReadOriginal(r) \/ VoidNotFound(r)
            \/ ReadPeriod(r) \/ ReadYear(r)

Advance(r) == \/ CheckPeriod(r) \/ CommitPosting(r) \/ PostingFails(r)
              \/ CheckReversalPeriod(r) \/ PeriodCheckRaises(r)
              \/ FlipOriginal(r) \/ CommitPeriods(r)

Next == \E r \in Requests : Begin(r) \/ Advance(r) \/ Crash(r)

Spec == Init /\ [][Next]_vars

\* The event loop runs a handler whose query has been answered.  Nothing
\* obliges a client to call, or a process to stop.
FairSpec == Spec /\ \A r \in Requests : WF_vars(Advance(r))

\* One call at a time: the way the repository's tests drive the ledger.
Quiet == \A r \in Requests : pc[r] \notin Running
SerialNext == \E r \in Requests : (Quiet /\ Begin(r)) \/ Advance(r) \/ Crash(r)
SerialSpec == Init /\ [][SerialNext]_vars
=============================================================================
