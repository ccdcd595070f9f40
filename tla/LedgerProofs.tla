----------------------------- MODULE LedgerProofs -----------------------------
(***************************************************************************)
(* Theorems about the ledger, for any number of calls, workspaces,         *)
(* accounts, periods and days, and for any lines a caller may submit.      *)
(***************************************************************************)
EXTENDS LedgerProperties, BooksProofs, SequenceTheorems, TLAPS

-----------------------------------------------------------------------------
(* Types *)

Building == {"check_period", "commit", "void_check", "flip"}

\* A call that is building an entry holds one.
DraftOK == \A r \in Requests : pc[r] \in Building =>
  /\ draft[r] \in Entry
  /\ draft[r].reverses \in {0} \cup DOMAIN entries
  /\ pc[r] \in {"void_check", "flip"} => draft[r].reverses # 0

TypeInv == TypeOK /\ DraftOK

\* The empty list of rows that a call holds at first.
LEMMA NoRows == <<>> \in UNION {[S -> BOOLEAN] : S \in SUBSET Periods}
<1>1. <<>> \in [{} -> BOOLEAN]
  OBVIOUS
<1>2. {} \in SUBSET Periods
  OBVIOUS
<1>3. QED
  BY <1>1, <1>2

\* The rows a call loads.
LEMMA LoadType ==
  ASSUME TypeOK, NEW r \in Requests, NEW rows \in SUBSET Periods, Load(r, rows)
  PROVE  loaded' \in [Requests -> UNION {[S -> BOOLEAN] : S \in SUBSET Periods}]
<1>1. [p \in rows |-> closed[p]] \in [rows -> BOOLEAN]
  BY DEF TypeOK
<1>2. [p \in rows |-> closed[p]] \in UNION {[S -> BOOLEAN] : S \in SUBSET Periods}
  BY <1>1
<1>3. QED
  BY <1>2 DEF Load, TypeOK

\* The typing invariant holds when no call has been made.
LEMMA TypeInvInit == Init => TypeInv
<1> SUFFICES ASSUME Init PROVE TypeInv
  OBVIOUS
<1>1. entries \in Seq(Entry) /\ audit \in Seq(AuditEvent)
  BY DEF Init
<1>2. loaded \in [Requests -> UNION {[S -> BOOLEAN] : S \in SUBSET Periods}]
  BY NoRows DEF Init
<1>3. closed \in [Periods -> BOOLEAN] /\ posted \in [Requests -> Nat]
  BY DEF Init
<1>4. /\ pc \in [Requests -> {"idle"} \cup Running \cup Ended]
      /\ \A r \in Requests : pc[r] = "idle"
      /\ draft \in [Requests -> Entry \cup {NoEntry}]
  BY DEF Init
<1>5. QED
  BY <1>1, <1>2, <1>3, <1>4 DEF TypeInv, TypeOK, DraftOK, Building

\* Every step of every call keeps the typing invariant.
LEMMA TypeInvNext == TypeInv /\ [Next]_vars => TypeInv'
<1> SUFFICES ASSUME TypeInv, [Next]_vars PROVE TypeInv'
  OBVIOUS
<1> USE LedgerAssumption DEF TypeInv
<1> USE DEF Goto, Running, Ended, Writing, Building
<1>1. ASSUME NEW r \in Requests, Submit(r) PROVE TypeInv'
  <2>1. PICK t \in Tenants, d \in Dates, ls \in Submissions :
          /\ draft' = [draft EXCEPT ![r] =
               [tenant |-> t, date |-> d, reverses |-> 0,
                status |-> "DRAFT", lines |-> ls]]
          /\ Goto(r, IF PassesBalanceCheck(ls) THEN "check_period" ELSE "rejected")
    BY <1>1 DEF Submit
  <2>2. draft'[r] \in Entry
    BY <2>1 DEF Entry, TypeOK
  <2>3. QED
    BY <1>1, <2>1, <2>2 DEF Submit, TypeOK, DraftOK
<1>2. ASSUME NEW r \in Requests, CheckPeriod(r) PROVE TypeInv'
  BY <1>2 DEF CheckPeriod, TypeOK, DraftOK
<1>3. ASSUME NEW r \in Requests, CommitPosting(r) PROVE TypeInv'
  <2>1. draft[r] \in Entry
    BY <1>3 DEF CommitPosting, DraftOK
  <2>2. Stored(draft[r].lines) \in Seq(Line(AccountIds))
    BY <2>1, LinesType DEF Entry
  <2>3. [draft[r] EXCEPT !.status = "POSTED", !.lines = Stored(@)] \in Entry
    BY <2>1, <2>2 DEF Entry
  <2>4. entries' \in Seq(Entry) /\ DOMAIN entries \subseteq DOMAIN entries'
    BY <1>3, <2>3 DEF CommitPosting, TypeOK
  <2>5. audit' \in Seq(AuditEvent)
    BY <1>3 DEF CommitPosting, TypeOK, AuditEvent
  <2>6. posted' \in [Requests -> Nat]
    BY <1>3 DEF CommitPosting, TypeOK
  <2>7. /\ Goto(r, AfterPosting(r))
        /\ AfterPosting(r) = IF draft[r].reverses = 0 THEN "done" ELSE "flip"
    BY <1>3 DEF CommitPosting, AfterPosting
  <2>8. QED
    BY <1>3, <2>1, <2>4, <2>5, <2>6, <2>7
       DEF CommitPosting, TypeOK, DraftOK
<1>4. ASSUME NEW r \in Requests, PostingFails(r) PROVE TypeInv'
  BY <1>4 DEF PostingFails, TypeOK, DraftOK
<1>5. ASSUME NEW r \in Requests, ReadOriginal(r) PROVE TypeInv'
  <2>1. PICK t \in Tenants, d \in Dates : \E i \in VisibleTo(t) :
          IF Voidable(entries[i])
          THEN /\ draft' = [draft EXCEPT ![r] =
                    [tenant |-> t, date |-> d, reverses |-> i,
                     status |-> "DRAFT", lines |-> Mirror(entries[i].lines)]]
               /\ Goto(r, "void_check")
          ELSE Goto(r, "rejected") /\ UNCHANGED draft
    BY <1>5 DEF ReadOriginal
  <2>2. PICK i \in VisibleTo(t) :
          IF Voidable(entries[i])
          THEN /\ draft' = [draft EXCEPT ![r] =
                    [tenant |-> t, date |-> d, reverses |-> i,
                     status |-> "DRAFT", lines |-> Mirror(entries[i].lines)]]
               /\ Goto(r, "void_check")
          ELSE Goto(r, "rejected") /\ UNCHANGED draft
    BY <2>1
  <2>3. i \in DOMAIN entries /\ i \in Nat /\ i # 0 /\ entries[i] \in Entry
    BY DEF VisibleTo, TypeOK
  <2>4. Mirror(entries[i].lines) \in Seq(Line(AccountIds))
    BY <2>3, LinesType DEF Entry
  <2>5. CASE Voidable(entries[i])
    <3>1. draft'[r] \in Entry
      BY <2>2, <2>3, <2>4, <2>5 DEF Entry, TypeOK
    <3>2. draft'[r].reverses = i
      BY <2>2, <2>5 DEF TypeOK
    <3>3. QED
      BY <1>5, <2>2, <2>3, <2>5, <3>1, <3>2 DEF ReadOriginal, TypeOK, DraftOK
  <2>6. CASE ~Voidable(entries[i])
    BY <1>5, <2>2, <2>6 DEF ReadOriginal, TypeOK, DraftOK
  <2>7. QED
    BY <2>5, <2>6
<1>6. ASSUME NEW r \in Requests, VoidNotFound(r) PROVE TypeInv'
  BY <1>6 DEF VoidNotFound, TypeOK, DraftOK
<1>7. ASSUME NEW r \in Requests, CheckReversalPeriod(r) PROVE TypeInv'
  BY <1>7 DEF CheckReversalPeriod, TypeOK, DraftOK
<1>8. ASSUME NEW r \in Requests, PeriodCheckRaises(r) PROVE TypeInv'
  BY <1>8 DEF PeriodCheckRaises, TypeOK, DraftOK
<1>9. ASSUME NEW r \in Requests, FlipOriginal(r) PROVE TypeInv'
  <2>. DEFINE i == draft[r].reverses
  <2>0. i \in DOMAIN entries /\ entries[i] \in Entry
    BY <1>9, ElementOf DEF FlipOriginal, TypeOK, DraftOK
  <2>1. entries' \in Seq(Entry) /\ DOMAIN entries' = DOMAIN entries
    <3>1. [entries[i] EXCEPT !.status = "VOID"] \in Entry
      BY <2>0 DEF Entry
    <3>2. entries' = [entries EXCEPT ![i] = [entries[i] EXCEPT !.status = "VOID"]]
      BY <1>9, <2>0 DEF FlipOriginal, MarkVoid
    <3>3. QED
      BY <2>0, <3>1, <3>2 DEF TypeOK
  <2>2. audit' \in Seq(AuditEvent)
    BY <1>9 DEF FlipOriginal, VoidEvent, TypeOK, DraftOK, Entry, AuditEvent
  <2>3. QED
    BY <1>9, <2>1, <2>2 DEF FlipOriginal, TypeOK, DraftOK
<1>10. ASSUME NEW r \in Requests, ReadPeriod(r) PROVE TypeInv'
  <2>1. loaded' \in [Requests -> UNION {[S -> BOOLEAN] : S \in SUBSET Periods}]
    BY <1>10, LoadType DEF ReadPeriod, TypeOK
  <2>2. PICK label \in {"close", "reopen", "rejected"} : pc' = [pc EXCEPT ![r] = label]
    BY <1>10 DEF ReadPeriod, Goto
  <2>3. pc' \in [Requests -> {"idle"} \cup Running \cup Ended]
    BY <2>2 DEF TypeOK, Running, Writing, Ended
  <2>4. UNCHANGED <<entries, closed, audit, draft, posted>>
    BY <1>10 DEF ReadPeriod
  <2>5. DraftOK'
    BY <2>2, <2>4 DEF DraftOK, TypeOK, Running, Writing, Ended
  <2>6. QED
    BY <2>1, <2>3, <2>4, <2>5 DEF TypeOK
<1>11. ASSUME NEW r \in Requests, ReadYear(r) PROVE TypeInv'
  <2>1. loaded' \in [Requests -> UNION {[S -> BOOLEAN] : S \in SUBSET Periods}]
    BY <1>11, LoadType DEF ReadYear, TypeOK
  <2>2. PICK label \in {"close_year"} : pc' = [pc EXCEPT ![r] = label]
    BY <1>11 DEF ReadYear, Goto
  <2>3. pc' \in [Requests -> {"idle"} \cup Running \cup Ended]
    BY <2>2 DEF TypeOK, Running, Writing, Ended
  <2>4. UNCHANGED <<entries, closed, audit, draft, posted>>
    BY <1>11 DEF ReadYear
  <2>5. DraftOK'
    BY <2>2, <2>4 DEF DraftOK, TypeOK, Running, Writing, Ended
  <2>6. QED
    BY <2>1, <2>3, <2>4, <2>5 DEF TypeOK
<1>12. ASSUME NEW r \in Requests, CommitPeriods(r) PROVE TypeInv'
  <2>1. closed' \in [Periods -> BOOLEAN]
    BY <1>12 DEF CommitPeriods, TypeOK
  <2>2. QED
    BY <1>12, <2>1 DEF CommitPeriods, TypeOK, DraftOK
<1>13. ASSUME NEW r \in Requests, Crash(r) PROVE TypeInv'
  BY <1>13 DEF Crash, TypeOK, DraftOK
<1>14. CASE UNCHANGED vars
  BY <1>14 DEF vars, TypeOK, DraftOK
<1>15. QED
  BY <1>1, <1>2, <1>3, <1>4, <1>5, <1>6, <1>7, <1>8, <1>9, <1>10, <1>11, <1>12,
     <1>13, <1>14 DEF Next, Begin, Advance

\* Every reachable state is well typed, and a call that is building an entry
\* holds one (Ledger's variables; models.py:32-62).
THEOREM TypeCorrect == Spec => []TypeOK
<1>1. TypeInv => TypeOK
  BY DEF TypeInv
<1>2. QED
  BY <1>1, TypeInvInit, TypeInvNext, PTL DEF Spec
\* What is recordable is a list of lines whose totals, once stored, agree.
LEMMA RecordableLines ==
  ASSUME NEW ls \in Recordable
  PROVE  /\ ls \in Seq(Line(AccountIds))
         /\ Mirror(ls) \in Recordable
         /\ Stored(Mirror(ls)) = Mirror(ls)
<1>1. CASE ls \in Accepted
  <2>1. PICK s \in Submissions : ls = Stored(s)
    BY <1>1 DEF Accepted
  <2>2. s \in Seq(Line(AccountIds))
    BY LedgerAssumption
  <2>3. QED
    BY <1>1, <2>1, <2>2, StoredMirror, LinesType DEF Recordable
<1>2. CASE \E m \in Accepted : ls = Mirror(m)
  <2>1. PICK s \in Submissions : Stored(s) \in Accepted /\ ls = Mirror(Stored(s))
    BY <1>2 DEF Accepted
  <2>2. s \in Seq(Line(AccountIds)) /\ Stored(s) \in Seq(Line(AccountIds))
    BY LedgerAssumption, LinesType
  <2>3. Mirror(ls) = Stored(s)
    BY <2>1, <2>2, MirrorTwice
  <2>4. QED
    BY <2>1, <2>2, <2>3, StoredMirror, LinesType DEF Recordable
<1>3. QED
  BY <1>1, <1>2 DEF Recordable

-----------------------------------------------------------------------------
(* Reversals *)

\* What a call that is building an entry has established, step by step, about
\* the lines it will write and, in a void, about the entry it reverses.
DraftsMirror == \A r \in Requests :
  pc[r] \in Building /\ draft[r].reverses # 0 =>
    /\ draft[r].tenant = entries[draft[r].reverses].tenant
    /\ draft[r].lines = Mirror(entries[draft[r].reverses].lines)

DraftsPass == \A r \in Requests : pc[r] \in {"check_period", "commit"} =>
  /\ draft[r].reverses = 0 => draft[r].lines \in Submissions
  /\ PassesBalanceCheck(draft[r].lines)

EntriesRecordable == \A i \in EntryIds :
  /\ entries[i].lines \in Recordable
  /\ entries[i].status \in {"POSTED", "VOID"}
  /\ entries[i].reverses \in {0} \cup EntryIds

FlipsReversed == \A r \in Requests : pc[r] = "flip" =>
  /\ posted[r] \in EntryIds
  /\ Reversal(posted[r], draft[r].reverses)

VoidInv == /\ TypeInv /\ DraftsMirror /\ DraftsPass /\ EntriesRecordable
           /\ FlipsReversed /\ VoidedIsReversed /\ UnfinishedVoidIsKnown

\* What a commit of an entry does to the entries.
LEMMA PostedEntry ==
  ASSUME VoidInv, NEW r \in Requests, CommitPosting(r)
  PROVE  LET n == Len(entries) + 1
         IN  /\ DOMAIN entries' = DOMAIN entries \cup {n}
             /\ n \in Nat /\ n \notin DOMAIN entries
             /\ \A i \in DOMAIN entries : entries'[i] = entries[i]
             /\ entries'[n] \in Entry
             /\ entries'[n].status = "POSTED"
             /\ entries'[n].reverses = draft[r].reverses
             /\ entries'[n].tenant = draft[r].tenant
             /\ entries'[n].date = draft[r].date
             /\ entries'[n].lines = Stored(draft[r].lines)
             /\ entries'[n].lines \in Recordable
             /\ draft[r].reverses # 0 => entries'[n].lines = draft[r].lines
<1> DEFINE n == Len(entries) + 1
<1>1. draft[r] \in Entry
  BY DEF VoidInv, TypeInv, DraftOK, CommitPosting, Building
<1>2. Stored(draft[r].lines) \in Seq(Line(AccountIds))
  BY <1>1, LinesType DEF Entry
<1>3. entries' = Append(entries, [draft[r] EXCEPT !.status = "POSTED",
                                                 !.lines = Stored(@)])
  BY DEF CommitPosting
<1>4. /\ DOMAIN entries' = DOMAIN entries \cup {n}
      /\ n \in Nat /\ n \notin DOMAIN entries
      /\ \A i \in DOMAIN entries : entries'[i] = entries[i]
      /\ entries'[n] = [draft[r] EXCEPT !.status = "POSTED", !.lines = Stored(@)]
  BY <1>3 DEF VoidInv, TypeInv, TypeOK
<1>5. /\ entries'[n] \in Entry
      /\ entries'[n].status = "POSTED"
      /\ entries'[n].reverses = draft[r].reverses
      /\ entries'[n].tenant = draft[r].tenant
      /\ entries'[n].date = draft[r].date
      /\ entries'[n].lines = Stored(draft[r].lines)
  BY <1>1, <1>2, <1>4 DEF Entry
<1>6. /\ Stored(draft[r].lines) \in Recordable
      /\ draft[r].reverses # 0 => Stored(draft[r].lines) = draft[r].lines
  <2>1. CASE draft[r].reverses = 0
    BY <2>1 DEF VoidInv, DraftsPass, CommitPosting, Recordable, Accepted
  <2>2. CASE draft[r].reverses # 0
    <3>1. draft[r].reverses \in EntryIds
      BY <2>2 DEF VoidInv, TypeInv, DraftOK, CommitPosting, Building, EntryIds
    <3>2. draft[r].lines = Mirror(entries[draft[r].reverses].lines)
      BY <2>2 DEF VoidInv, DraftsMirror, CommitPosting, Building
    <3>3. QED
      BY <3>1, <3>2, RecordableLines DEF VoidInv, EntriesRecordable
  <2>3. QED
    BY <2>1, <2>2
<1>7. QED
  BY <1>4, <1>5, <1>6

\* What marking an entry VOID does to the entries.
LEMMA VoidedEntry ==
  ASSUME TypeInv, NEW r \in Requests, FlipOriginal(r)
  PROVE  LET o == draft[r].reverses
         IN  /\ o \in DOMAIN entries
             /\ DOMAIN entries' = DOMAIN entries
             /\ \A i \in DOMAIN entries :
                  /\ entries'[i].tenant = entries[i].tenant
                  /\ entries'[i].date = entries[i].date
                  /\ entries'[i].reverses = entries[i].reverses
                  /\ entries'[i].lines = entries[i].lines
                  /\ entries'[i].status = IF i = o THEN "VOID" ELSE entries[i].status
<1> DEFINE o == draft[r].reverses
<1>1. o \in DOMAIN entries
  BY DEF FlipOriginal, TypeInv, DraftOK, Building
<1>2. entries' = [entries EXCEPT ![o] = [entries[o] EXCEPT !.status = "VOID"]]
  BY DEF FlipOriginal, MarkVoid
<1>3. \A i \in DOMAIN entries : entries[i] \in Entry
  BY ElementOf DEF TypeInv, TypeOK
<1>4. QED
  BY <1>1, <1>2, <1>3 DEF Entry

\* The invariant about voids holds when no call has been made.
LEMMA VoidInvInit == Init => VoidInv
<1> SUFFICES ASSUME Init PROVE VoidInv
  OBVIOUS
<1>1. TypeInv
  BY TypeInvInit
<1>2. DOMAIN entries = {} /\ \A r \in Requests : pc[r] = "idle"
  BY DEF Init
<1>3. QED
  BY <1>1, <1>2 DEF VoidInv, DraftsMirror, DraftsPass, EntriesRecordable, FlipsReversed,
     VoidedIsReversed, UnfinishedVoidIsKnown, EntryIds, Building

\* Every step of every call keeps the invariant about voids.
LEMMA VoidInvNext == VoidInv /\ [Next]_vars => VoidInv'
<1> SUFFICES ASSUME VoidInv, [Next]_vars PROVE VoidInv'
  OBVIOUS
<1> USE DEF Building, EntryIds, Goto
<1>t. TypeInv /\ TypeInv'
  BY TypeInvNext DEF VoidInv
<1>p. pc \in [Requests -> {"idle"} \cup Running \cup Ended]
  BY <1>t DEF TypeInv, TypeOK
<1> DEFINE Others(r) == \A q \in Requests : q # r => pc'[q] = pc[q]
<1>q. ASSUME NEW r \in Requests,
             UNCHANGED <<entries, draft, posted>>,
             Others(r),
             pc'[r] \notin {"void_check", "flip"},
             pc'[r] = "check_period" =>
               pc[r] = "void_check" /\ PassesBalanceCheck(draft[r].lines),
             pc'[r] = "commit" => pc[r] = "check_period",
             pc[r] = "flip" => pc'[r] = "crashed",
             pc[r] # "crashed"
      PROVE  VoidInv'
  <2>1. DraftsMirror'
    BY <1>q DEF VoidInv, DraftsMirror
  <2>2. DraftsPass'
    BY <1>q, <1>t DEF VoidInv, DraftsPass, TypeInv, DraftOK
  <2>3. EntriesRecordable' /\ VoidedIsReversed'
    BY <1>q DEF VoidInv, EntriesRecordable, VoidedIsReversed, Reversal
  <2>4. FlipsReversed'
    BY <1>q DEF VoidInv, FlipsReversed, Reversal
  <2>5. UnfinishedVoidIsKnown'
    BY <1>q DEF VoidInv, UnfinishedVoidIsKnown
  <2>6. QED
    BY <1>t, <2>1, <2>2, <2>3, <2>4, <2>5 DEF VoidInv
<1>1. ASSUME NEW r \in Requests, Submit(r) PROVE VoidInv'
  <2>1. PICK t \in Tenants, d \in Dates, ls \in Submissions :
          /\ draft' = [draft EXCEPT ![r] =
               [tenant |-> t, date |-> d, reverses |-> 0,
                status |-> "DRAFT", lines |-> ls]]
          /\ Goto(r, IF PassesBalanceCheck(ls) THEN "check_period" ELSE "rejected")
    BY <1>1 DEF Submit
  <2>2. /\ draft'[r].reverses = 0 /\ draft'[r].lines = ls
        /\ \A q \in Requests : q # r => draft'[q] = draft[q] /\ pc'[q] = pc[q]
        /\ pc'[r] = IF PassesBalanceCheck(ls) THEN "check_period" ELSE "rejected"
    BY <2>1, <1>t DEF TypeInv, TypeOK
  <2>3. pc[r] = "idle" /\ UNCHANGED <<entries, posted>>
    BY <1>1 DEF Submit
  <2>4. DraftsMirror' /\ DraftsPass'
    BY <2>2, <2>3 DEF VoidInv, DraftsMirror, DraftsPass
  <2>5. EntriesRecordable' /\ FlipsReversed' /\ VoidedIsReversed' /\ UnfinishedVoidIsKnown'
    BY <2>2, <2>3 DEF VoidInv, EntriesRecordable, FlipsReversed, VoidedIsReversed,
       UnfinishedVoidIsKnown, Reversal
  <2>6. QED
    BY <1>t, <2>4, <2>5 DEF VoidInv
<1>2. ASSUME NEW r \in Requests, CheckPeriod(r) PROVE VoidInv'
  <2>1. pc'[r] \in {"rejected", "commit"} /\ Others(r)
    BY <1>2, <1>p DEF CheckPeriod
  <2>2. QED
    BY <1>2, <2>1, <1>q DEF CheckPeriod
<1>3. ASSUME NEW r \in Requests, CommitPosting(r) PROVE VoidInv'
  <2> DEFINE n == Len(entries) + 1
  <2>1. /\ DOMAIN entries' = DOMAIN entries \cup {n}
        /\ n \in Nat /\ n \notin DOMAIN entries
        /\ \A i \in DOMAIN entries : entries'[i] = entries[i]
        /\ entries'[n].status = "POSTED"
        /\ entries'[n].reverses = draft[r].reverses
        /\ entries'[n].tenant = draft[r].tenant
        /\ entries'[n].lines \in Recordable
        /\ draft[r].reverses # 0 => entries'[n].lines = draft[r].lines
    BY <1>3, PostedEntry
  <2>2. /\ draft' = draft /\ pc[r] = "commit" /\ Others(r)
        /\ pc'[r] = IF draft[r].reverses = 0 THEN "done" ELSE "flip"
        /\ posted'[r] = n /\ \A q \in Requests : q # r => posted'[q] = posted[q]
    BY <1>3, <1>p, <1>t DEF CommitPosting, AfterPosting, TypeInv, TypeOK
  <2>3. \A q \in Requests : pc[q] \in Building =>
          draft[q].reverses \in {0} \cup DOMAIN entries
    BY <1>t DEF TypeInv, DraftOK
  <2>4. DraftsMirror'
    BY <2>1, <2>2, <2>3 DEF VoidInv, DraftsMirror
  <2>5. DraftsPass'
    BY <2>2 DEF VoidInv, DraftsPass
  <2>6. EntriesRecordable'
    BY <2>1, <2>2, <2>3 DEF VoidInv, EntriesRecordable
  <2>f. \A q \in Requests : pc[q] = "flip" => draft[q].reverses \in DOMAIN entries
    BY <1>t DEF TypeInv, DraftOK
  <2>7. FlipsReversed'
    <3>1. CASE draft[r].reverses = 0
      BY <3>1, <2>1, <2>2, <2>f DEF VoidInv, FlipsReversed, Reversal
    <3>2. CASE draft[r].reverses # 0
      <4>1. /\ entries'[n].tenant = entries[draft[r].reverses].tenant
            /\ entries'[n].lines = Mirror(entries[draft[r].reverses].lines)
        BY <2>1, <2>2, <3>2 DEF VoidInv, DraftsMirror
      <4>2. draft[r].reverses \in DOMAIN entries
        BY <2>2, <2>3, <3>2
      <4>3. QED
        BY <2>1, <2>2, <2>f, <4>1, <4>2, <3>2 DEF VoidInv, FlipsReversed, Reversal
    <3>3. QED
      BY <3>1, <3>2
  <2>8. VoidedIsReversed'
    BY <2>1 DEF VoidInv, VoidedIsReversed, Reversal
  <2>9. UnfinishedVoidIsKnown'
    <3> SUFFICES ASSUME NEW j \in DOMAIN entries', NEW i \in DOMAIN entries',
                        entries'[j].reverses = i, entries'[i].status # "VOID"
                 PROVE  \E q \in Requests : posted'[q] = j /\ pc'[q] \in {"flip", "crashed"}
      BY DEF UnfinishedVoidIsKnown
    <3>0. i \in DOMAIN entries /\ i # 0 /\ i # n
      <4>1. CASE j = n
        BY <4>1, <2>1, <2>2, <2>3, <1>t DEF TypeInv, TypeOK
      <4>2. CASE j # n
        BY <4>2, <2>1, <1>t DEF VoidInv, EntriesRecordable, TypeInv, TypeOK
      <4>3. QED
        BY <4>1, <4>2
    <3>1. CASE j = n
      BY <2>1, <2>2, <3>0, <3>1
    <3>2. CASE j # n
      <4>1. PICK q \in Requests : posted[q] = j /\ pc[q] \in {"flip", "crashed"}
        BY <2>1, <3>0, <3>2 DEF VoidInv, UnfinishedVoidIsKnown
      <4>2. QED
        BY <2>2, <4>1
    <3>3. QED
      BY <3>1, <3>2
  <2>10. QED
    BY <1>t, <2>4, <2>5, <2>6, <2>7, <2>8, <2>9 DEF VoidInv
<1>4. ASSUME NEW r \in Requests, PostingFails(r) PROVE VoidInv'
  <2>1. pc'[r] = "error" /\ Others(r)
    BY <1>4, <1>p DEF PostingFails
  <2>2. QED
    BY <1>4, <2>1, <1>q DEF PostingFails
<1>5. ASSUME NEW r \in Requests, ReadOriginal(r) PROVE VoidInv'
  <2>1. PICK t \in Tenants, d \in Dates : \E i \in VisibleTo(t) :
          IF Voidable(entries[i])
          THEN /\ draft' = [draft EXCEPT ![r] =
                    [tenant |-> t, date |-> d, reverses |-> i,
                     status |-> "DRAFT", lines |-> Mirror(entries[i].lines)]]
               /\ Goto(r, "void_check")
          ELSE Goto(r, "rejected") /\ UNCHANGED draft
    BY <1>5 DEF ReadOriginal
  <2>2. PICK i \in VisibleTo(t) :
          IF Voidable(entries[i])
          THEN /\ draft' = [draft EXCEPT ![r] =
                    [tenant |-> t, date |-> d, reverses |-> i,
                     status |-> "DRAFT", lines |-> Mirror(entries[i].lines)]]
               /\ Goto(r, "void_check")
          ELSE Goto(r, "rejected") /\ UNCHANGED draft
    BY <2>1
  <2>3. pc[r] = "idle" /\ UNCHANGED <<entries, posted>> /\ Others(r)
    BY <1>5, <2>2, <1>p DEF ReadOriginal
  <2>4. CASE Voidable(entries[i])
    <3>1. /\ draft'[r].reverses = i /\ draft'[r].tenant = t
          /\ draft'[r].lines = Mirror(entries[i].lines)
          /\ \A q \in Requests : q # r => draft'[q] = draft[q]
          /\ pc'[r] = "void_check"
      BY <2>2, <2>4, <1>p, <1>t DEF TypeInv, TypeOK
    <3>2. DraftsMirror' /\ DraftsPass'
      BY <2>3, <3>1 DEF VoidInv, DraftsMirror, DraftsPass, VisibleTo
    <3>3. EntriesRecordable' /\ FlipsReversed' /\ VoidedIsReversed' /\ UnfinishedVoidIsKnown'
      BY <2>3, <3>1 DEF VoidInv, EntriesRecordable, FlipsReversed, VoidedIsReversed,
         UnfinishedVoidIsKnown, Reversal
    <3>4. QED
      BY <1>t, <3>2, <3>3 DEF VoidInv
  <2>5. CASE ~Voidable(entries[i])
    <3>1. UNCHANGED draft /\ pc'[r] = "rejected"
      BY <2>2, <2>5, <1>p
    <3>2. QED
      BY <2>3, <3>1, <1>q
  <2>6. QED
    BY <2>4, <2>5
<1>6. ASSUME NEW r \in Requests, VoidNotFound(r) PROVE VoidInv'
  <2>1. pc'[r] = "rejected" /\ Others(r)
    BY <1>6, <1>p DEF VoidNotFound
  <2>2. QED
    BY <1>6, <2>1, <1>q DEF VoidNotFound
<1>7. ASSUME NEW r \in Requests, CheckReversalPeriod(r) PROVE VoidInv'
  <2>1. /\ pc'[r] \in {"check_period", "rejected"} /\ Others(r)
        /\ pc'[r] = "check_period" => PassesBalanceCheck(draft[r].lines)
    BY <1>7, <1>p DEF CheckReversalPeriod
  <2>2. QED
    BY <1>7, <2>1, <1>q DEF CheckReversalPeriod
<1>8. ASSUME NEW r \in Requests, PeriodCheckRaises(r) PROVE VoidInv'
  <2>1. pc'[r] = "error" /\ Others(r)
    BY <1>8, <1>p DEF PeriodCheckRaises
  <2>2. QED
    BY <1>8, <2>1, <1>q DEF PeriodCheckRaises
<1>9. ASSUME NEW r \in Requests, FlipOriginal(r) PROVE VoidInv'
  <2> DEFINE o == draft[r].reverses
  <2>1. /\ o \in DOMAIN entries
        /\ DOMAIN entries' = DOMAIN entries
        /\ \A i \in DOMAIN entries :
             /\ entries'[i].tenant = entries[i].tenant
             /\ entries'[i].reverses = entries[i].reverses
             /\ entries'[i].lines = entries[i].lines
             /\ entries'[i].status = IF i = o THEN "VOID" ELSE entries[i].status
    BY <1>9, <1>t, VoidedEntry
  <2>2. /\ UNCHANGED <<draft, posted>> /\ pc[r] = "flip" /\ pc'[r] = "done" /\ Others(r)
    BY <1>9, <1>p DEF FlipOriginal
  <2>3. posted[r] \in DOMAIN entries /\ Reversal(posted[r], o)
    BY <2>2 DEF VoidInv, FlipsReversed
  <2>4. \A q \in Requests : pc[q] \in Building =>
          draft[q].reverses \in {0} \cup DOMAIN entries
    BY <1>t DEF TypeInv, DraftOK
  <2>5. DraftsMirror' /\ DraftsPass'
    BY <2>1, <2>2, <2>4 DEF VoidInv, DraftsMirror, DraftsPass
  <2>6. EntriesRecordable'
    BY <2>1 DEF VoidInv, EntriesRecordable
  <2>f. \A q \in Requests : pc[q] = "flip" => draft[q].reverses \in DOMAIN entries
    BY <1>t DEF TypeInv, DraftOK
  <2>7. FlipsReversed'
    BY <2>1, <2>2, <2>f DEF VoidInv, FlipsReversed, Reversal
  <2>8. VoidedIsReversed'
    BY <2>1, <2>3 DEF VoidInv, VoidedIsReversed, Reversal
  <2>9. UnfinishedVoidIsKnown'
    <3> SUFFICES ASSUME NEW j \in DOMAIN entries, NEW i \in DOMAIN entries,
                        entries[j].reverses = i, entries'[i].status # "VOID"
                 PROVE  \E q \in Requests : posted'[q] = j /\ pc'[q] \in {"flip", "crashed"}
      BY <2>1 DEF UnfinishedVoidIsKnown
    <3>1. i # o /\ entries[i].status # "VOID"
      BY <2>1
    <3>2. PICK q \in Requests : posted[q] = j /\ pc[q] \in {"flip", "crashed"}
      BY <3>1 DEF VoidInv, UnfinishedVoidIsKnown
    <3>3. q # r
      BY <2>3, <3>1, <3>2 DEF Reversal
    <3>4. QED
      BY <2>2, <3>2, <3>3
  <2>10. QED
    BY <1>t, <2>5, <2>6, <2>7, <2>8, <2>9 DEF VoidInv
<1>10. ASSUME NEW r \in Requests, ReadPeriod(r) PROVE VoidInv'
  <2>1. pc'[r] \in {"close", "reopen", "rejected"} /\ Others(r)
    BY <1>10, <1>p DEF ReadPeriod
  <2>2. QED
    BY <1>10, <2>1, <1>q DEF ReadPeriod
<1>11. ASSUME NEW r \in Requests, ReadYear(r) PROVE VoidInv'
  <2>1. pc'[r] = "close_year" /\ Others(r)
    BY <1>11, <1>p DEF ReadYear
  <2>2. QED
    BY <1>11, <2>1, <1>q DEF ReadYear
<1>12. ASSUME NEW r \in Requests, CommitPeriods(r) PROVE VoidInv'
  <2>1. pc'[r] = "done" /\ Others(r) /\ pc[r] \in Writing
    BY <1>12, <1>p DEF CommitPeriods
  <2>2. QED
    BY <1>12, <2>1, <1>q DEF CommitPeriods, Writing
<1>13. ASSUME NEW r \in Requests, Crash(r) PROVE VoidInv'
  <2>1. pc'[r] = "crashed" /\ Others(r) /\ pc[r] \in Running
    BY <1>13, <1>p DEF Crash
  <2>2. QED
    BY <1>13, <2>1, <1>q DEF Crash, Running, Writing
<1>14. CASE UNCHANGED vars
  BY <1>14, <1>t DEF vars, VoidInv, DraftsMirror, DraftsPass, EntriesRecordable,
     FlipsReversed, VoidedIsReversed, UnfinishedVoidIsKnown, Reversal
<1>15. QED
  BY <1>1, <1>2, <1>3, <1>4, <1>5, <1>6, <1>7, <1>8, <1>9, <1>10, <1>11, <1>12,
     <1>13, <1>14 DEF Next, Begin, Advance

\* A voided entry always has an offsetting reversal on record: the two commits
\* of void_journal_entry are in the order that cannot lose a transaction
\* (void.py:119-142), whatever runs beside it and wherever it stops.
THEOREM VoidsAreReversed == Spec => []VoidedIsReversed
<1>1. VoidInv => VoidedIsReversed
  BY DEF VoidInv
<1>2. QED
  BY <1>1, VoidInvInit, VoidInvNext, PTL DEF Spec

\* A reversal whose original is still POSTED belongs to a void that is running
\* or whose process stopped between its commits (void.py:112-142).
THEOREM UnfinishedVoidsAreKnown == Spec => []UnfinishedVoidIsKnown
<1>1. VoidInv => UnfinishedVoidIsKnown
  BY DEF VoidInv
<1>2. QED
  BY <1>1, VoidInvInit, VoidInvNext, PTL DEF Spec
-----------------------------------------------------------------------------
(* The ledger implements the append-only journal *)

\* The commit of an entry is the journal recording an acceptable entry.
LEMMA RecordStep ==
  ASSUME VoidInv, NEW r \in Requests, CommitPosting(r)
  PROVE  J!Record
<1> DEFINE n == Len(entries) + 1
<1>1. /\ n \in Nat
      /\ entries'[n] \in Entry
      /\ entries'[n].status = "POSTED"
      /\ entries'[n].lines \in Recordable
  BY PostedEntry
<1>2. entries' = Append(entries, [draft[r] EXCEPT !.status = "POSTED",
                                                 !.lines = Stored(@)])
  BY DEF CommitPosting
<1>3. /\ Len(entries') = n
      /\ entries' = Append(entries, entries'[n])
  BY <1>2 DEF VoidInv, TypeInv, TypeOK
<1>4. J!Acceptable(entries'[n])
  <2>1. J!Line(AccountIds) = Line(AccountIds)
    BY DEF J!Line, Line
  <2>2. J!JournalEntry = Entry
    BY <2>1 DEF J!JournalEntry, Entry
  <2>3. QED
    BY <1>1, <2>2 DEF J!Acceptable
<1>5. QED
  BY <1>3, <1>4 DEF J!Record

\* Marking the original VOID is the journal marking an entry whose reversal it
\* holds.
LEMMA MarkVoidStep ==
  ASSUME VoidInv, NEW r \in Requests, FlipOriginal(r)
  PROVE  \E i \in DOMAIN entries : J!MarkVoid(i)
<1>1. draft[r].reverses \in DOMAIN entries
  BY VoidedEntry DEF VoidInv
<1>2. posted[r] \in DOMAIN entries /\ Reversal(posted[r], draft[r].reverses)
  BY DEF VoidInv, FlipsReversed, FlipOriginal, EntryIds
<1>3. J!MarkVoid(draft[r].reverses)
  <2>1. J!Reverses(posted[r], draft[r].reverses)
    BY <1>2 DEF J!Reverses, J!Mirror, Reversal, Mirror
  <2>2. QED
    BY <1>2, <2>1 DEF FlipOriginal, MarkVoid, J!MarkVoid
<1>4. QED
  BY <1>1, <1>3

\* Every step of the ledger is a step of the journal or leaves it alone: posted
\* history is never deleted or edited, and an entry is marked VOID only with
\* its reversal on record (void.py:1-7).
THEOREM LedgerImplementsJournal == Spec => JournalSpec
<1>1. Init => J!Init
  BY DEF Init, J!Init
<1>2. VoidInv /\ [Next]_vars => [J!Next]_entries
  <2> SUFFICES ASSUME VoidInv, [Next]_vars
               PROVE  J!Next \/ UNCHANGED entries
    OBVIOUS
  <2>1. CASE UNCHANGED vars
    BY <2>1 DEF vars
  <2>2. CASE \E r \in Requests : CommitPosting(r)
    BY <2>2, RecordStep DEF J!Next
  <2>3. CASE \E r \in Requests : FlipOriginal(r)
    BY <2>3, MarkVoidStep DEF J!Next
  <2>4. ASSUME NEW r \in Requests, Begin(r) PROVE UNCHANGED entries
    BY <2>4 DEF Begin, Submit, ReadOriginal, VoidNotFound, ReadPeriod, ReadYear
  <2>5. ASSUME NEW r \in Requests, Advance(r), ~CommitPosting(r), ~FlipOriginal(r)
        PROVE  UNCHANGED entries
    BY <2>5 DEF Advance, CheckPeriod, PostingFails, CheckReversalPeriod,
       PeriodCheckRaises, CommitPeriods
  <2>6. ASSUME NEW r \in Requests, Crash(r) PROVE UNCHANGED entries
    BY <2>6 DEF Crash
  <2>7. QED
    BY <2>1, <2>2, <2>3, <2>4, <2>5, <2>6 DEF Next
<1>3. QED
  BY <1>1, <1>2, VoidInvInit, VoidInvNext, PTL DEF Spec, JournalSpec, J!Spec

-----------------------------------------------------------------------------
(* Balance *)

\* When no submission that passes the test on unrounded totals loses its balance
\* as it is rounded into the table, and none does in whole cents, no entry ever
\* stands unbalanced, reversals included (services.py:30-35, void.py:96-99).
THEOREM EntriesBalance ==
  ASSUME \A ls \in Submissions : PassesBalanceCheck(ls) => Balanced(Stored(ls))
  PROVE  Spec => []StoredEntriesBalance
<1>1. ASSUME NEW ls \in Recordable PROVE Balanced(ls)
  <2>1. ASSUME NEW m \in Accepted PROVE Balanced(m)
    BY <2>1 DEF Accepted
  <2>2. ASSUME NEW m \in Accepted PROVE Balanced(Mirror(m))
    BY <2>1, MirrorTotals DEF Balanced
  <2>3. QED
    BY <2>1, <2>2 DEF Recordable
<1>2. VoidInv => StoredEntriesBalance
  BY <1>1 DEF VoidInv, EntriesRecordable, StoredEntriesBalance
<1>3. QED
  BY <1>2, VoidInvInit, VoidInvNext, PTL DEF Spec
=============================================================================
