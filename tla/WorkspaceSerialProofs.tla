------------------------- MODULE WorkspaceSerialProofs -------------------------
(***************************************************************************)
(* Theorems about a workspace when one call ends before the next begins,   *)
(* the way the repository's tests drive it, with the import worker between *)
(* any two steps: what a call has read is then still so when it writes.  A *)
(* call may still be refused, and stop at any step.                        *)
(***************************************************************************)
EXTENDS WorkspaceProofs

LEMMA SerialIsNext == [SerialNext]_vars => [Next]_vars
BY DEF SerialNext, Next

LEMMA SerialIsSpec == SerialSpec => Spec
<1>1. [SerialNext]_vars => [Next]_vars
  BY SerialIsNext
<1>2. QED
  BY <1>1, PTL DEF SerialSpec, Spec

OneRuns == \A q, r \in Requests : Running(q) /\ Running(r) => q = r

\* A step of a call while no other runs.
CallAlone(r) == CallDoes(r) /\ \A q \in Requests \ {r} : ~Running(q)

LEMMA AdvancingRuns ==
  ASSUME NEW r \in Requests, Advance(r) \/ Stop(r)
  PROVE  Running(r)
<1>1. CASE Stop(r)
  BY <1>1 DEF Stop, Crash
<1>2. CASE BillsAdvance(r)
  BY <1>2 DEF BillsAdvance, PostBill, LinkBill, PostPayment, MarkPaid, PostingRefusedToBill,
     Refused, Running, Ended
<1>3. CASE InvoicesAdvance(r)
  BY <1>3 DEF InvoicesAdvance, PostInvoice, LinkInvoice, PostingRefusedToInvoice, Refused,
     Running, Ended
<1>4. CASE BankAdvance(r)
  BY <1>4 DEF BankAdvance, PostTxn, FindRule, Resolve, PostingRefusedToTxn, Refused,
     Running, Ended
<1>5. QED
  BY <1>1, <1>2, <1>3, <1>4 DEF Advance

LEMMA SerialCases ==
  ASSUME Shapes, OneRuns, SerialNext
  PROVE  (\E r \in Requests : CallAlone(r)) \/ (\E j \in Jobs : WorkerDoes(j))
<1>1. CASE Worker
  BY <1>1, ImportEffect DEF Worker
<1>2. ASSUME NEW r \in Requests, Quiet, Begin(r) PROVE CallAlone(r)
  BY <1>2, BeginEffect DEF CallAlone, Quiet
<1>3. ASSUME NEW r \in Requests, Advance(r) \/ Stop(r) PROVE CallAlone(r)
  <2>1. CallDoes(r)
    BY <1>3, AdvanceEffect, CrashEffect DEF CallDoes
  <2>2. Running(r)
    BY <1>3, AdvancingRuns
  <2>3. QED
    BY <2>1, <2>2 DEF CallAlone, OneRuns
<1>4. QED
  BY <1>1, <1>2, <1>3 DEF SerialNext

\* The others stand still, and are not at any point where a call holds anything.
LEMMA OthersStill ==
  ASSUME NEW r \in Requests, CallAlone(r)
  PROVE  \A q \in Requests \ {r} :
           /\ pc[q] \in {"idle"} \cup Ended
           /\ pc'[q] = pc[q] /\ task'[q] = task[q]
<1>1. \A q \in Requests \ {r} : pc'[q] = pc[q] /\ task'[q] = task[q]
  BY DEF CallAlone, CallDoes, BeginsDoes, CreateVendorDoes, StopsDoes, PostBillDoes,
     LinkBillDoes, PostPaymentDoes, MarkPaidDoes, PostInvoiceDoes, LinkInvoiceDoes,
     PostTxnDoes, ResolveDoes, Moved
<1>2. QED
  BY <1>1 DEF CallAlone, Running

LEMMA OneRunsNext ==
  ASSUME Shapes, OneRuns, [SerialNext]_vars
  PROVE  OneRuns'
<1>1. ASSUME NEW r \in Requests, CallAlone(r) PROVE OneRuns'
  <2>1. \A q \in Requests \ {r} : ~Running(q)'
    BY <1>1, OthersStill DEF Running
  <2>2. QED
    BY <2>1 DEF OneRuns
<1>2. ASSUME NEW j \in Jobs, WorkerDoes(j) PROVE OneRuns'
  BY <1>2 DEF WorkerDoes, docVars, OneRuns, Running
<1>3. CASE UNCHANGED vars
  BY <1>3 DEF vars, OneRuns, Running
<1>4. QED
  BY <1>1, <1>2, <1>3, SerialCases

-----------------------------------------------------------------------------
(* The learning loop *)

\* A call that has found no rule adds the first of its pattern.
LearnsNew == \A r \in Requests : pc[r] = "learn" => ~RuleKnown(task[r].read.desc)
RulesInv == OneRulePerPattern /\ LearnsNew

LEMMA RulesNextCall ==
  ASSUME Shapes, RulesInv, NEW r \in Requests, CallAlone(r)
  PROVE  RulesInv'
<1>0. \A q \in Requests \ {r} : pc'[q] # "learn"
  BY OthersStill DEF Ended
<1>1. CASE UNCHANGED rules /\ pc'[r] # "learn"
  BY <1>0, <1>1 DEF RulesInv, OneRulePerPattern, LearnsNew
<1>2. CASE /\ UNCHANGED rules /\ ~RuleKnown(task[r].read.desc)
           /\ pc'[r] = "learn" /\ task'[r] = task[r]
  BY <1>0, <1>2 DEF RulesInv, OneRulePerPattern, LearnsNew, RuleKnown
<1>3. ASSUME pc[r] = "learn", pc'[r] = "done",
             rules' = Append(rules, [pattern |-> task[r].read.desc, account |-> task[r].account])
      PROVE  RulesInv'
  <2> DEFINE row == [pattern |-> task[r].read.desc, account |-> task[r].account]
  <2>1. rules \in Seq(RuleRow)
    BY DEF Shapes, TypeOK
  <2>2. row \in RuleRow
    <3>1. task[r].read \in TxnRow /\ task[r].account \in Categories
      BY <1>3 DEF Shapes, CallsOK, CallOK
    <3>2. QED
      BY <3>1 DEF TxnRow, RuleRow
  <2>3. \A i \in DOMAIN rules : rules[i].pattern # row.pattern
    BY <1>3 DEF RulesInv, LearnsNew, RuleKnown
  <2>. HIDE DEF row
  <2>4. /\ DOMAIN rules' = DOMAIN rules \cup {Len(rules) + 1}
        /\ rules'[Len(rules) + 1] = row
        /\ \A i \in DOMAIN rules : rules'[i] = rules[i]
    <3>1. rules' = Append(rules, row)
      BY <1>3 DEF row
    <3>2. QED
      BY <2>1, <2>2, <3>1, AfterAppend
  <2>5. OneRulePerPattern'
    BY <2>3, <2>4 DEF RulesInv, OneRulePerPattern
  <2>6. LearnsNew'
    BY <1>0, <1>3 DEF LearnsNew
  <2>7. QED
    BY <2>5, <2>6 DEF RulesInv
<1>4. \/ UNCHANGED rules /\ pc'[r] # "learn"
      \/ /\ UNCHANGED rules /\ ~RuleKnown(task[r].read.desc)
         /\ pc'[r] = "learn" /\ task'[r] = task[r]
      \/ /\ pc[r] = "learn" /\ pc'[r] = "done"
         /\ rules' = Append(rules, [pattern |-> task[r].read.desc, account |-> task[r].account])
  BY DEF CallAlone, CallDoes, BeginsDoes, CreateVendorDoes, StopsDoes, rows, bankVars,
     PostBillDoes, LinkBillDoes, PostPaymentDoes, MarkPaidDoes, PostInvoiceDoes,
     LinkInvoiceDoes, PostTxnDoes, ResolveDoes, Moved
<1>5. QED
  BY <1>1, <1>2, <1>3, <1>4

LEMMA RulesNext ==
  ASSUME Shapes, OneRuns, RulesInv, [SerialNext]_vars
  PROVE  RulesInv'
<1>1. ASSUME UNCHANGED <<rules, pc, task>> PROVE RulesInv'
  BY <1>1 DEF RulesInv, OneRulePerPattern, LearnsNew, RuleKnown
<1>2. ASSUME NEW j \in Jobs, WorkerDoes(j) PROVE RulesInv'
  BY <1>1, <1>2 DEF WorkerDoes, docVars
<1>3. CASE UNCHANGED vars
  BY <1>1, <1>3 DEF vars
<1>4. QED
  BY <1>2, <1>3, SerialCases, RulesNextCall

LEMMA ShapesSerially == SerialSpec => []Shapes
BY SerialIsSpec, ShapesAlways, PTL

LEMMA OneRunsAlways == SerialSpec => []OneRuns
<1>1. Init => OneRuns
  BY DEF Init, DocumentsInit, OneRuns, Running
<1>2. Shapes /\ OneRuns /\ [SerialNext]_vars => OneRuns'
  BY OneRunsNext
<1>3. QED
  BY <1>1, <1>2, ShapesSerially, PTL DEF SerialSpec

\* Calls that do not overlap teach no pattern twice and none with two accounts
\* (banking/router.py:82-88): what _learn_vendor_rule has not found, no other
\* call has added by the time it commits.
THEOREM NoPatternTwice == SerialSpec => []OneRulePerPattern
<1>1. Init => RulesInv
  BY DEF Init, BankInit, DocumentsInit, RulesInv, OneRulePerPattern, LearnsNew
<1>2. Shapes /\ OneRuns /\ RulesInv /\ [SerialNext]_vars => RulesInv'
  BY RulesNext
<1>3. RulesInv => OneRulePerPattern
  BY DEF RulesInv
<1>4. QED
  BY <1>1, <1>2, <1>3, ShapesSerially, OneRunsAlways, PTL DEF SerialSpec

-----------------------------------------------------------------------------
(* The numbers of invoices *)

\* The count an invoice's number is taken from still stands when it commits.
NumberFresh == \A r \in Requests :
  pc[r] = "post_invoice" => task[r].number = NextNumber(task[r].input.year)
NumbersInv == NumbersAreSequential /\ NumberFresh

SameYear(year) == {i \in DOMAIN invoices : invoices[i].year = year}

LEMMA NumbersAfterPosting ==
  ASSUME Shapes, NumbersInv, NEW r \in Requests, pc[r] = "post_invoice", PostInvoiceDoes(r)
  PROVE  NumbersAreSequential'
<1> DEFINE n == Len(invoices)
           year == task[r].input.year
<1>1. invoices \in Seq(InvoiceRow)
  BY DEF Shapes, TypeOK
<1>2. n \in Nat /\ DOMAIN invoices = 1..n /\ DOMAIN invoices' = 1..(n + 1)
  BY <1>1 DEF PostInvoiceDoes
<1>3. invoices'[n + 1].year = year /\ invoices'[n + 1].number = task[r].number
  BY DEF PostInvoiceDoes
<1>4. \A k \in 1..n : invoices'[k] = invoices[k]
  BY <1>2 DEF PostInvoiceDoes
<1>. HIDE DEF n
<1>5. ASSUME NEW k \in 1..n
      PROVE  invoices'[k].number
             = Cardinality({m \in 1..k : invoices'[m].year = invoices'[k].year})
  <2>1. \A m \in 1..k : m \in 1..n
    BY <1>2
  <2>2. {m \in 1..k : invoices'[m].year = invoices'[k].year}
        = {m \in 1..k : invoices[m].year = invoices[k].year}
    BY <1>4, <2>1
  <2>3. invoices[k].number = Cardinality({m \in 1..k : invoices[m].year = invoices[k].year})
    BY <1>2 DEF NumbersInv, NumbersAreSequential
  <2>4. QED
    BY <1>4, <2>2, <2>3
<1>6. task[r].number = Cardinality(SameYear(year)) + 1
  BY DEF NumbersInv, NumberFresh, NextNumber, SameYear
<1>7. Cardinality({m \in 1..(n + 1) : invoices'[m].year = year}) = Cardinality(SameYear(year)) + 1
  <2>1. {m \in 1..(n + 1) : invoices'[m].year = year} = SameYear(year) \cup {n + 1}
    BY <1>2, <1>3, <1>4 DEF SameYear
  <2>2. n + 1 \notin SameYear(year)
    BY <1>2 DEF SameYear
  <2>3. IsFiniteSet(SameYear(year))
    <3>1. IsFiniteSet(1..n)
      <4>1. 1 \in Int /\ n \in Int
        BY <1>2
      <4>2. QED
        BY <4>1, FS_Interval
    <3>2. SameYear(year) \subseteq 1..n
      BY <1>2 DEF SameYear
    <3>3. QED
      BY <3>1, <3>2, FS_Subset
  <2>4. Cardinality(SameYear(year) \cup {n + 1}) = Cardinality(SameYear(year)) + 1
    BY <2>2, <2>3, FS_AddElement
  <2>5. QED
    BY <2>1, <2>4
<1>8. invoices'[n + 1].number
      = Cardinality({m \in 1..(n + 1) : invoices'[m].year = invoices'[n + 1].year})
  BY <1>3, <1>6, <1>7
<1>9. \A k \in 1..(n + 1) : k \in 1..n \/ k = n + 1
  BY <1>2
<1>10. \A k \in 1..(n + 1) :
         invoices'[k].number
         = Cardinality({m \in 1..k : invoices'[m].year = invoices'[k].year})
  BY <1>5, <1>8, <1>9
<1>11. QED
  BY <1>2, <1>10 DEF NumbersAreSequential

LEMMA NumbersAfterLinking ==
  ASSUME Shapes, NumbersAreSequential,
         NEW r \in Requests, NEW n \in DOMAIN invoices, LinkInvoiceDoes(r, n)
  PROVE  NumbersAreSequential'
<1>1. invoices[n] \in InvoiceRow
  BY ElementOf DEF Shapes, TypeOK
<1>2. invoices'[n].year = invoices[n].year /\ invoices'[n].number = invoices[n].number
  BY <1>1 DEF LinkInvoiceDoes, InvoiceRow
<1>3. \A k \in DOMAIN invoices :
        invoices'[k].year = invoices[k].year /\ invoices'[k].number = invoices[k].number
  BY <1>2 DEF LinkInvoiceDoes
<1>4. DOMAIN invoices' = DOMAIN invoices /\ \A k \in DOMAIN invoices : 1..k \subseteq DOMAIN invoices
  <2>1. invoices \in Seq(InvoiceRow)
    BY DEF Shapes, TypeOK
  <2>2. QED
    BY <2>1 DEF LinkInvoiceDoes
<1>5. \A k \in DOMAIN invoices : {m \in 1..k : invoices'[m].year = invoices'[k].year}
                                 = {m \in 1..k : invoices[m].year = invoices[k].year}
  BY <1>3, <1>4
<1>6. QED
  BY <1>3, <1>4, <1>5 DEF NumbersAreSequential

LEMMA NumbersNextCall ==
  ASSUME Shapes, NumbersInv, NEW r \in Requests, CallAlone(r)
  PROVE  NumbersInv'
<1>0. \A q \in Requests \ {r} : pc'[q] # "post_invoice"
  BY OthersStill DEF Ended
<1>1. CASE UNCHANGED invoices
  <2>1. NumbersAreSequential'
    BY <1>1 DEF NumbersInv, NumbersAreSequential
  <2>2. CASE pc'[r] # "post_invoice"
    BY <1>0, <2>1, <2>2 DEF NumbersInv, NumberFresh
  <2>3. CASE BeginsDoes(r) /\ pc'[r] = "post_invoice"
    <3>i. PICK input \in InvoiceInputs :
            task'[r] = [doc |-> InvoiceDoc(0), input |-> input, number |-> NextNumber(input.year)]
      BY <2>3 DEF BeginsDoes, Moved
    <3>1. task'[r].number = NextNumber(task'[r].input.year)
      BY <3>i
    <3>2. QED
      BY <1>0, <1>1, <2>1, <3>1 DEF NumbersInv, NumberFresh, NextNumber
  <2>4. pc'[r] # "post_invoice" \/ BeginsDoes(r)
    BY DEF CallAlone, CallDoes, CreateVendorDoes, StopsDoes, PostBillDoes, LinkBillDoes,
       PostPaymentDoes, MarkPaidDoes, PostInvoiceDoes, LinkInvoiceDoes, PostTxnDoes,
       ResolveDoes, Moved
  <2>5. QED
    BY <2>2, <2>3, <2>4
<1>2. CASE pc[r] = "post_invoice" /\ PostInvoiceDoes(r)
  <2>1. pc'[r] # "post_invoice"
    BY <1>2 DEF PostInvoiceDoes, Moved
  <2>2. NumbersAreSequential'
    BY <1>2, NumbersAfterPosting
  <2>3. QED
    BY <1>0, <2>1, <2>2 DEF NumbersInv, NumberFresh
<1>3. ASSUME NEW n \in DOMAIN invoices, LinkInvoiceDoes(r, n) PROVE NumbersInv'
  <2>1. pc'[r] # "post_invoice"
    BY <1>3 DEF LinkInvoiceDoes, Moved
  <2>2. NumbersAreSequential'
    BY <1>3, NumbersAfterLinking DEF NumbersInv
  <2>3. QED
    BY <1>0, <2>1, <2>2 DEF NumbersInv, NumberFresh
<1>4. \/ UNCHANGED invoices
      \/ pc[r] = "post_invoice" /\ PostInvoiceDoes(r)
      \/ \E n \in DOMAIN invoices : LinkInvoiceDoes(r, n)
  BY DEF CallAlone, CallDoes, BeginsDoes, CreateVendorDoes, StopsDoes, rows, PostBillDoes,
     LinkBillDoes, PostPaymentDoes, MarkPaidDoes, PostTxnDoes, ResolveDoes
<1>5. QED
  BY <1>1, <1>2, <1>3, <1>4

\* INV-<year>-<sequence>: the invoices of a year are numbered 1, 2, 3... in the
\* order they were committed, when calls do not overlap
\* (_next_invoice_number, sales/services.py:38-55).
THEOREM NumbersHaveNoGaps == SerialSpec => []NumbersAreSequential
<1>1. Init => NumbersInv
  BY DEF Init, InvoicesInit, DocumentsInit, NumbersInv, NumbersAreSequential, NumberFresh
<1>2. Shapes /\ OneRuns /\ NumbersInv /\ [SerialNext]_vars => NumbersInv'
  <2> SUFFICES ASSUME Shapes, OneRuns, NumbersInv, [SerialNext]_vars PROVE NumbersInv'
    OBVIOUS
  <2>1. ASSUME UNCHANGED <<invoices, pc, task>> PROVE NumbersInv'
    BY <2>1 DEF NumbersInv, NumbersAreSequential, NumberFresh, NextNumber
  <2>2. ASSUME NEW j \in Jobs, WorkerDoes(j) PROVE NumbersInv'
    BY <2>1, <2>2 DEF WorkerDoes, docVars
  <2>3. CASE UNCHANGED vars
    BY <2>1, <2>3 DEF vars
  <2>4. QED
    BY <2>2, <2>3, SerialCases, NumbersNextCall
<1>3. NumbersInv => NumbersAreSequential
  BY DEF NumbersInv
<1>4. QED
  BY <1>1, <1>2, <1>3, ShapesSerially, OneRunsAlways, PTL DEF SerialSpec

-----------------------------------------------------------------------------
(* The account a transaction shows *)

\* No transaction is approved to the bank's own account.
BankNotChosen == "bank" \notin Categories

TxnsWhole == \A n \in DOMAIN txns : txns[n].amount \in Whole

\* An approval holds its transaction as it is, and its entry the lines for it.
ReadFresh == \A r \in Requests : pc[r] \in {"post_txn"} \cup ToResolve =>
  \A n \in DOMAIN txns : task[r].doc = TxnDoc(n) => task[r].read = txns[n]
EntryFits == \A r \in Requests : pc[r] \in ToResolve =>
  books[task[r].entry].lines = Stored(TxnLines(task[r].read.amount, task[r].account))

ShownInv == TxnsWhole /\ ReadFresh /\ EntryFits /\ ShownAsPosted

LEMMA TxnBalance ==
  ASSUME NEW amount \in Whole, NEW account \in Categories, account # "bank"
  PROVE  AccountBalance(account, Stored(TxnLines(amount, account))) = -amount
<1>0. amount \in Int /\ -amount \in Int /\ 0 \in Int
  BY DEF Whole
<1>1. WholeCents(TxnLines(amount, account))
  BY DEF Whole, WholeCents, TxnLines, On, Cent
<1>2. Stored(TxnLines(amount, account)) = TxnLines(amount, account)
  BY <1>0, <1>1, TxnLinesType, StoredSame
<1>3. CASE amount >= 0
  <2> DEFINE x == On("bank", amount, 0)
             y == On(account, 0, amount)
  <2>1. Effect(account, x) = 0 /\ Effect(account, y) = -amount
    BY <1>0 DEF Effect, On
  <2>2. TxnLines(amount, account) = <<x, y>>
    BY <1>3 DEF TxnLines
  <2>. HIDE DEF x, y
  <2>3. AccountBalance(account, <<x, y>>) = 0 + (-amount)
    BY <1>0, <2>1, BalanceOfTwo
  <2>4. QED
    BY <1>0, <1>2, <2>2, <2>3
<1>4. CASE ~(amount >= 0)
  <2> DEFINE x == On("bank", 0, -amount)
             y == On(account, -amount, 0)
  <2>1. Effect(account, x) = 0 /\ Effect(account, y) = -amount
    BY <1>0 DEF Effect, On
  <2>2. TxnLines(amount, account) = <<x, y>>
    BY <1>4 DEF TxnLines
  <2>. HIDE DEF x, y
  <2>3. AccountBalance(account, <<x, y>>) = 0 + (-amount)
    BY <1>0, <2>1, BalanceOfTwo
  <2>4. QED
    BY <1>0, <1>2, <2>2, <2>3
<1>5. QED
  BY <1>3, <1>4

\* Entries stay, so what is shown of a transaction that stays is still so.
LEMMA ShownStays ==
  ASSUME LinksInv, ShownInv, Grown, NEW n \in DOMAIN txns, n \in DOMAIN txns',
         txns'[n] = txns[n]
  PROVE  /\ txns'[n].amount \in Whole
         /\ txns'[n].entry # 0 =>
              AccountBalance(txns'[n].suggested, books'[txns'[n].entry].lines) = -txns'[n].amount
<1>1. txns[n].entry # 0 => txns[n].entry \in EntryIds
  BY DEF LinksInv, Links, TxnsLinked, EntriesOf
<1>2. txns[n].entry # 0 => books'[txns[n].entry] = books[txns[n].entry]
  BY <1>1 DEF Grown
<1>3. QED
  BY <1>2 DEF ShownInv, TxnsWhole, ShownAsPosted

LEMMA ShownSame ==
  ASSUME LinksInv, ShownInv, Grown, UNCHANGED txns
  PROVE  TxnsWhole' /\ ShownAsPosted'
<1>1. \A n \in DOMAIN txns' :
        /\ txns'[n].amount \in Whole
        /\ txns'[n].entry # 0 =>
             AccountBalance(txns'[n].suggested, books'[txns'[n].entry].lines) = -txns'[n].amount
  BY ShownStays
<1>2. QED
  BY <1>1 DEF TxnsWhole, ShownAsPosted

LEMMA ShownNextCall ==
  ASSUME LinksInv, ShownInv, BankNotChosen, Grown, NEW r \in Requests, CallAlone(r)
  PROVE  ShownInv'
<1>s. Shapes
  BY DEF LinksInv
<1>0. \A q \in Requests \ {r} : pc'[q] \notin {"post_txn"} \cup ToResolve
  BY OthersStill DEF Ended, ToResolve
<1>i. \A n, m : TxnDoc(n) = TxnDoc(m) => n = m
  BY DEF TxnDoc
<1>1. CASE UNCHANGED txns /\ pc'[r] \notin {"post_txn"} \cup ToResolve
  <2>1. TxnsWhole' /\ ShownAsPosted'
    BY <1>1, ShownSame
  <2>2. ReadFresh' /\ EntryFits'
    BY <1>0, <1>1 DEF ReadFresh, EntryFits
  <2>3. QED
    BY <2>1, <2>2 DEF ShownInv
<1>2. CASE BeginsDoes(r) /\ pc'[r] = "post_txn"
  <2>0. UNCHANGED txns
    BY <1>2 DEF BeginsDoes, rows, bankVars
  <2>1. TxnsWhole' /\ ShownAsPosted'
    BY <2>0, ShownSame
  <2>2. PICK n \in DOMAIN txns, account \in Categories :
          task'[r] = [doc |-> TxnDoc(n), read |-> txns[n], account |-> account]
    BY <1>2 DEF BeginsDoes, Moved
  <2>3. task'[r].doc = TxnDoc(n) /\ task'[r].read = txns[n]
    BY <2>2
  <2>4. ReadFresh'
    BY <1>0, <1>i, <2>0, <2>3 DEF ReadFresh
  <2>5. EntryFits'
    BY <1>0, <1>2 DEF EntryFits, ToResolve
  <2>6. QED
    BY <2>1, <2>4, <2>5 DEF ShownInv
<1>3. CASE /\ UNCHANGED <<books, txns>> /\ task'[r] = task[r]
           /\ pc[r] \in ToResolve /\ pc'[r] \in ToResolve
  <2>1. TxnsWhole' /\ ShownAsPosted'
    BY <1>3, ShownSame
  <2>2. ReadFresh' /\ EntryFits'
    BY <1>0, <1>3 DEF ShownInv, ReadFresh, EntryFits
  <2>3. QED
    BY <2>1, <2>2 DEF ShownInv
<1>4. ASSUME NEW n \in DOMAIN txns, pc[r] = "post_txn", PostTxnDoes(r, n) PROVE ShownInv'
  <2>0. UNCHANGED txns
    BY <1>4 DEF PostTxnDoes, bankVars
  <2>1. TxnsWhole' /\ ShownAsPosted'
    BY <2>0, ShownSame
  <2>2. /\ task'[r].doc = task[r].doc /\ task'[r].read = task[r].read
        /\ task'[r].account = task[r].account /\ task'[r].entry = NewEntry
    BY <1>4 DEF PostTxnDoes, Moved
  <2>3. ReadFresh'
    BY <1>0, <1>4, <2>0, <2>2 DEF ShownInv, ReadFresh
  <2>4. books'[NewEntry].lines = Stored(TxnLines(task[r].read.amount, task[r].account))
    BY <1>4 DEF PostTxnDoes, PostedFor
  <2>5. EntryFits'
    BY <1>0, <2>2, <2>4 DEF EntryFits
  <2>6. QED
    BY <2>1, <2>3, <2>5 DEF ShownInv
<1>5. ASSUME NEW n \in DOMAIN txns, pc[r] \in ToResolve, ResolveDoes(r, n) PROVE ShownInv'
  <2>1. task[r].read = txns[n] /\ task[r].account \in Categories
    BY <1>5 DEF ShownInv, ReadFresh, ResolveDoes
  <2>2. task[r].entry \in EntryIds
    BY <1>5 DEF ResolveDoes, EntriesOf
  <2>3. task[r].entry \in Nat
    BY <1>s, <2>2, EntriesAreNumbers
  <2>4. txns[n] \in TxnRow
    BY <1>s, ElementOf DEF Shapes, TypeOK
  <2>5. /\ txns'[n].entry = task[r].entry /\ txns'[n].amount = txns[n].amount
        /\ txns'[n].suggested = task[r].account
    BY <1>5, <2>1, <2>4 DEF ResolveDoes, Resolved, LinkedEntry, TxnRow
  <2>6. books'[task[r].entry].lines = Stored(TxnLines(txns[n].amount, task[r].account))
    <3>1. books' = books
      BY <1>5 DEF ResolveDoes
    <3>2. QED
      BY <1>5, <2>1, <3>1 DEF ShownInv, EntryFits
  <2>7. txns[n].amount \in Whole
    BY DEF ShownInv, TxnsWhole
  <2>8. task[r].account # "bank"
    BY <2>1 DEF BankNotChosen
  <2>9. AccountBalance(task[r].account, Stored(TxnLines(txns[n].amount, task[r].account)))
        = -txns[n].amount
    BY <2>1, <2>7, <2>8, TxnBalance
  <2>10. DOMAIN txns' = DOMAIN txns /\ \A k \in DOMAIN txns \ {n} : txns'[k] = txns[k]
    BY <1>5 DEF ResolveDoes
  <2>11. \A k \in DOMAIN txns' :
           /\ txns'[k].amount \in Whole
           /\ txns'[k].entry # 0 =>
                AccountBalance(txns'[k].suggested, books'[txns'[k].entry].lines)
                = -txns'[k].amount
    <3>1. ASSUME NEW k \in DOMAIN txns \ {n}
          PROVE  /\ txns'[k].amount \in Whole
                 /\ txns'[k].entry # 0 =>
                      AccountBalance(txns'[k].suggested, books'[txns'[k].entry].lines)
                      = -txns'[k].amount
      BY <2>10, <3>1, ShownStays
    <3>2. /\ txns'[n].amount \in Whole
          /\ AccountBalance(txns'[n].suggested, books'[txns'[n].entry].lines)
             = -txns'[n].amount
      BY <2>5, <2>6, <2>7, <2>9
    <3>3. QED
      BY <2>10, <3>1, <3>2
  <2>12. TxnsWhole' /\ ShownAsPosted'
    BY <2>11 DEF TxnsWhole, ShownAsPosted
  <2>13. pc'[r] \notin {"post_txn"} \cup ToResolve
    BY <1>5 DEF ResolveDoes, Moved, ToResolve
  <2>14. ReadFresh' /\ EntryFits'
    BY <1>0, <2>13 DEF ReadFresh, EntryFits
  <2>15. QED
    BY <2>12, <2>14 DEF ShownInv
<1>6. \/ UNCHANGED txns /\ pc'[r] \notin {"post_txn"} \cup ToResolve
      \/ BeginsDoes(r) /\ pc'[r] = "post_txn"
      \/ /\ UNCHANGED <<books, txns>> /\ task'[r] = task[r]
         /\ pc[r] \in ToResolve /\ pc'[r] \in ToResolve
      \/ \E n \in DOMAIN txns : pc[r] = "post_txn" /\ PostTxnDoes(r, n)
      \/ \E n \in DOMAIN txns : pc[r] \in ToResolve /\ ResolveDoes(r, n)
  <2>1. CASE BeginsDoes(r)
    BY <2>1 DEF BeginsDoes, rows, bankVars, Moved, ToResolve
  <2>2. CASE StopsDoes(r)
    BY <2>2 DEF StopsDoes, rows, bankVars, Moved, ToResolve
  <2>3. ASSUME NEW n \in DOMAIN txns, pc[r] \in {"known", "learn", "resolve"}, ResolveDoes(r, n)
        PROVE  pc[r] \in ToResolve /\ ResolveDoes(r, n)
    BY <2>3 DEF ToResolve
  <2>4. \/ BeginsDoes(r) \/ StopsDoes(r)
        \/ UNCHANGED txns /\ pc'[r] \notin {"post_txn"} \cup ToResolve
        \/ \E n \in DOMAIN txns : pc[r] = "post_txn" /\ PostTxnDoes(r, n)
        \/ \E n \in DOMAIN txns : pc[r] \in {"known", "learn", "resolve"} /\ ResolveDoes(r, n)
    BY DEF CallAlone, CallDoes, CreateVendorDoes, PostBillDoes, LinkBillDoes, PostPaymentDoes,
       MarkPaidDoes, PostInvoiceDoes, LinkInvoiceDoes, bankVars, Moved, ToResolve
  <2>5. QED
    BY <2>1, <2>2, <2>3, <2>4
<1>7. QED
  BY <1>1, <1>2, <1>3, <1>4, <1>5, <1>6

LEMMA ShownNextWorker ==
  ASSUME LinksInv, ShownInv, Grown, NEW j \in Jobs, WorkerDoes(j)
  PROVE  ShownInv'
<1>s. Shapes /\ UNCHANGED <<books, pc, task>>
  BY DEF LinksInv, WorkerDoes, docVars
<1>1. CASE UNCHANGED txns
  <2>1. TxnsWhole' /\ ShownAsPosted'
    BY <1>1, ShownSame
  <2>2. ReadFresh' /\ EntryFits'
    BY <1>s, <1>1 DEF ShownInv, ReadFresh, EntryFits
  <2>3. QED
    BY <2>1, <2>2 DEF ShownInv
<1>2. CASE WorkerCommits(j)
  <2>1. /\ DOMAIN txns' = DOMAIN txns \cup {Len(txns) + k : k \in DOMAIN Added(j)}
        /\ \A n \in DOMAIN txns : txns'[n] = txns[n]
        /\ \A k \in DOMAIN Added(j) : txns'[Len(txns) + k] = Added(j)[k]
    BY <1>s, <1>2, TxnsByCommit
  <2>2. ASSUME NEW k \in DOMAIN Added(j)
        PROVE  Added(j)[k].entry = 0 /\ Added(j)[k].amount \in Whole
    <3>1. k \in DOMAIN Statement[j]
      BY DEF Added
    <3>2. Statement[j][k].amount \in Int
      <4>1. Statement[j] \in Seq([desc : STRING, amount : Int])
        BY BankAssumption
      <4>2. Statement[j][k] \in [desc : STRING, amount : Int]
        BY <3>1, <4>1, ElementOf
      <4>3. QED
        BY <4>2
    <3>3. Numeric2(Statement[j][k].amount) \in Whole
      BY <3>2, StoredInWhole
    <3>4. Added(j)[k].entry = 0 /\ Added(j)[k].amount = Numeric2(Statement[j][k].amount)
      BY <3>1 DEF Added, Categorized
    <3>5. QED
      BY <3>3, <3>4
  <2>3. ASSUME NEW n \in DOMAIN txns'
        PROVE  /\ txns'[n].amount \in Whole
               /\ txns'[n].entry # 0 =>
                    AccountBalance(txns'[n].suggested, books'[txns'[n].entry].lines)
                    = -txns'[n].amount
    <3>1. CASE n \in DOMAIN txns
      BY <2>1, <3>1, ShownStays
    <3>2. CASE n \notin DOMAIN txns
      <4>1. PICK k \in DOMAIN Added(j) : n = Len(txns) + k
        BY <2>1, <3>2
      <4>2. txns'[n] = Added(j)[k]
        BY <2>1, <4>1
      <4>3. QED
        BY <2>2, <4>2
    <3>3. QED
      BY <3>1, <3>2
  <2>4. TxnsWhole' /\ ShownAsPosted'
    BY <2>3 DEF TxnsWhole, ShownAsPosted
  <2>5. ReadFresh'
    <3>1. ASSUME NEW r \in Requests, pc[r] \in {"post_txn"} \cup ToResolve,
                 NEW n \in DOMAIN txns', task[r].doc = TxnDoc(n)
          PROVE  task[r].read = txns'[n]
      <4>1. PICK m \in DOMAIN txns : task[r].doc = TxnDoc(m)
        BY <1>s, <3>1 DEF Shapes, CallsOK, CallOK, ToResolve
      <4>2. n = m
        BY <3>1, <4>1 DEF TxnDoc
      <4>3. task[r].read = txns[n]
        BY <3>1, <4>1, <4>2 DEF ShownInv, ReadFresh
      <4>4. QED
        BY <2>1, <4>1, <4>2, <4>3
    <3>2. QED
      BY <1>s, <3>1 DEF ReadFresh
  <2>6. EntryFits'
    BY <1>s DEF ShownInv, EntryFits
  <2>7. QED
    BY <2>4, <2>5, <2>6 DEF ShownInv
<1>3. QED
  BY <1>1, <1>2 DEF WorkerDoes, WorkerMoves, WorkerLoads

LEMMA LinksSerially == SerialSpec => []LinksInv
BY SerialIsSpec, LinksInvAlways, PTL

\* A transaction that points at an entry shows the account the entry posted its
\* amount to (approve_transaction, banking/router.py:140-176), when calls do
\* not overlap: the handler writes the columns that differ from what it read,
\* and what it read is still there.  A person who approves to the bank's own
\* account would post an entry that cancels itself.
THEOREM WhatIsShownWasPosted ==
  ASSUME BankNotChosen
  PROVE  SerialSpec => []ShownAsPosted
<1>1. Init => ShownInv
  BY DEF Init, BankInit, DocumentsInit, ShownInv, TxnsWhole, ReadFresh, EntryFits,
     ShownAsPosted, ToResolve
<1>2. LinksInv /\ OneRuns /\ ShownInv /\ [SerialNext]_vars => ShownInv'
  <2> SUFFICES ASSUME LinksInv, OneRuns, ShownInv, [SerialNext]_vars PROVE ShownInv'
    OBVIOUS
  <2>1. Shapes /\ Grown
    <3>1. Shapes
      BY DEF LinksInv
    <3>2. QED
      BY <3>1, SerialIsNext, ShapesNext
  <2>2. CASE UNCHANGED vars
    BY <2>2 DEF vars, ShownInv, TxnsWhole, ReadFresh, EntryFits, ShownAsPosted
  <2>3. CASE SerialNext
    BY <2>1, <2>3, SerialCases, ShownNextCall, ShownNextWorker
  <2>4. QED
    BY <2>2, <2>3
<1>3. ShownInv => ShownAsPosted
  BY DEF ShownInv
<1>4. QED
  BY <1>1, <1>2, <1>3, LinksSerially, OneRunsAlways, PTL DEF SerialSpec

-----------------------------------------------------------------------------
(* Payments of a bill *)

StoppedFor(doc) == {r \in Crashed : task[r].doc = doc}
Paying(doc) == \E r \in Requests : pc[r] = "mark_paid" /\ task[r].doc = doc
Payments(b) == EntriesOf(BillDoc(b), "pay")

\* A call that is about to pay a bill has found it open, and it still is.
FoundOpen == \A r \in Requests : pc[r] = "post_payment" =>
  \A b \in DOMAIN bills : task[r].doc = BillDoc(b) => ~bills[b].paid

\* Of the payments of a bill one is what the bill says, or about to be; every
\* other is of a call that has stopped.
Accounted(b) ==
  /\ Cardinality(Payments(b)) <= Cardinality(StoppedFor(BillDoc(b))) + 1
  /\ ~bills[b].paid /\ ~Paying(BillDoc(b)) =>
       Cardinality(Payments(b)) <= Cardinality(StoppedFor(BillDoc(b)))
PaidOnceInv == IsFiniteSet(Crashed) /\ FoundOpen /\ \A b \in DOMAIN bills : Accounted(b)

LEMMA PaymentsFinite ==
  ASSUME Shapes, NEW b
  PROVE  IsFiniteSet(Payments(b)) /\ Cardinality(Payments(b)) \in Nat
<1>1. books \in Seq(EntryRow)
  BY DEF Shapes, TypeOK
<1>2. EntryIds = 1..Len(books) /\ Len(books) \in Int /\ 1 \in Int
  BY <1>1 DEF EntryIds
<1>3. IsFiniteSet(EntryIds)
  BY <1>2, FS_Interval
<1>4. IsFiniteSet(Payments(b))
  BY <1>3, FS_Subset DEF Payments, EntriesOf
<1>5. QED
  BY <1>4, FS_CardinalityType

LEMMA StoppedFinite ==
  ASSUME IsFiniteSet(Crashed), NEW doc
  PROVE  IsFiniteSet(StoppedFor(doc)) /\ Cardinality(StoppedFor(doc)) \in Nat
<1>1. IsFiniteSet(StoppedFor(doc))
  BY FS_Subset DEF StoppedFor
<1>2. QED
  BY <1>1, FS_CardinalityType

\* The call that takes a step has not stopped before; it may now.
LEMMA StopsOnly ==
  ASSUME NEW r \in Requests, CallAlone(r)
  PROVE  /\ pc[r] # "crashed"
         /\ Crashed' = Crashed \cup (IF pc'[r] = "crashed" THEN {r} ELSE {})
         /\ \A q \in Crashed : task'[q] = task[q]
         /\ \A doc : Paying(doc) => pc[r] = "mark_paid" /\ task[r].doc = doc
<1>1. pc[r] # "crashed"
  BY DEF CallAlone, CallDoes, StopsDoes, Running, Ended
<1>2. \A q \in Requests \ {r} : pc'[q] = pc[q] /\ task'[q] = task[q] /\ pc[q] # "mark_paid"
  BY OthersStill DEF Ended
<1>3. QED
  BY <1>1, <1>2 DEF Crashed, Paying

\* StoppedFor after a step.
StoppedThen(doc) == {q \in Crashed' : task'[q].doc = doc}

LEMMA StoppedAfter ==
  ASSUME IsFiniteSet(Crashed), NEW r \in Requests, CallAlone(r), NEW doc
  PROVE  /\ IsFiniteSet(Crashed')
         /\ Cardinality(StoppedThen(doc)) \in Nat
         /\ Cardinality(StoppedFor(doc)) <= Cardinality(StoppedThen(doc))
         /\ pc'[r] = "crashed" /\ task'[r].doc = doc =>
              Cardinality(StoppedThen(doc)) = Cardinality(StoppedFor(doc)) + 1
<1>1. IsFiniteSet(Crashed')
  <2>1. Crashed' = Crashed \/ Crashed' = Crashed \cup {r}
    BY StopsOnly
  <2>2. QED
    BY <2>1, FS_AddElement
<1>2. StoppedThen(doc) = StoppedFor(doc)
        \cup (IF pc'[r] = "crashed" /\ task'[r].doc = doc THEN {r} ELSE {})
  BY StopsOnly DEF StoppedThen, StoppedFor
<1>3. r \notin StoppedFor(doc)
  BY StopsOnly DEF StoppedFor, Crashed
<1>4. IsFiniteSet(StoppedFor(doc)) /\ Cardinality(StoppedFor(doc)) \in Nat
  BY StoppedFinite
<1>5. CASE pc'[r] = "crashed" /\ task'[r].doc = doc
  <2>1. StoppedThen(doc) = StoppedFor(doc) \cup {r}
    BY <1>2, <1>5
  <2>2. Cardinality(StoppedFor(doc) \cup {r}) = Cardinality(StoppedFor(doc)) + 1
    BY <1>3, <1>4, FS_AddElement
  <2>3. QED
    BY <1>1, <1>4, <2>1, <2>2
<1>6. CASE ~(pc'[r] = "crashed" /\ task'[r].doc = doc)
  <2>1. StoppedThen(doc) = StoppedFor(doc)
    BY <1>2, <1>6
  <2>2. QED
    BY <1>1, <1>4, <1>6, <2>1
<1>7. QED
  BY <1>5, <1>6

\* No payment is added: what was accounted for still is.
LEMMA AccountedStays ==
  ASSUME Shapes, PaidOnceInv, NEW r \in Requests, CallAlone(r),
         NEW b \in DOMAIN bills, Accounted(b), Payments(b)' = Payments(b),
         \/ bills'[b].paid
         \/ Paying(BillDoc(b))'
         \/ pc'[r] = "crashed" /\ task'[r].doc = BillDoc(b)
         \/ ~bills[b].paid /\ ~Paying(BillDoc(b))
  PROVE  Accounted(b)'
<1> DEFINE p == Cardinality(Payments(b))
           s == Cardinality(StoppedFor(BillDoc(b)))
           z == Cardinality(StoppedThen(BillDoc(b)))
<1>1. p \in Nat /\ s \in Nat
  BY PaymentsFinite, StoppedFinite DEF PaidOnceInv
<1>2. z \in Nat /\ s <= z
  BY StoppedAfter DEF PaidOnceInv
<1>3. pc'[r] = "crashed" /\ task'[r].doc = BillDoc(b) => z = s + 1
  BY StoppedAfter DEF PaidOnceInv
<1>4. p <= s + 1 /\ (~bills[b].paid /\ ~Paying(BillDoc(b)) => p <= s)
  BY DEF Accounted
<1>5. Cardinality(Payments(b)') = p /\ StoppedFor(BillDoc(b))' = StoppedThen(BillDoc(b))
  BY DEF StoppedFor, StoppedThen, BillDoc
<1>. HIDE DEF p, s, z
<1>6. p <= z + 1 /\ (~bills'[b].paid /\ ~(Paying(BillDoc(b))') => p <= z)
  BY <1>1, <1>2, <1>3, <1>4
<1>7. QED
  BY <1>5, <1>6 DEF Accounted, z

\* A payment is posted for a bill that is open and that nobody else pays.
LEMMA PaymentAccounted ==
  ASSUME Shapes, PaidOnceInv, NEW r \in Requests, CallAlone(r), NEW c \in DOMAIN bills,
         pc[r] = "post_payment", PostPaymentDoes(r, c)
  PROVE  Accounted(c)'
<1>1. Cardinality(Payments(c)) <= Cardinality(StoppedFor(BillDoc(c)))
  <2>1. ~bills[c].paid
    BY DEF PaidOnceInv, FoundOpen, PostPaymentDoes
  <2>2. ~Paying(BillDoc(c))
    BY StopsOnly
  <2>3. QED
    BY <2>1, <2>2 DEF PaidOnceInv, Accounted
<1>2. Payments(c)' = Payments(c) \cup {NewEntry}
  <2>1. Payments(c)' = EntriesThen(BillDoc(c), "pay")
    BY DEF Payments, EntriesOf, EntriesThen, BillDoc
  <2>2. EntriesThen(BillDoc(c), "pay") = EntriesOf(BillDoc(c), "pay") \cup {NewEntry}
    BY EntriesAfter DEF PostPaymentDoes
  <2>3. QED
    BY <2>1, <2>2 DEF Payments
<1>3. NewEntry \notin Payments(c)
  BY DEF PostPaymentDoes, PostedFor, Payments, EntriesOf
<1>4. IsFiniteSet(Payments(c)) /\ Cardinality(Payments(c)) \in Nat
  BY PaymentsFinite
<1>5. Cardinality(Payments(c) \cup {NewEntry}) = Cardinality(Payments(c)) + 1
  BY <1>3, <1>4, FS_AddElement
<1>6. /\ Cardinality(StoppedThen(BillDoc(c))) \in Nat
      /\ Cardinality(StoppedFor(BillDoc(c))) <= Cardinality(StoppedThen(BillDoc(c)))
  BY StoppedAfter DEF PaidOnceInv
<1>7. Cardinality(StoppedFor(BillDoc(c))) \in Nat
  BY StoppedFinite DEF PaidOnceInv
<1>8. StoppedFor(BillDoc(c))' = StoppedThen(BillDoc(c))
  BY DEF StoppedFor, StoppedThen, BillDoc
<1>9. Paying(BillDoc(c))'
  BY DEF PostPaymentDoes, Moved, Paying, BillDoc
<1>10. Cardinality(Payments(c) \cup {NewEntry}) <= Cardinality(StoppedThen(BillDoc(c))) + 1
  BY <1>1, <1>4, <1>5, <1>6, <1>7
<1>11. Cardinality(Payments(c)') <= Cardinality(StoppedFor(BillDoc(c))') + 1
  BY <1>2, <1>8, <1>10
<1>12. QED
  BY <1>9, <1>11 DEF Accounted

LEMMA FoundOpenNext ==
  ASSUME Shapes, PaidOnceInv, NEW r \in Requests, CallAlone(r)
  PROVE  FoundOpen'
<1>0. \A q \in Requests \ {r} : pc'[q] # "post_payment"
  BY OthersStill DEF Ended
<1>1. CASE pc'[r] # "post_payment"
  BY <1>0, <1>1 DEF FoundOpen
<1>2. CASE pc'[r] = "post_payment"
  <2>1. BeginsDoes(r)
    BY <1>2 DEF CallAlone, CallDoes, StopsDoes, CreateVendorDoes, PostBillDoes, LinkBillDoes,
       PostPaymentDoes, MarkPaidDoes, PostInvoiceDoes, LinkInvoiceDoes, PostTxnDoes,
       ResolveDoes, Moved
  <2>2. bills' = bills
    BY <2>1 DEF BeginsDoes, rows, billVars
  <2>3. \E b \in DOMAIN bills :
          ~bills[b].paid /\ Moved(r, "post_payment", [doc |-> BillDoc(b), amount |-> bills[b].amount])
    <3>1. ~Moved(r, "rejected", task[r])
      BY <1>2 DEF Moved
    <3>2. \A amount \in BillAmounts :
            ~Moved(r, "post_bill", [doc |-> BillDoc(0), amount |-> amount])
      BY <1>2 DEF Moved
    <3>3. \A input \in InvoiceInputs :
            ~Moved(r, "post_invoice", [doc |-> InvoiceDoc(0), input |-> input,
                                       number |-> NextNumber(input.year)])
      BY <1>2 DEF Moved
    <3>4. \A n \in DOMAIN txns, account \in Categories :
            ~Moved(r, "post_txn", [doc |-> TxnDoc(n), read |-> txns[n], account |-> account])
      BY <1>2 DEF Moved
    <3>5. QED
      BY <2>1, <3>1, <3>2, <3>3, <3>4, Zenon DEF BeginsDoes
  <2>4. \E b \in DOMAIN bills :
          ~bills[b].paid /\ task'[r] = [doc |-> BillDoc(b), amount |-> bills[b].amount]
    BY <2>3 DEF Moved
  <2>5. \E b \in DOMAIN bills : ~bills[b].paid /\ task'[r].doc = BillDoc(b)
    BY <2>4
  <2>6. \A b, c : BillDoc(b) = BillDoc(c) => b = c
    BY DEF BillDoc
  <2>7. QED
    BY <1>0, <2>2, <2>5, <2>6 DEF FoundOpen, BillDoc
<1>3. QED
  BY <1>1, <1>2

LEMMA PayingEnds ==
  ASSUME NEW r \in Requests, CallAlone(r), pc[r] = "mark_paid"
  PROVE  \/ pc'[r] = "done"
         \/ pc'[r] = "crashed" /\ task'[r].doc = task[r].doc
BY DEF CallAlone, CallDoes, StopsDoes, MarkPaidDoes, Moved

LEMMA PaidOnceNextCall ==
  ASSUME LinksInv, PaidOnceInv, NEW r \in Requests, CallAlone(r)
  PROVE  PaidOnceInv'
<1>s. Shapes /\ CallDoes(r)
  BY DEF LinksInv, CallAlone
<1>1. IsFiniteSet(Crashed')
  BY StoppedAfter DEF PaidOnceInv
<1>2. FoundOpen'
  BY <1>s, FoundOpenNext
<1>3. ASSUME NEW c \in DOMAIN bills, pc[r] = "post_payment", PostPaymentDoes(r, c),
             NEW b \in DOMAIN bills'
      PROVE  Accounted(b)'
  <2>0. bills' = bills
    BY <1>3 DEF PostPaymentDoes
  <2>1. CASE b = c
    BY <1>s, <1>3, <2>1, PaymentAccounted
  <2>2. CASE b # c
    <3>1. Payments(b)' = EntriesThen(BillDoc(b), "pay")
      BY DEF Payments, EntriesOf, EntriesThen, BillDoc
    <3>2. BillDoc(b) # BillDoc(c)
      BY <2>2 DEF BillDoc
    <3>3. EntriesThen(BillDoc(b), "pay") = EntriesOf(BillDoc(b), "pay")
      <4>1. PostedFor(BillDoc(c), "pay", PaymentLines(bills[c].amount))
        BY <1>3 DEF PostPaymentDoes
      <4>2. \A d, s : EntriesThen(d, s) = EntriesOf(d, s)
              \cup (IF d = BillDoc(c) /\ s = "pay" THEN {NewEntry} ELSE {})
        BY <4>1, EntriesAfter
      <4>3. QED
        BY <3>2, <4>2
    <3>4. ~Paying(BillDoc(b))
      BY <1>3, StopsOnly
    <3>5. Payments(b)' = Payments(b)
      BY <3>1, <3>3 DEF Payments
    <3>6. b \in DOMAIN bills /\ Accounted(b) /\ (bills'[b].paid \/ ~bills[b].paid)
      BY <2>0, <1>3 DEF PaidOnceInv
    <3>7. QED
      BY <1>s, <3>4, <3>5, <3>6, AccountedStays
  <2>3. QED
    BY <2>1, <2>2
<1>4. ASSUME pc'[r] # "mark_paid", NEW b \in DOMAIN bills'
      PROVE  Accounted(b)'
  <2>1. Payments(b)' = Payments(b)
    BY <1>s, <1>4, PaymentsAfter DEF Payments
  <2>2. CASE b \in DOMAIN bills
    <3>1. Accounted(b)
      BY <2>2 DEF PaidOnceInv
    <3>2. \/ bills'[b].paid = bills[b].paid /\ ~Linking(r, "mark_paid", BillDoc(b))
          \/ bills'[b].paid
      BY <1>s, <2>2, PaidAfter
    <3>3. Paying(BillDoc(b)) => pc[r] = "mark_paid" /\ task[r].doc = BillDoc(b)
      BY StopsOnly
    <3>4. pc[r] = "mark_paid" =>
            pc'[r] = "done" \/ (pc'[r] = "crashed" /\ task'[r].doc = task[r].doc)
      BY PayingEnds
    <3>5. \/ bills'[b].paid
          \/ pc'[r] = "crashed" /\ task'[r].doc = BillDoc(b)
          \/ ~bills[b].paid /\ ~Paying(BillDoc(b))
      BY <3>2, <3>3, <3>4 DEF Linking
    <3>6. QED
      BY <1>s, <2>1, <2>2, <3>1, <3>5, AccountedStays
  <2>3. CASE b \notin DOMAIN bills
    <3>1. ~Recorded(BillDoc(b))
      BY <2>3 DEF Recorded, BillDoc, InvoiceDoc, TxnDoc
    <3>2. Payments(b) = {}
      BY <3>1, NoEntriesYet DEF LinksInv, Payments
    <3>3. Cardinality(Payments(b)') = 0
      BY <2>1, <3>2, FS_EmptySet
    <3>4. Cardinality(StoppedThen(BillDoc(b))) \in Nat
      BY StoppedAfter DEF PaidOnceInv
    <3>5. StoppedFor(BillDoc(b))' = StoppedThen(BillDoc(b))
      BY DEF StoppedFor, StoppedThen, BillDoc
    <3>6. /\ Cardinality(Payments(b)') <= Cardinality(StoppedFor(BillDoc(b))') + 1
          /\ Cardinality(Payments(b)') <= Cardinality(StoppedFor(BillDoc(b))')
      BY <3>3, <3>4, <3>5
    <3>7. QED
      BY <3>6 DEF Accounted
  <2>4. QED
    BY <2>2, <2>3
<1>5. \/ pc'[r] # "mark_paid"
      \/ \E c \in DOMAIN bills : pc[r] = "post_payment" /\ PostPaymentDoes(r, c)
  BY <1>s DEF CallDoes, BeginsDoes, StopsDoes, CreateVendorDoes, PostBillDoes, LinkBillDoes,
     MarkPaidDoes, PostInvoiceDoes, LinkInvoiceDoes, PostTxnDoes, ResolveDoes, Moved
<1>6. \A b \in DOMAIN bills' : Accounted(b)'
  BY <1>3, <1>4, <1>5
<1>7. QED
  BY <1>1, <1>2, <1>6 DEF PaidOnceInv

LEMMA PaidOnceNext ==
  ASSUME LinksInv, OneRuns, PaidOnceInv, [SerialNext]_vars
  PROVE  PaidOnceInv'
<1>1. Shapes
  BY DEF LinksInv
<1>2. ASSUME UNCHANGED <<books, bills, pc, task>>
      PROVE  PaidOnceInv'
  BY <1>2 DEF PaidOnceInv, FoundOpen, Accounted, Payments, EntriesOf, EntryIds, StoppedFor,
     Paying, Crashed, BillDoc
<1>3. CASE UNCHANGED vars
  BY <1>2, <1>3 DEF vars
<1>4. CASE SerialNext
  <2>1. CASE \E r \in Requests : CallAlone(r)
    BY <2>1, PaidOnceNextCall
  <2>2. CASE \E j \in Jobs : WorkerDoes(j)
    BY <1>2, <2>2 DEF WorkerDoes, docVars, billVars
  <2>3. QED
    BY <1>1, <1>4, <2>1, <2>2, SerialCases
<1>5. QED
  BY <1>3, <1>4

LEMMA PaidOnceInvAlways == SerialSpec => []PaidOnceInv
<1>1. Init => PaidOnceInv
  <2> SUFFICES ASSUME Init PROVE PaidOnceInv
    OBVIOUS
  <2>1. Crashed = {}
    BY DEF Init, DocumentsInit, Crashed
  <2>2. \A b : Payments(b) = {} /\ StoppedFor(BillDoc(b)) = {}
    BY <2>1 DEF Init, BillsInit, Payments, EntriesOf, EntryIds, StoppedFor
  <2>3. Cardinality({}) = 0
    BY FS_EmptySet
  <2>4. \A b : Cardinality(Payments(b)) = 0 /\ Cardinality(StoppedFor(BillDoc(b))) = 0
    BY <2>2, <2>3
  <2>5. FoundOpen
    BY DEF Init, DocumentsInit, FoundOpen
  <2>6. IsFiniteSet(Crashed)
    BY <2>1, FS_EmptySet
  <2>7. QED
    BY <2>4, <2>5, <2>6 DEF PaidOnceInv, Accounted
<1>2. QED
  BY <1>1, PaidOnceNext, LinksSerially, OneRunsAlways, PTL DEF SerialSpec

\* A bill has one payment, and one more for every call that stopped between
\* posting a payment for it and marking it (pay_bill, purchases/services.py:
\* 118-150), when calls do not overlap: a second payment takes a first one
\* that never came to say so.
THEOREM BillsArePaidOnce == SerialSpec => []PaidOnce
<1>1. Shapes /\ PaidOnceInv => PaidOnce
  <2> SUFFICES ASSUME Shapes, PaidOnceInv, NEW b \in DOMAIN bills
               PROVE  Cardinality(EntriesOf(BillDoc(b), "pay")) <=
                        1 + Cardinality({r \in Crashed : task[r].doc = BillDoc(b)})
    BY DEF PaidOnce
  <2>1. Cardinality(Payments(b)) \in Nat
    BY PaymentsFinite
  <2>2. Cardinality(StoppedFor(BillDoc(b))) \in Nat
    BY StoppedFinite DEF PaidOnceInv
  <2>3. Cardinality(Payments(b)) <= Cardinality(StoppedFor(BillDoc(b))) + 1
    BY DEF PaidOnceInv, Accounted
  <2>4. QED
    BY <2>1, <2>2, <2>3 DEF Payments, StoppedFor
<1>2. QED
  BY <1>1, PaidOnceInvAlways, ShapesSerially, PTL

-----------------------------------------------------------------------------
(* Accounts payable *)

\* A person may approve a transaction to any account; not to this one.
PayableNotChosen == "payable" \notin Categories

\* What the open bills come to; the ledger says so, but for a bill whose
\* payment is posted and which is about to be marked.
Owed == SumFunction([b \in DOMAIN bills |-> OpenAmount(bills[b])])
Settled == Balance("payable") = -Owed
HalfPaid(b) == Balance("payable") = -Owed + bills[b].amount /\ ~bills[b].paid
OwedInv == Crashed = {} =>
  /\ (\A r \in Requests : pc[r] # "mark_paid") => Settled
  /\ \A r \in Requests : pc[r] = "mark_paid" =>
       \A b \in DOMAIN bills : task[r].doc = BillDoc(b) => HalfPaid(b)

LEMMA StoredPair ==
  ASSUME NEW a, NEW d, NEW c, NEW b, NEW e, NEW f
  PROVE  Stored(<<On(a, d, c), On(b, e, f)>>)
         = <<On(a, Numeric2(d), Numeric2(c)), On(b, Numeric2(e), Numeric2(f))>>
<1> DEFINE u == On(a, d, c)
           v == On(b, e, f)
           x == On(a, Numeric2(d), Numeric2(c))
           y == On(b, Numeric2(e), Numeric2(f))
<1>1. /\ x = [account |-> u.account, debit |-> Numeric2(u.debit), credit |-> Numeric2(u.credit)]
      /\ y = [account |-> v.account, debit |-> Numeric2(v.debit), credit |-> Numeric2(v.credit)]
  BY DEF On
<1>. HIDE DEF u, v, x, y
<1>2. DOMAIN <<u, v>> = 1..2 /\ <<u, v>>[1] = u /\ <<u, v>>[2] = v
  OBVIOUS
<1>3. <<x, y>> = [i \in 1..2 |-> <<x, y>>[i]] /\ <<x, y>>[1] = x /\ <<x, y>>[2] = y
  OBVIOUS
<1>4. \A i \in 1..2 : <<x, y>>[i] = [account |-> <<u, v>>[i].account,
                                     debit |-> Numeric2(<<u, v>>[i].debit),
                                     credit |-> Numeric2(<<u, v>>[i].credit)]
  BY <1>1, <1>2, <1>3
<1>5. Stored(<<u, v>>) = <<x, y>>
  BY <1>2, <1>3, <1>4 DEF Stored
<1>6. QED
  BY <1>5 DEF u, v, x, y

\* A bill owes its amount as the columns keep it; its payment takes it back.
LEMMA PayableOfBill ==
  ASSUME NEW amount \in Int
  PROVE  /\ AccountBalance("payable", Stored(BillLines(amount))) = -Numeric2(amount)
         /\ AccountBalance("payable", Stored(PaymentLines(amount))) = Numeric2(amount)
         /\ Numeric2(amount) \in Int
<1> DEFINE n == Numeric2(amount)
<1>1. n \in Int /\ -n \in Int /\ 0 \in Int
  BY StoredIsWhole
<1>0. Numeric2(0) = 0
  BY DEF Numeric2, RoundCents, Cent
<1>. HIDE DEF n
<1>2. AccountBalance("payable", Stored(BillLines(amount))) = -n
  <2> DEFINE x == On("expense", n, 0)
             y == On("payable", 0, n)
  <2>1. Stored(BillLines(amount)) = <<x, y>>
    BY <1>0, StoredPair DEF BillLines, n
  <2>2. Effect("payable", x) = 0 /\ Effect("payable", y) = -n
    BY <1>1 DEF Effect, On
  <2>. HIDE DEF x, y
  <2>3. AccountBalance("payable", <<x, y>>) = 0 + (-n)
    BY <1>1, <2>2, BalanceOfTwo
  <2>4. QED
    BY <1>1, <2>1, <2>3
<1>3. AccountBalance("payable", Stored(PaymentLines(amount))) = n
  <2> DEFINE x == On("payable", n, 0)
             y == On("bank", 0, n)
  <2>1. Stored(PaymentLines(amount)) = <<x, y>>
    BY <1>0, StoredPair DEF PaymentLines, n
  <2>2. Effect("payable", x) = n /\ Effect("payable", y) = 0
    BY <1>1 DEF Effect, On
  <2>. HIDE DEF x, y
  <2>3. AccountBalance("payable", <<x, y>>) = n + 0
    BY <1>1, <2>2, BalanceOfTwo
  <2>4. QED
    BY <1>1, <2>1, <2>3
<1>4. QED
  BY <1>1, <1>2, <1>3 DEF n

LEMMA PayableElsewhere ==
  /\ \A lines \in Seq(Item) : AccountBalance("payable", Stored(InvoiceLines(lines))) = 0
  /\ PayableNotChosen => \A amount \in Int, c \in Categories :
       AccountBalance("payable", Stored(TxnLines(amount, c))) = 0
<1>1. ASSUME NEW lines \in Seq(Item)
      PROVE  AccountBalance("payable", Stored(InvoiceLines(lines))) = 0
  <2> DEFINE x == On("receivable", Subtotal(lines) + TaxTotal(lines), 0)
             y == On("revenue", 0, Subtotal(lines))
             z == On("gst", 0, TaxTotal(lines))
  <2>1. x.account # "payable" /\ y.account # "payable" /\ z.account # "payable"
    BY DEF On
  <2>2. InvoiceLines(lines) = <<x, y>> \o (IF TaxTotal(lines) > 0 THEN <<z>> ELSE <<>>)
    BY DEF InvoiceLines
  <2>. HIDE DEF x, y, z
  <2>3. InvoiceLines(lines) = <<x, y, z>> \/ InvoiceLines(lines) = <<x, y>>
    <3>1. <<x, y>> \o <<z>> = <<x, y, z>>
      BY ThreeLines
    <3>2. <<x, y>> \o <<>> = <<x, y>>
      OBVIOUS
    <3>3. QED
      BY <2>2, <3>1, <3>2, Zenon
  <2>4. \A i \in DOMAIN InvoiceLines(lines) : InvoiceLines(lines)[i].account # "payable"
    BY <2>1, <2>3
  <2>5. InvoiceLines(lines) \in Seq(Line(Chart))
    BY InvoiceLinesType
  <2>6. QED
    BY <2>4, <2>5, BalanceElsewhere
<1>2. ASSUME PayableNotChosen, NEW amount \in Int, NEW c \in Categories
      PROVE  AccountBalance("payable", Stored(TxnLines(amount, c))) = 0
  <2>1. c # "payable"
    BY <1>2 DEF PayableNotChosen
  <2>2. \A i \in DOMAIN TxnLines(amount, c) : TxnLines(amount, c)[i].account # "payable"
    BY <2>1 DEF TxnLines, On
  <2>3. TxnLines(amount, c) \in Seq(Line(Chart))
    BY TxnLinesType
  <2>4. QED
    BY <2>2, <2>3, BalanceElsewhere
<1>3. QED
  BY <1>1, <1>2

LEMMA OpenAmountType ==
  ASSUME NEW rs \in Seq(BillRow), NEW b \in DOMAIN rs
  PROVE  OpenAmount(rs[b]) \in Int
<1>1. rs[b] \in BillRow
  BY ElementOf
<1>2. QED
  BY <1>1 DEF BillRow, OpenAmount

\* What is owed, after a bill that is new, linked or marked.
LEMMA OwedAfterPosting ==
  ASSUME Shapes, NEW r \in Requests, task[r].amount \in Int, PostBillDoes(r)
  PROVE  Owed' = Owed + Numeric2(task[r].amount) /\ Owed \in Int
<1> DEFINE n == Len(bills)
           f == [b \in 1..n |-> OpenAmount(bills[b])]
           g == [b \in 1..(n + 1) |-> OpenAmount(bills'[b])]
<1>1. bills \in Seq(BillRow) /\ bills' \in Seq(BillRow)
  BY DEF Shapes, TypeOK, PostBillDoes
<1>2. n \in Nat /\ DOMAIN bills = 1..n /\ DOMAIN bills' = 1..(n + 1)
  BY <1>1 DEF PostBillDoes
<1>3. f \in [1..n -> Int]
  BY <1>1, <1>2, OpenAmountType
<1>4. g \in [1..(n + 1) -> Int]
  BY <1>1, <1>2, OpenAmountType
<1>5. \A b \in 1..n : g[b] = f[b]
  <2>1. \A b \in 1..n : b \in 1..(n + 1) /\ bills'[b] = bills[b]
    BY <1>2 DEF PostBillDoes
  <2>2. QED
    BY <2>1
<1>6. g[n + 1] = Numeric2(task[r].amount)
  BY <1>2 DEF PostBillDoes, OpenAmount
<1>7. Owed = SumFunction(f) /\ Owed' = SumFunction(g)
  BY <1>2 DEF Owed, OpenAmount
<1>. HIDE DEF f, g, n
<1>8. SumFunction(g) = SumFunction(f) + g[n + 1] /\ SumFunction(f) \in Int
  BY <1>2, <1>3, <1>4, <1>5, SumAppended
<1>9. QED
  BY <1>6, <1>7, <1>8

LEMMA OwedAfterLinking ==
  ASSUME Shapes, NEW r \in Requests, NEW b \in DOMAIN bills, LinkBillDoes(r, b)
  PROVE  Owed' = Owed
<1>1. bills[b] \in BillRow
  BY ElementOf DEF Shapes, TypeOK
<1>2. bills'[b].paid = bills[b].paid /\ bills'[b].amount = bills[b].amount
  BY <1>1 DEF LinkBillDoes, BillBecomes, BillRow
<1>3. DOMAIN bills' = DOMAIN bills
      /\ \A k \in DOMAIN bills : OpenAmount(bills'[k]) = OpenAmount(bills[k])
  BY <1>2 DEF LinkBillDoes, BillBecomes, OpenAmount
<1>4. [k \in DOMAIN bills' |-> OpenAmount(bills'[k])] = [k \in DOMAIN bills |-> OpenAmount(bills[k])]
  BY <1>3
<1>5. Owed' = SumFunction([k \in DOMAIN bills' |-> OpenAmount(bills'[k])])
  BY DEF Owed, OpenAmount
<1>6. QED
  BY <1>4, <1>5, Zenon DEF Owed

LEMMA OwedAfterMarking ==
  ASSUME Shapes, NEW r \in Requests, NEW b \in DOMAIN bills, MarkPaidDoes(r, b), ~bills[b].paid
  PROVE  Owed = Owed' + bills[b].amount /\ Owed' \in Int /\ bills[b].amount \in Int
<1> DEFINE D == DOMAIN bills
           f == [k \in D |-> OpenAmount(bills[k])]
           g == [k \in D |-> OpenAmount(bills'[k])]
<1>1. bills \in Seq(BillRow) /\ bills' \in Seq(BillRow) /\ DOMAIN bills' = D
  BY DEF Shapes, TypeOK, MarkPaidDoes, BillBecomes
<1>2. bills[b] \in BillRow
  BY <1>1, ElementOf
<1>3. IsFiniteSet(D)
  <2>1. D = 1..Len(bills) /\ Len(bills) \in Nat
    BY <1>1
  <2>2. QED
    BY <2>1, FS_Interval
<1>4. f \in [D -> Int]
  BY <1>1, OpenAmountType
<1>5. g \in [D -> Int]
  BY <1>1, OpenAmountType
<1>6. \A k \in D \ {b} : f[k] = g[k]
  BY DEF MarkPaidDoes, BillBecomes
<1>7. f[b] = bills[b].amount /\ g[b] = 0 /\ bills[b].amount \in Int
  BY <1>2 DEF MarkPaidDoes, BillBecomes, OpenAmount, BillRow
<1>8. Owed = SumFunction(f) /\ Owed' = SumFunction(g)
  BY <1>1 DEF Owed, OpenAmount
<1>9. b \in D
  OBVIOUS
<1>. HIDE DEF D, f, g
<1>10. SumFunction(f) = SumFunction(g) + f[b] - g[b]
  BY <1>3, <1>4, <1>5, <1>6, <1>9, SumChange
<1>11. SumFunction(g) \in Int
  BY <1>3, <1>5, SumType
<1>12. QED
  BY <1>7, <1>8, <1>10, <1>11

\* An entry that leaves accounts payable alone, for rows that owe the same.
LEMMA SettledElsewhere ==
  ASSUME Shapes, Settled, Owed' = Owed,
         NEW doc, NEW step, NEW lines \in Seq(Line(Chart)), PostedFor(doc, step, lines),
         AccountBalance("payable", Stored(lines)) = 0
  PROVE  Settled'
<1>1. Balance("payable")' = Balance("payable") + 0 /\ Balance("payable") \in Int
  BY BalanceAfter
<1>2. QED
  BY <1>1 DEF Settled

LEMMA SettledSame ==
  ASSUME Settled, UNCHANGED books, Owed' = Owed
  PROVE  Settled'
<1>1. Balance("payable")' = Balance("payable")
  BY BalanceSame
<1>2. QED
  BY <1>1 DEF Settled

LEMMA OwedSame ==
  ASSUME UNCHANGED bills
  PROVE  Owed' = Owed
BY DEF Owed, OpenAmount

LEMMA BillAmountType ==
  ASSUME Shapes, NEW b \in DOMAIN bills
  PROVE  bills[b].amount \in Int /\ Numeric2(bills[b].amount) = bills[b].amount
<1>1. bills[b] \in BillRow
  BY ElementOf DEF Shapes, TypeOK
<1>2. QED
  BY <1>1 DEF BillRow, Shapes, BillsWhole

\* The steps that neither pay nor mark.
LEMMA SettledNext ==
  ASSUME Shapes, Settled, PayableNotChosen, NEW r \in Requests, CallDoes(r),
         pc[r] # "mark_paid", pc'[r] # "mark_paid"
  PROVE  Settled'
<1>1. CASE UNCHANGED <<books, bills>>
  BY <1>1, OwedSame, SettledSame
<1>2. CASE task[r].amount \in Int /\ PostBillDoes(r)
  <2> DEFINE amount == task[r].amount
  <2>1. Owed' = Owed + Numeric2(amount) /\ Owed \in Int
    BY <1>2, OwedAfterPosting
  <2>2. BillLines(amount) \in Seq(Line(Chart))
    BY <1>2, BillLinesType
  <2>3. PostedFor(BillDoc(Len(bills) + 1), "create", BillLines(amount))
    BY <1>2 DEF PostBillDoes
  <2>4. AccountBalance("payable", Stored(BillLines(amount))) = -Numeric2(amount)
        /\ Numeric2(amount) \in Int
    BY <1>2, PayableOfBill
  <2>. HIDE DEF amount
  <2>5. Balance("payable")' = Balance("payable") + (-Numeric2(amount)) /\ Balance("payable") \in Int
    BY <2>2, <2>3, <2>4, BalanceAfter
  <2>6. QED
    BY <2>1, <2>4, <2>5 DEF Settled
<1>3. ASSUME NEW b \in DOMAIN bills, LinkBillDoes(r, b) PROVE Settled'
  <2>1. UNCHANGED books
    BY <1>3 DEF LinkBillDoes
  <2>2. Owed' = Owed
    BY <1>3, OwedAfterLinking
  <2>3. QED
    BY <2>1, <2>2, SettledSame
<1>4. CASE PostInvoiceDoes(r)
  <2> DEFINE lines == task[r].input.lines
  <2>1. lines \in Seq(Item)
    BY <1>4, InvoicesAssumption DEF PostInvoiceDoes, Item
  <2>2. /\ PostedFor(InvoiceDoc(Len(invoices) + 1), "create", InvoiceLines(lines))
        /\ UNCHANGED bills
    BY <1>4 DEF PostInvoiceDoes
  <2>. HIDE DEF lines
  <2>3. InvoiceLines(lines) \in Seq(Line(Chart))
    BY <2>1, InvoiceLinesType
  <2>4. AccountBalance("payable", Stored(InvoiceLines(lines))) = 0
    BY <2>1, PayableElsewhere
  <2>5. QED
    BY <2>2, <2>3, <2>4, OwedSame, SettledElsewhere
<1>5. ASSUME NEW n \in DOMAIN txns, PostTxnDoes(r, n) PROVE Settled'
  <2>1. task[r].read.amount \in Int /\ task[r].account \in Categories
    BY <1>5 DEF PostTxnDoes, TxnRow
  <2>2. TxnLines(task[r].read.amount, task[r].account) \in Seq(Line(Chart))
    BY <2>1, TxnLinesType
  <2>3. AccountBalance("payable", Stored(TxnLines(task[r].read.amount, task[r].account))) = 0
    BY <2>1, PayableElsewhere
  <2>4. /\ PostedFor(TxnDoc(n), "approve", TxnLines(task[r].read.amount, task[r].account))
        /\ UNCHANGED bills
    BY <1>5 DEF PostTxnDoes, billVars
  <2>5. QED
    BY <2>2, <2>3, <2>4, OwedSame, SettledElsewhere
<1>6. ~\E b \in DOMAIN bills : PostPaymentDoes(r, b)
  BY DEF PostPaymentDoes, Moved
<1>7. \/ UNCHANGED <<books, bills>> \/ PostInvoiceDoes(r)
      \/ task[r].amount \in Int /\ PostBillDoes(r)
      \/ \E b \in DOMAIN bills : LinkBillDoes(r, b)
      \/ \E n \in DOMAIN txns : PostTxnDoes(r, n)
  BY <1>6 DEF CallDoes, BeginsDoes, CreateVendorDoes, StopsDoes, rows, billVars,
     LinkInvoiceDoes, ResolveDoes
<1>8. QED
  BY <1>1, <1>2, <1>3, <1>4, <1>5, <1>7

LEMMA OwedNextCall ==
  ASSUME Shapes, FoundOpen, OwedInv, PayableNotChosen, NEW r \in Requests, CallAlone(r)
  PROVE  OwedInv'
<1> SUFFICES ASSUME Crashed' = {}
             PROVE  /\ (\A q \in Requests : pc'[q] # "mark_paid") => Settled'
                    /\ \A q \in Requests : pc'[q] = "mark_paid" =>
                         \A b \in DOMAIN bills' : task'[q].doc = BillDoc(b) => HalfPaid(b)'
  BY DEF OwedInv, BillDoc
<1>0. CallDoes(r) /\ Crashed = {}
  BY StopsOnly DEF CallAlone
<1>1. /\ \A q \in Requests \ {r} : pc[q] # "mark_paid" /\ pc'[q] # "mark_paid"
      /\ pc'[r] # "crashed"
  BY OthersStill DEF Ended, Crashed
<1>2. CASE pc[r] # "mark_paid" /\ pc'[r] # "mark_paid"
  <2>1. Settled
    BY <1>0, <1>1, <1>2 DEF OwedInv
  <2>2. Settled'
    BY <1>0, <1>2, <2>1, SettledNext
  <2>3. QED
    BY <1>1, <1>2, <2>2
<1>3. ASSUME pc[r] = "post_payment", NEW c \in DOMAIN bills, PostPaymentDoes(r, c)
      PROVE  HalfPaid(c)' /\ task'[r].doc = BillDoc(c) /\ pc'[r] = "mark_paid"
  <2>1. Settled
    BY <1>0, <1>1, <1>3 DEF OwedInv
  <2>2. bills' = bills /\ task'[r].doc = BillDoc(c) /\ task[r].doc = BillDoc(c)
        /\ pc'[r] = "mark_paid"
    BY <1>3 DEF PostPaymentDoes, Moved
  <2>3. ~bills[c].paid
    BY <1>3, <2>2 DEF FoundOpen
  <2> DEFINE amount == bills[c].amount
  <2>4. amount \in Int /\ Numeric2(amount) = amount
    BY <1>3, BillAmountType
  <2>5. PostedFor(BillDoc(c), "pay", PaymentLines(amount))
    BY <1>3 DEF PostPaymentDoes
  <2>. HIDE DEF amount
  <2>6. PaymentLines(amount) \in Seq(Line(Chart))
    BY <2>4, BillLinesType
  <2>7. AccountBalance("payable", Stored(PaymentLines(amount))) = amount
    BY <2>4, PayableOfBill
  <2>8. Balance("payable")' = Balance("payable") + amount
    BY <2>5, <2>6, <2>7, BalanceAfter
  <2>9. Owed' = Owed
    BY <2>2, OwedSame
  <2>10. Balance("payable")' = -(Owed') + bills'[c].amount
    BY <2>1, <2>2, <2>8, <2>9 DEF Settled, amount
  <2>11. QED
    BY <2>2, <2>3, <2>10 DEF HalfPaid
<1>4. ASSUME pc[r] = "mark_paid", NEW c \in DOMAIN bills, MarkPaidDoes(r, c)
      PROVE  Settled' /\ pc'[r] # "mark_paid"
  <2>1. pc'[r] # "mark_paid" /\ task[r].doc = BillDoc(c) /\ UNCHANGED books
    BY <1>4 DEF MarkPaidDoes, Moved
  <2>2. Balance("payable") = -Owed + bills[c].amount /\ ~bills[c].paid
    BY <1>0, <1>4, <2>1 DEF OwedInv, HalfPaid
  <2>3. Owed = Owed' + bills[c].amount /\ Owed' \in Int /\ bills[c].amount \in Int
    BY <1>4, <2>2, OwedAfterMarking
  <2>4. Balance("payable")' = Balance("payable")
    BY <2>1, BalanceSame
  <2>5. QED
    BY <2>1, <2>2, <2>3, <2>4 DEF Settled
<1>5. \/ pc[r] # "mark_paid" /\ pc'[r] # "mark_paid"
      \/ pc[r] = "post_payment" /\ \E c \in DOMAIN bills : PostPaymentDoes(r, c)
      \/ pc[r] = "mark_paid" /\ \E c \in DOMAIN bills : MarkPaidDoes(r, c)
  BY <1>0, <1>1 DEF CallDoes, BeginsDoes, StopsDoes, CreateVendorDoes, PostBillDoes,
     LinkBillDoes, PostInvoiceDoes, LinkInvoiceDoes, PostTxnDoes, ResolveDoes, Moved
<1>6. \A b, c : BillDoc(b) = BillDoc(c) => b = c
  BY DEF BillDoc
<1>7. QED
  BY <1>1, <1>2, <1>3, <1>4, <1>5, <1>6

LEMMA OwedNext ==
  ASSUME Shapes, OneRuns, PaidOnceInv, OwedInv, PayableNotChosen, [SerialNext]_vars
  PROVE  OwedInv'
<1>1. ASSUME UNCHANGED <<books, bills, pc, task>>
      PROVE  OwedInv'
  <2>1. Balance("payable")' = Balance("payable")
    BY <1>1, BalanceSame
  <2>2. Owed' = Owed
    BY <1>1, OwedSame
  <2>3. QED
    BY <1>1, <2>1, <2>2 DEF OwedInv, Settled, HalfPaid, Crashed, BillDoc
<1>2. CASE UNCHANGED vars
  BY <1>1, <1>2 DEF vars
<1>3. CASE SerialNext
  <2>1. CASE \E r \in Requests : CallAlone(r)
    BY <2>1, OwedNextCall DEF PaidOnceInv
  <2>2. CASE \E j \in Jobs : WorkerDoes(j)
    BY <1>1, <2>2 DEF WorkerDoes, docVars, billVars
  <2>3. QED
    BY <1>3, <2>1, <2>2, SerialCases
<1>4. QED
  BY <1>2, <1>3

LEMMA OwedInit ==
  ASSUME Init
  PROVE  OwedInv
<1> DEFINE D == DOMAIN OpenBills
           n == [b \in D |-> Numeric2(OpenBills[b])]
           z == [b \in D |-> 0]
<1>1. IsFiniteSet(D)
  <2>1. D = 1..Len(OpenBills) /\ Len(OpenBills) \in Nat
    BY BillsAssumption
  <2>2. QED
    BY <2>1, FS_Interval
<1>2. EntryIds = D /\ \A b \in D : books[b].lines = Stored(BillLines(OpenBills[b]))
  BY DEF Init, BillsInit, EntryIds
<1>3. \A b \in D : OpenBills[b] \in Int
  BY BillsAssumption
<1>4. \A b \in D : /\ AccountBalance("payable", books[b].lines) = -Numeric2(OpenBills[b])
                   /\ Numeric2(OpenBills[b]) \in Int
  BY <1>2, <1>3, PayableOfBill
<1>5. n \in [D -> Int] /\ z \in [D -> Int]
  BY <1>4
<1>6. \A b \in D : AccountBalance("payable", books[b].lines) = z[b] - n[b]
  BY <1>4
<1>7. [i \in EntryIds |-> AccountBalance("payable", books[i].lines)] = [b \in D |-> z[b] - n[b]]
  BY <1>2, <1>6
<1>8. Owed = SumFunction(n)
  <2>1. DOMAIN bills = D /\ \A b \in D : OpenAmount(bills[b]) = Numeric2(OpenBills[b])
    BY DEF Init, BillsInit, OpenAmount
  <2>2. [b \in DOMAIN bills |-> OpenAmount(bills[b])] = n
    BY <2>1
  <2>3. QED
    BY <2>2, Zenon DEF Owed
<1>9. SumFunction(z) = 0
  <2>. HIDE DEF D
  <2>1. QED
    BY <1>1, SumZeros
<1>10. Balance("payable") = SumFunction([b \in D |-> z[b] - n[b]])
  BY <1>7, Zenon DEF Balance
<1>. HIDE DEF D, n, z
<1>11. SumFunction([b \in D |-> z[b] - n[b]]) = SumFunction(z) - SumFunction(n)
  BY <1>1, <1>5, SumMinus
<1>12. SumFunction(n) \in Int
  BY <1>1, <1>5, SumType
<1>13. Settled
  BY <1>8, <1>9, <1>10, <1>11, <1>12 DEF Settled
<1>14. \A r \in Requests : pc[r] # "mark_paid"
  BY DEF Init, DocumentsInit
<1>15. QED
  BY <1>13, <1>14 DEF OwedInv

\* Between calls accounts payable is what the open bills come to (create_bill
\* and pay_bill, purchases/services.py:30-151), when calls do not overlap and
\* none has stopped between its commits: every bill adds its amount as the
\* columns keep it, and its one payment takes exactly that back.  A person who
\* approves a transaction to accounts payable would break it.
THEOREM PayableIsWhatIsOpen ==
  ASSUME PayableNotChosen
  PROVE  SerialSpec => []PayableIsOpenBills
<1>1. Init => OwedInv
  BY OwedInit
<1>2. Shapes /\ OneRuns /\ PaidOnceInv /\ OwedInv /\ [SerialNext]_vars => OwedInv'
  BY OwedNext
<1>3. OwedInv => PayableIsOpenBills
  <2> SUFFICES ASSUME OwedInv, Quiet, Crashed = {}
               PROVE  Balance("payable") = -Total(OpenAmount, bills)
    BY DEF PayableIsOpenBills
  <2>1. \A r \in Requests : pc[r] # "mark_paid"
    BY DEF Quiet, Running, Ended
  <2>2. Settled
    BY <2>1 DEF OwedInv
  <2>3. QED
    BY <2>2 DEF Settled, Owed, Total
<1>4. QED
  BY <1>1, <1>2, <1>3, ShapesSerially, OneRunsAlways, PaidOnceInvAlways, PTL DEF SerialSpec
=============================================================================
