-------------------------- MODULE WorkspaceProperties --------------------------
(***************************************************************************)
(* What the documents of a workspace and its ledger say of each other,     *)
(* with calls that overlap, stop half-way and are refused; and what they   *)
(* say only when one call ends before the next begins.                     *)
(***************************************************************************)
EXTENDS Workspace

EntryIds == DOMAIN books
EntriesOf(doc, step) == {i \in EntryIds : books[i].doc = doc /\ books[i].step = step}

\* A call that has posted for the document and not committed what follows.
Unfinished(doc) ==
  \E r \in Requests : /\ task[r].doc = doc
                      /\ pc[r] \in {"link_bill", "link_invoice", "mark_paid",
                                    "find_rule", "known", "learn", "resolve", "crashed"}

Chart == {"bank", "expense", "payable", "receivable", "revenue", "gst"} \cup Categories

EntryRow   == [doc : {"bill", "invoice", "txn"} \X Nat, step : {"create", "pay", "approve"},
               lines : Seq(Line(Chart))]
BillRow    == [amount : Int, paid : BOOLEAN, entry : Nat]
Item       == [quantity : Int, price : Int, rate : Int]
InvoiceRow == [year : Int, number : Nat, lines : Seq(Item), entry : Nat]
TxnRow     == [job : Jobs, desc : STRING, amount : Int, entry : Nat,
               suggested : Categories \cup {NoAccount}, status : {"auto", "needs_review"}]
RuleRow    == [pattern : STRING, account : Categories]
JobRow     == [state : {"absent", "queued", "running", "committed", "failed", "finished"},
               rules : Seq(RuleRow), tries : 0..MaxTries]

Labels == {"idle", "post_bill", "link_bill", "post_payment", "mark_paid",
           "post_invoice", "link_invoice",
           "post_txn", "find_rule", "known", "learn", "resolve"} \cup Ended

\* The rows and the entries have the shape the handlers give them.
TypeOK ==
  /\ books \in Seq(EntryRow)
  /\ audit \subseteq ({"vendor", "bill", "invoice"} \X Nat) \X {"create", "pay"}
  /\ vendors \in Nat
  /\ bills \in Seq(BillRow)
  /\ invoices \in Seq(InvoiceRow)
  /\ txns \in Seq(TxnRow)
  /\ rules \in Seq(RuleRow)
  /\ job \in [Jobs -> JobRow]
  /\ pc \in [Requests -> Labels]

-----------------------------------------------------------------------------
(* Calls that overlap *)

\* The ledger's balance of a control account, and what the documents say it is.
Balance(account) ==
  SumFunction([i \in EntryIds |-> AccountBalance(account, books[i].lines)])
Total(row(_), rows) == SumFunction([n \in DOMAIN rows |-> row(rows[n])])

\* The control accounts agree with the invoices at every moment: what customers
\* owe is what the lines sent for their invoices come to, tax included, GST
\* payable is the tax of them, and every line is on record
\* (sales/services.py:66-74).  What was sent and not what is stored: the entry
\* is computed before quantity and price are rounded to two places each, so
\* that 2.004 pieces at 10.00 are posted as 20.04 and kept as 2.00 at 10.00.
\* Only where the columns keep what was sent do the stored lines come to it too.
Charged(lines) == Subtotal(lines) + TaxTotal(lines)
Sent == {input.lines : input \in InvoiceInputs}
InvoicesTieOut ==
  \E sent \in [DOMAIN invoices -> Sent] :
    /\ \A n \in DOMAIN invoices : invoices[n].lines = Kept(sent[n])
    /\ Balance("receivable") = Total(Charged, sent)
    /\ Balance("gst") = -Total(TaxTotal, sent)

\* A document points at an entry that was posted for it and for no other, and
\* one that points nowhere, though its entry is on record, belongs to a call
\* that is still running or has stopped between its two commits.
LinksAreRight ==
  /\ \A b \in DOMAIN bills :
       \/ bills[b].entry \in EntriesOf(BillDoc(b), "create")
       \/ bills[b].entry = 0 /\ Unfinished(BillDoc(b))
  /\ \A n \in DOMAIN invoices :
       \/ invoices[n].entry \in EntriesOf(InvoiceDoc(n), "create")
       \/ invoices[n].entry = 0 /\ Unfinished(InvoiceDoc(n))
  /\ \A n \in DOMAIN txns :
       \/ txns[n].entry \in EntriesOf(TxnDoc(n), "approve")
       \/ /\ txns[n].entry = 0
          /\ EntriesOf(TxnDoc(n), "approve") # {} => Unfinished(TxnDoc(n))

\* is_paid means something in the books (purchases/services.py:118-122): a
\* bill that says it is paid has a payment of its amount, and a payment on
\* record whose bill says it is open is that of a call which has not finished.
PaidMeansPosted ==
  \A b \in DOMAIN bills :
    /\ bills[b].paid => \E i \in EntriesOf(BillDoc(b), "pay") :
         AccountBalance("payable", books[i].lines) = bills[b].amount
    /\ EntriesOf(BillDoc(b), "pay") # {} /\ ~bills[b].paid => Unfinished(BillDoc(b))

\* A statement is imported whole or not at all, at most once per delivery of
\* its job, and at least once if the queue takes the job for done: of every row
\* there are as many transactions as times it was imported, or that many times
\* the rows of the statement that look the same.  What transactions have become
\* since does not lose any.
Same(desc, amount, row) == desc = row.desc /\ amount = Numeric2(row.amount)
RowsOf(j, row) ==
  Cardinality({n \in DOMAIN txns : txns[n].job = j /\ Same(txns[n].desc, txns[n].amount, row)})
Alike(j, row) ==
  Cardinality({k \in DOMAIN Statement[j] :
                 Same(Statement[j][k].desc, Numeric2(Statement[j][k].amount), row)})
ImportedWhole ==
  \A j \in Jobs : \E times \in 0..job[j].tries :
    /\ \A k \in DOMAIN Statement[j] :
         RowsOf(j, Statement[j][k]) = times * Alike(j, Statement[j][k])
    /\ job[j].state \in {"committed", "finished"} => times > 0

\* A transaction that is not in the review queue has been approved and posted,
\* or the account it shows is that of a rule whose pattern it contains, which
\* is the only reason the import has to leave it out (ai/services.py:25-36,
\* 93-111, banking/router.py:47-59).  The rule is still on record; whether
\* explain_suggestion names it is another matter, since that looks for a
\* pattern equal to the whole description (ai/router.py:51-61).
OffQueueIsExplained ==
  \A n \in DOMAIN txns : ~UpForReview(txns[n]) =>
    \/ txns[n].entry \in EntriesOf(TxnDoc(n), "approve")
    \/ \E i \in DOMAIN rules : /\ rules[i].account = txns[n].suggested
                              /\ <<rules[i].pattern, txns[n].desc>> \in Matches

\* The handlers' audit events are committed with what they tell, and not
\* before or after it (core/audit.py:49-51): every vendor has one, a bill or
\* an invoice from when it points at its entry, a payment from when the bill
\* says it is paid, and no event tells of anything else.
AuditTellsDocuments ==
  audit =
    {<<<<"vendor", v>>, "create">> : v \in 1..vendors}
    \cup {<<BillDoc(b), "create">> : b \in {k \in DOMAIN bills : bills[k].entry # 0}}
    \cup {<<BillDoc(b), "pay">> : b \in {k \in DOMAIN bills : bills[k].paid}}
    \cup {<<InvoiceDoc(n), "create">> : n \in {k \in DOMAIN invoices : invoices[k].entry # 0}}

\* Waiting for a row that another approval has written ends, also when the
\* process that holds it stops: a call that has begun ends.
CallsEnd == \A r \in Requests : Running(r) ~> ~Running(r)

-----------------------------------------------------------------------------
(* Calls that do not overlap *)

Crashed == {r \in Requests : pc[r] = "crashed"}

\* INV-<year>-<sequence> (sales/services.py:39-43): the numbers of a year are
\* 1, 2, 3... in the order the invoices were committed.
NumbersAreSequential ==
  \A n \in DOMAIN invoices :
    invoices[n].number =
      Cardinality({m \in 1..n : invoices[m].year = invoices[n].year})

\* A bill that is paid is not paid again (purchases/services.py:128-129): a
\* second payment takes a call that stopped before it marked the bill.
PaidOnce ==
  \A b \in DOMAIN bills :
    Cardinality(EntriesOf(BillDoc(b), "pay")) <=
      1 + Cardinality({r \in Crashed : task[r].doc = BillDoc(b)})

\* Between calls accounts payable is what the open bills come to: a paid bill
\* nets to zero (purchases/services.py:8-9).  A call that has stopped between
\* its two commits leaves a payment on an open bill, and the sum off by it.
OpenAmount(bill) == IF bill.paid THEN 0 ELSE bill.amount
PayableIsOpenBills ==
  Quiet /\ Crashed = {} => Balance("payable") = -Total(OpenAmount, bills)

\* The learning loop adds no duplicate and no conflicting rule
\* (banking/router.py:82-88).
OneRulePerPattern ==
  \A i, k \in DOMAIN rules : rules[i].pattern = rules[k].pattern => i = k

\* The account a decided transaction shows is the account its entry posts to.
ShownAsPosted ==
  \A n \in DOMAIN txns : txns[n].entry # 0 =>
    AccountBalance(txns[n].suggested, books[txns[n].entry].lines) = -txns[n].amount
-----------------------------------------------------------------------------
\* Paying a bill twice is refused, whatever the timing
\* (purchases/test_pay_bill.py:168 expects it to be rejected).
NoDoublePayment ==
  Crashed = {} =>
    \A b \in DOMAIN bills : Cardinality(EntriesOf(BillDoc(b), "pay")) <= 1

\* Every suggestion requires explicit approval via the review queue before an
\* entry is created (SRS.md:63): a transaction without an entry is there.
PostedOrUpForReview ==
  \A n \in DOMAIN txns : txns[n].entry # 0 \/ UpForReview(txns[n])
=============================================================================
