---------------------------- MODULE WorkspaceProofs ----------------------------
(***************************************************************************)
(* Theorems about one client's documents and their entries, for any number *)
(* of calls, documents, statements and deliveries, with calls that overlap,*)
(* stop half-way and are refused.                                          *)
(***************************************************************************)
EXTENDS WorkspaceProperties, BooksProofs, SequenceTheorems, TLAPS

-----------------------------------------------------------------------------
(* The lines the handlers post *)

LEMMA OnType ==
  ASSUME NEW A, NEW a \in A, NEW d \in Int, NEW c \in Int
  PROVE  On(a, d, c) \in Line(A)
BY DEF On, Line

LEMMA PairType ==
  ASSUME NEW S, NEW a \in S, NEW b \in S
  PROVE  <<a, b>> \in Seq(S)
OBVIOUS

LEMMA BillLinesType ==
  ASSUME NEW amount \in Int
  PROVE  BillLines(amount) \in Seq(Line(Chart)) /\ PaymentLines(amount) \in Seq(Line(Chart))
<1>1. /\ On("expense", amount, 0) \in Line(Chart) /\ On("payable", 0, amount) \in Line(Chart)
      /\ On("payable", amount, 0) \in Line(Chart) /\ On("bank", 0, amount) \in Line(Chart)
  BY OnType DEF Chart
<1>2. QED
  BY <1>1, PairType DEF BillLines, PaymentLines

LEMMA TxnLinesType ==
  ASSUME NEW amount \in Int, NEW account \in Categories
  PROVE  TxnLines(amount, account) \in Seq(Line(Chart))
<1>0. "bank" \in Chart /\ account \in Chart /\ -amount \in Int /\ 0 \in Int
  BY DEF Chart
<1>1. /\ On("bank", amount, 0) \in Line(Chart) /\ On(account, 0, amount) \in Line(Chart)
      /\ On("bank", 0, -amount) \in Line(Chart) /\ On(account, -amount, 0) \in Line(Chart)
  BY <1>0, OnType
<1>2. QED
  BY <1>1, PairType DEF TxnLines

\* What an invoice's line comes to, and the sums over the lines.
LEMMA LineAmountsType ==
  ASSUME NEW line \in Item
  PROVE  LineAmount(line) \in Int /\ LineTax(line) \in Int
<1>1. line.quantity \in Int /\ line.price \in Int /\ line.rate \in Int
  BY DEF Item
<1>2. line.quantity * line.price \in Int
  BY <1>1
<1>3. LineAmount(line) \in Int
  BY <1>2 DEF LineAmount, Piece, Cent
<1>4. LineAmount(line) * line.rate \in Int
  BY <1>1, <1>3
<1>5. LineTax(line) \in Int
  BY <1>4 DEF LineTax, Cent
<1>6. QED
  BY <1>3, <1>5

LEMMA InvoiceSumsType ==
  ASSUME NEW lines \in Seq(Item)
  PROVE  Subtotal(lines) \in Int /\ TaxTotal(lines) \in Int
<1> DEFINE N == DOMAIN lines
           a == [k \in N |-> LineAmount(lines[k])]
           t == [k \in N |-> LineTax(lines[k])]
<1>1. IsFiniteSet(N)
  <2>1. N = 1..Len(lines) /\ Len(lines) \in Nat
    OBVIOUS
  <2>2. QED
    BY <2>1, FS_Interval
<1>2. \A k \in N : LineAmount(lines[k]) \in Int /\ LineTax(lines[k]) \in Int
  BY ElementOf, LineAmountsType
<1>3. a \in [N -> Int] /\ t \in [N -> Int]
  BY <1>2
<1>4. SumFunction(a) \in Int
  <2>. HIDE DEF a, N
  <2>1. QED
    BY <1>1, <1>3, SumType
<1>5. SumFunction(t) \in Int
  <2>. HIDE DEF t, N
  <2>1. QED
    BY <1>1, <1>3, SumType
<1>6. QED
  BY <1>4, <1>5 DEF Subtotal, TaxTotal, SumOfLines

LEMMA InvoiceLinesType ==
  ASSUME NEW lines \in Seq(Item)
  PROVE  InvoiceLines(lines) \in Seq(Line(Chart))
<1> DEFINE s == Subtotal(lines)
           t == TaxTotal(lines)
<1>1. s \in Int /\ t \in Int
  BY InvoiceSumsType
<1>. HIDE DEF s, t
<1>c. "receivable" \in Chart /\ "revenue" \in Chart /\ "gst" \in Chart
  BY DEF Chart
<1>i. s + t \in Int /\ 0 \in Int
  BY <1>1
<1>2. /\ On("receivable", s + t, 0) \in Line(Chart) /\ On("revenue", 0, s) \in Line(Chart)
      /\ On("gst", 0, t) \in Line(Chart)
  BY <1>1, <1>c, <1>i, OnType
<1>3. /\ <<On("receivable", s + t, 0), On("revenue", 0, s)>> \in Seq(Line(Chart))
      /\ <<On("gst", 0, t)>> \in Seq(Line(Chart)) /\ <<>> \in Seq(Line(Chart))
  BY <1>2
<1>4. QED
  BY <1>3 DEF InvoiceLines, s, t

-----------------------------------------------------------------------------
(* What a call holds at each point, and what no step takes away *)

\* What the handler of a call has established for the documents it names.
CallOK(r) ==
  /\ pc[r] = "post_bill" => task[r].amount \in Int
  /\ pc[r] = "link_bill" => \E b \in DOMAIN bills :
       /\ task[r].doc = BillDoc(b) /\ task[r].entry \in EntriesOf(BillDoc(b), "create")
  /\ pc[r] = "post_payment" => \E b \in DOMAIN bills :
       /\ task[r].doc = BillDoc(b) /\ task[r].amount = bills[b].amount
  /\ pc[r] = "mark_paid" => \E b \in DOMAIN bills :
       /\ task[r].doc = BillDoc(b)
       /\ \E i \in EntriesOf(BillDoc(b), "pay") :
            AccountBalance("payable", books[i].lines) = bills[b].amount
  /\ pc[r] = "post_invoice" => task[r].input \in InvoiceInputs /\ task[r].number \in Nat
  /\ pc[r] = "link_invoice" => \E n \in DOMAIN invoices :
       /\ task[r].doc = InvoiceDoc(n) /\ task[r].entry \in EntriesOf(InvoiceDoc(n), "create")
  /\ pc[r] = "post_txn" => \E n \in DOMAIN txns :
       /\ task[r].doc = TxnDoc(n)
       /\ task[r].read \in TxnRow /\ task[r].account \in Categories
  /\ pc[r] \in {"find_rule", "known", "learn", "resolve"} => \E n \in DOMAIN txns :
       /\ task[r].doc = TxnDoc(n) /\ task[r].entry \in EntriesOf(TxnDoc(n), "approve")
       /\ task[r].read \in TxnRow /\ task[r].account \in Categories

CallsOK == DOMAIN task = Requests /\ \A r \in Requests : CallOK(r)

\* A bill is stored in whole cents, the ones on record at the start too.
BillsWhole == \A b \in DOMAIN bills : Numeric2(bills[b].amount) = bills[b].amount

Shapes == TypeOK /\ BillsWhole /\ CallsOK

\* Entries are only added, and documents: what calls rely on is there to stay.
Grown ==
  /\ EntryIds \subseteq EntryIds' /\ \A i \in EntryIds : books'[i] = books[i]
  /\ DOMAIN bills \subseteq DOMAIN bills'
  /\ \A b \in DOMAIN bills : bills'[b].amount = bills[b].amount
  /\ DOMAIN invoices \subseteq DOMAIN invoices'
  /\ DOMAIN txns \subseteq DOMAIN txns'

LEMMA EntriesKept ==
  ASSUME Grown, NEW doc, NEW step
  PROVE  EntriesOf(doc, step) \subseteq EntriesOf(doc, step)'
BY DEF Grown, EntriesOf

LEMMA CallKept ==
  ASSUME Grown, NEW r \in Requests, CallOK(r), pc'[r] = pc[r], task'[r] = task[r]
  PROVE  CallOK(r)'
<1>1. \A doc, step : \A i \in EntriesOf(doc, step) : i \in EntriesOf(doc, step)' /\ books'[i] = books[i]
  BY EntriesKept DEF Grown, EntriesOf
<1>2. (pc[r] = "post_bill" => task[r].amount \in Int)'
  BY DEF CallOK
<1>3. (pc[r] = "link_bill" => \E b \in DOMAIN bills :
        /\ task[r].doc = BillDoc(b) /\ task[r].entry \in EntriesOf(BillDoc(b), "create"))'
  BY <1>1 DEF CallOK, Grown
<1>4. (pc[r] = "post_payment" => \E b \in DOMAIN bills :
        /\ task[r].doc = BillDoc(b) /\ task[r].amount = bills[b].amount)'
  BY DEF CallOK, Grown
<1>5. (pc[r] = "mark_paid" => \E b \in DOMAIN bills :
        /\ task[r].doc = BillDoc(b)
        /\ \E i \in EntriesOf(BillDoc(b), "pay") :
             AccountBalance("payable", books[i].lines) = bills[b].amount)'
  <2> SUFFICES ASSUME pc[r] = "mark_paid"
               PROVE  \E b \in DOMAIN bills' :
                        /\ task[r].doc = BillDoc(b)
                        /\ \E i \in EntriesOf(BillDoc(b), "pay")' :
                             AccountBalance("payable", books'[i].lines) = bills'[b].amount
    OBVIOUS
  <2>b. PICK b \in DOMAIN bills :
          /\ task[r].doc = BillDoc(b)
          /\ \E i \in EntriesOf(BillDoc(b), "pay") :
               AccountBalance("payable", books[i].lines) = bills[b].amount
    BY DEF CallOK
  <2>1. PICK i \in EntriesOf(BillDoc(b), "pay") :
          AccountBalance("payable", books[i].lines) = bills[b].amount
    BY <2>b
  <2>2. i \in EntriesOf(BillDoc(b), "pay")' /\ books'[i] = books[i]
    BY <1>1
  <2>3. b \in DOMAIN bills' /\ bills'[b].amount = bills[b].amount
    BY DEF Grown
  <2>4. QED
    BY <2>b, <2>1, <2>2, <2>3
<1>6. (pc[r] = "post_invoice" => task[r].input \in InvoiceInputs /\ task[r].number \in Nat)'
  BY DEF CallOK
<1>7. (pc[r] = "link_invoice" => \E n \in DOMAIN invoices :
        /\ task[r].doc = InvoiceDoc(n) /\ task[r].entry \in EntriesOf(InvoiceDoc(n), "create"))'
  BY <1>1 DEF CallOK, Grown
<1>8. (pc[r] = "post_txn" => \E n \in DOMAIN txns :
        /\ task[r].doc = TxnDoc(n)
        /\ task[r].read \in TxnRow /\ task[r].account \in Categories)'
  BY DEF CallOK, Grown
<1>9. (pc[r] \in {"find_rule", "known", "learn", "resolve"} => \E n \in DOMAIN txns :
        /\ task[r].doc = TxnDoc(n) /\ task[r].entry \in EntriesOf(TxnDoc(n), "approve")
        /\ task[r].read \in TxnRow /\ task[r].account \in Categories)'
  BY <1>1 DEF CallOK, Grown
<1>10. QED
  BY <1>2, <1>3, <1>4, <1>5, <1>6, <1>7, <1>8, <1>9 DEF CallOK

-----------------------------------------------------------------------------
(* The steps of a call *)

LEMMA AfterAppend ==
  ASSUME NEW S, NEW s \in Seq(S), NEW e \in S
  PROVE  /\ Append(s, e) \in Seq(S)
         /\ Len(s) + 1 \in Nat \ {0} /\ Len(s) + 1 \notin DOMAIN s
         /\ DOMAIN Append(s, e) = DOMAIN s \cup {Len(s) + 1}
         /\ Append(s, e)[Len(s) + 1] = e
         /\ \A i \in DOMAIN s : Append(s, e)[i] = s[i]
         /\ Len(Append(s, e)) = Len(s) + 1
OBVIOUS

LEMMA AfterUpdate ==
  ASSUME NEW S, NEW s \in Seq(S), NEW i \in DOMAIN s, NEW e \in S, NEW t, t = [s EXCEPT ![i] = e]
  PROVE  /\ t \in Seq(S) /\ DOMAIN t = DOMAIN s /\ Len(t) = Len(s)
         /\ t[i] = e /\ \A k \in DOMAIN s \ {i} : t[k] = s[k]
OBVIOUS

\* The call goes on to a label with what it holds; no other call moves.
Moved(r, label, t) ==
  /\ pc' \in [Requests -> Labels] /\ DOMAIN task' = Requests
  /\ pc'[r] = label /\ task'[r] = t
  /\ \A q \in Requests \ {r} : pc'[q] = pc[q] /\ task'[q] = task[q]

LEMMA GoesOn ==
  ASSUME Shapes, NEW r \in Requests, NEW label \in Labels, Goto(r, label)
  PROVE  /\ UNCHANGED task => Moved(r, label, task[r])
         /\ \A t : Hold(r, t) => Moved(r, label, t)
<1>1. pc' \in [Requests -> Labels] /\ pc'[r] = label /\ \A q \in Requests \ {r} : pc'[q] = pc[q]
  BY DEF Shapes, TypeOK, Goto
<1>2. DOMAIN task = Requests
  BY DEF Shapes, CallsOK
<1>3. UNCHANGED task => Moved(r, label, task[r])
  BY <1>1, <1>2 DEF Moved
<1>4. ASSUME NEW t, Hold(r, t) PROVE Moved(r, label, t)
  BY <1>1, <1>2, <1>4 DEF Moved, Hold
<1>5. QED
  BY <1>3, <1>4

\* What post_journal_entry has done when it returns.
Docs  == {"bill", "invoice", "txn"} \X Nat
Steps == {"create", "pay", "approve"}
PostedFor(doc, step, lines) ==
  /\ books' \in Seq(EntryRow)
  /\ NewEntry \in Nat \ {0} /\ NewEntry \notin EntryIds
  /\ EntryIds' = EntryIds \cup {NewEntry}
  /\ \A i \in EntryIds : books'[i] = books[i]
  /\ books'[NewEntry] = [doc |-> doc, step |-> step, lines |-> Stored(lines)]
  /\ Len(books') = Len(books) + 1

LEMMA PostAdds ==
  ASSUME Shapes, NEW doc \in Docs, NEW step \in Steps, NEW lines \in Seq(Line(Chart)),
         Post(doc, step, lines)
  PROVE  PostedFor(doc, step, lines)
<1> DEFINE e == [doc |-> doc, step |-> step, lines |-> Stored(lines)]
<1>1. e \in EntryRow
  BY LinesType DEF EntryRow, Docs, Steps
<1>2. books \in Seq(EntryRow) /\ books' = Append(books, e)
  BY DEF Shapes, TypeOK, Post
<1>. HIDE DEF e
<1>3. QED
  BY <1>1, <1>2, AfterAppend DEF PostedFor, NewEntry, EntryIds, e

\* EntriesOf after a step.
EntriesThen(doc, step) == {i \in EntryIds' : books'[i].doc = doc /\ books'[i].step = step}

\* It adds an entry of the document and no other.
LEMMA EntriesAfter ==
  ASSUME NEW doc, NEW step, NEW lines, PostedFor(doc, step, lines)
  PROVE  \A d, s : EntriesThen(d, s) = EntriesOf(d, s)
                     \cup (IF d = doc /\ s = step THEN {NewEntry} ELSE {})
BY DEF PostedFor, EntriesOf, EntriesThen, EntryIds

LEMMA DocsOf ==
  ASSUME NEW n \in Nat
  PROVE  BillDoc(n) \in Docs /\ InvoiceDoc(n) \in Docs /\ TxnDoc(n) \in Docs
BY DEF BillDoc, InvoiceDoc, TxnDoc, Docs

-----------------------------------------------------------------------------
(* What the handlers of bills do *)

PostBillDoes(r) ==
  LET b == Len(bills) + 1
  IN  /\ Moved(r, "link_bill", [doc |-> BillDoc(b), entry |-> NewEntry])
      /\ PostedFor(BillDoc(b), "create", BillLines(task[r].amount))
      /\ bills' \in Seq(BillRow) /\ b \in Nat \ {0} /\ b \notin DOMAIN bills
      /\ DOMAIN bills' = DOMAIN bills \cup {b}
      /\ \A k \in DOMAIN bills : bills'[k] = bills[k]
      /\ bills'[b] = [amount |-> Numeric2(task[r].amount), paid |-> FALSE, entry |-> 0]
      /\ UNCHANGED <<audit, vendors, invoices, bankVars>>

LEMMA PostBillEffect ==
  ASSUME Shapes, NEW r \in Requests, PostBill(r), UNCHANGED <<invoices, bankVars>>
  PROVE  PostBillDoes(r) /\ pc[r] = "post_bill" /\ task[r].amount \in Int
<1> DEFINE b == Len(bills) + 1
           row == [amount |-> Numeric2(task[r].amount), paid |-> FALSE, entry |-> 0]
<1>1. pc[r] = "post_bill" /\ task[r].amount \in Int
  BY DEF PostBill, Shapes, CallsOK, CallOK
<1>2. row \in BillRow
  BY <1>1, StoredIsWhole DEF BillRow
<1>3. bills \in Seq(BillRow) /\ bills' = Append(bills, row)
  BY DEF PostBill, Shapes, TypeOK
<1>. HIDE DEF row
<1>4. /\ bills' \in Seq(BillRow) /\ b \in Nat \ {0} /\ b \notin DOMAIN bills
      /\ DOMAIN bills' = DOMAIN bills \cup {b}
      /\ \A k \in DOMAIN bills : bills'[k] = bills[k]
      /\ bills'[b] = row
  BY <1>2, <1>3, AfterAppend
<1>5. PostedFor(BillDoc(b), "create", BillLines(task[r].amount))
  <2>1. BillDoc(b) \in Docs /\ "create" \in Steps
    BY <1>4, DocsOf DEF Steps
  <2>2. BillLines(task[r].amount) \in Seq(Line(Chart))
    BY <1>1, BillLinesType
  <2>3. Post(BillDoc(b), "create", BillLines(task[r].amount))
    BY DEF PostBill
  <2>. HIDE DEF b
  <2>4. QED
    BY <2>1, <2>2, <2>3, PostAdds
<1>6. Moved(r, "link_bill", [doc |-> BillDoc(b), entry |-> NewEntry])
  <2>1. "link_bill" \in Labels
    BY DEF Labels
  <2>2. Goto(r, "link_bill") /\ Hold(r, [doc |-> BillDoc(b), entry |-> NewEntry])
    BY DEF PostBill
  <2>3. QED
    BY <2>1, <2>2, GoesOn
<1>7. UNCHANGED <<audit, vendors, invoices, bankVars>>
  BY DEF PostBill
<1>8. QED
  BY <1>1, <1>4, <1>5, <1>6, <1>7 DEF PostBillDoes, row

\* A bill's row rewritten.
BillBecomes(b, row) ==
  /\ bills' \in Seq(BillRow) /\ b \in DOMAIN bills /\ DOMAIN bills' = DOMAIN bills
  /\ bills'[b] = row /\ \A k \in DOMAIN bills \ {b} : bills'[k] = bills[k]

LinkBillDoes(r, b) ==
  /\ Moved(r, "done", task[r])
  /\ task[r].doc = BillDoc(b) /\ task[r].entry \in EntriesOf(BillDoc(b), "create")
  /\ BillBecomes(b, [bills[b] EXCEPT !.entry = task[r].entry])
  /\ audit' = audit \cup {<<BillDoc(b), "create">>}
  /\ UNCHANGED <<books, vendors, invoices, bankVars>>

LEMMA LinkBillEffect ==
  ASSUME Shapes, NEW r \in Requests, LinkBill(r), UNCHANGED <<invoices, bankVars>>
  PROVE  pc[r] = "link_bill" /\ \E b \in DOMAIN bills : LinkBillDoes(r, b)
<1>1. pc[r] = "link_bill"
  BY DEF LinkBill
<1>2. PICK b \in DOMAIN bills :
        /\ task[r].doc = BillDoc(b) /\ task[r].entry \in EntriesOf(BillDoc(b), "create")
  BY <1>1 DEF Shapes, CallsOK, CallOK
<1>3. task[r].doc[2] = b
  BY <1>2 DEF BillDoc
<1> DEFINE row == [bills[b] EXCEPT !.entry = task[r].entry]
<1>4. bills \in Seq(BillRow) /\ bills[b] \in BillRow
  BY <1>2, ElementOf DEF Shapes, TypeOK
<1>5. task[r].entry \in Nat
  <2>1. books \in Seq(EntryRow)
    BY DEF Shapes, TypeOK
  <2>2. EntryIds \subseteq Nat
    BY <2>1 DEF EntryIds
  <2>3. QED
    BY <1>2, <2>2 DEF EntriesOf
<1>6. row \in BillRow
  BY <1>4, <1>5 DEF BillRow
<1>7. bills' = [bills EXCEPT ![b] = row]
  BY <1>3 DEF LinkBill, LinkedEntry
<1>. HIDE DEF row
<1>8. BillBecomes(b, row)
  BY <1>2, <1>4, <1>6, <1>7, AfterUpdate DEF BillBecomes
<1>9. Moved(r, "done", task[r])
  <2>1. "done" \in Labels
    BY DEF Labels, Ended
  <2>2. Goto(r, "done") /\ UNCHANGED task
    BY DEF LinkBill
  <2>3. QED
    BY <2>1, <2>2, GoesOn
<1>10. /\ audit' = audit \cup {<<BillDoc(b), "create">>}
       /\ UNCHANGED <<books, vendors, invoices, bankVars>>
  BY <1>2 DEF LinkBill, Record
<1>11. QED
  BY <1>1, <1>2, <1>8, <1>9, <1>10 DEF LinkBillDoes, row

\* The payment is in the books, the bill still says it is open.
PostPaymentDoes(r, b) ==
  /\ Moved(r, "mark_paid", task[r])
  /\ task[r].doc = BillDoc(b) /\ task[r].amount = bills[b].amount /\ b \in DOMAIN bills
  /\ PostedFor(BillDoc(b), "pay", PaymentLines(bills[b].amount))
  /\ UNCHANGED <<audit, bills, vendors, invoices, bankVars>>

LEMMA PostPaymentEffect ==
  ASSUME Shapes, NEW r \in Requests, PostPayment(r), UNCHANGED <<invoices, bankVars>>
  PROVE  pc[r] = "post_payment" /\ \E b \in DOMAIN bills : PostPaymentDoes(r, b)
<1>1. pc[r] = "post_payment"
  BY DEF PostPayment
<1>2. PICK b \in DOMAIN bills : task[r].doc = BillDoc(b) /\ task[r].amount = bills[b].amount
  BY <1>1 DEF Shapes, CallsOK, CallOK
<1>3. b \in Nat /\ bills[b].amount \in Int
  <2>1. bills \in Seq(BillRow) /\ bills[b] \in BillRow
    BY <1>2, ElementOf DEF Shapes, TypeOK
  <2>2. QED
    BY <2>1 DEF BillRow
<1>4. PostedFor(BillDoc(b), "pay", PaymentLines(bills[b].amount))
  <2>1. BillDoc(b) \in Docs /\ "pay" \in Steps
    BY <1>3, DocsOf DEF Steps
  <2>2. PaymentLines(bills[b].amount) \in Seq(Line(Chart))
    BY <1>3, BillLinesType
  <2>3. Post(BillDoc(b), "pay", PaymentLines(bills[b].amount))
    BY <1>2 DEF PostPayment
  <2>4. QED
    BY <2>1, <2>2, <2>3, PostAdds
<1>5. Moved(r, "mark_paid", task[r])
  <2>1. "mark_paid" \in Labels
    BY DEF Labels
  <2>2. Goto(r, "mark_paid") /\ UNCHANGED task
    BY DEF PostPayment
  <2>3. QED
    BY <2>1, <2>2, GoesOn
<1>6. UNCHANGED <<audit, bills, vendors, invoices, bankVars>>
  BY DEF PostPayment, billVars
<1>7. QED
  BY <1>1, <1>2, <1>4, <1>5, <1>6 DEF PostPaymentDoes

MarkPaidDoes(r, b) ==
  /\ Moved(r, "done", task[r])
  /\ task[r].doc = BillDoc(b)
  /\ \E i \in EntriesOf(BillDoc(b), "pay") :
       AccountBalance("payable", books[i].lines) = bills[b].amount
  /\ BillBecomes(b, [bills[b] EXCEPT !.paid = TRUE])
  /\ audit' = audit \cup {<<BillDoc(b), "pay">>}
  /\ UNCHANGED <<books, vendors, invoices, bankVars>>

LEMMA MarkPaidEffect ==
  ASSUME Shapes, NEW r \in Requests, MarkPaid(r), UNCHANGED <<invoices, bankVars>>
  PROVE  pc[r] = "mark_paid" /\ \E b \in DOMAIN bills : MarkPaidDoes(r, b)
<1>1. pc[r] = "mark_paid"
  BY DEF MarkPaid
<1>2. PICK b \in DOMAIN bills :
        /\ task[r].doc = BillDoc(b)
        /\ \E i \in EntriesOf(BillDoc(b), "pay") :
             AccountBalance("payable", books[i].lines) = bills[b].amount
  BY <1>1 DEF Shapes, CallsOK, CallOK
<1>3. task[r].doc[2] = b
  BY <1>2 DEF BillDoc
<1> DEFINE row == [bills[b] EXCEPT !.paid = TRUE]
<1>4. bills \in Seq(BillRow) /\ bills[b] \in BillRow
  BY <1>2, ElementOf DEF Shapes, TypeOK
<1>6. row \in BillRow
  BY <1>4 DEF BillRow
<1>7. bills' = [bills EXCEPT ![b] = row]
  BY <1>3 DEF MarkPaid, MarkedPaid
<1>. HIDE DEF row
<1>8. BillBecomes(b, row)
  BY <1>2, <1>4, <1>6, <1>7, AfterUpdate DEF BillBecomes
<1>9. Moved(r, "done", task[r])
  <2>1. "done" \in Labels
    BY DEF Labels, Ended
  <2>2. Goto(r, "done") /\ UNCHANGED task
    BY DEF MarkPaid
  <2>3. QED
    BY <2>1, <2>2, GoesOn
<1>10. /\ audit' = audit \cup {<<BillDoc(b), "pay">>}
       /\ UNCHANGED <<books, vendors, invoices, bankVars>>
  BY <1>2 DEF MarkPaid, Record
<1>11. QED
  BY <1>1, <1>2, <1>8, <1>9, <1>10 DEF MarkPaidDoes, row

CreateVendorDoes(r) ==
  /\ Moved(r, "done", task[r])
  /\ vendors' = vendors + 1
  /\ audit' = audit \cup {<<<<"vendor", vendors + 1>>, "create">>}
  /\ UNCHANGED <<books, bills, invoices, bankVars>>

LEMMA CreateVendorEffect ==
  ASSUME Shapes, NEW r \in Requests, CreateVendor(r), UNCHANGED <<invoices, bankVars>>
  PROVE  pc[r] = "idle" /\ CreateVendorDoes(r)
<1>1. "done" \in Labels
  BY DEF Labels, Ended
<1>2. Goto(r, "done") /\ UNCHANGED task
  BY DEF CreateVendor
<1>3. Moved(r, "done", task[r])
  BY <1>1, <1>2, GoesOn
<1>4. QED
  BY <1>3 DEF CreateVendor, CreateVendorDoes, Record

-----------------------------------------------------------------------------
(* What the handlers of invoices do *)

\* The lines of an invoice as its rows keep them are lines still.
LEMMA KeptType ==
  ASSUME NEW lines \in Seq(Item)
  PROVE  Kept(lines) \in Seq(Item)
<1>1. \A k \in DOMAIN lines :
        [lines[k] EXCEPT !.quantity = Numeric2(@), !.price = Numeric2(@)] \in Item
  <2>1. TAKE k \in DOMAIN lines
  <2>2. lines[k] \in Item
    BY ElementOf
  <2>3. lines[k].quantity \in Int /\ lines[k].price \in Int
    BY <2>2 DEF Item
  <2>4. Numeric2(lines[k].quantity) \in Int
    BY <2>3, StoredIsWhole
  <2>5. Numeric2(lines[k].price) \in Int
    BY <2>3, StoredIsWhole
  <2>6. QED
    BY <2>2, <2>4, <2>5 DEF Item
<1>2. DOMAIN lines = 1..Len(lines) /\ Len(lines) \in Nat
  OBVIOUS
<1>3. \A k \in 1..Len(lines) : Kept(lines)[k] \in Item
  BY <1>1, <1>2 DEF Kept
<1>4. Kept(lines) = [k \in 1..Len(lines) |-> Kept(lines)[k]]
  BY <1>2 DEF Kept
<1>5. QED
  BY <1>2, <1>3, <1>4, IsSequence

PostInvoiceDoes(r) ==
  LET n == Len(invoices) + 1
      input == task[r].input
  IN  /\ Moved(r, "link_invoice", [doc |-> InvoiceDoc(n), entry |-> NewEntry])
      /\ PostedFor(InvoiceDoc(n), "create", InvoiceLines(input.lines))
      /\ PassesBalanceCheck(InvoiceLines(input.lines))
      /\ input \in InvoiceInputs
      /\ invoices' \in Seq(InvoiceRow) /\ n \in Nat \ {0} /\ n \notin DOMAIN invoices
      /\ DOMAIN invoices' = DOMAIN invoices \cup {n}
      /\ \A k \in DOMAIN invoices : invoices'[k] = invoices[k]
      /\ invoices'[n] = [year |-> input.year, number |-> task[r].number, entry |-> 0,
                         lines |-> Kept(input.lines)]
      /\ UNCHANGED <<audit, vendors, bills, bankVars>>

LEMMA PostInvoiceEffect ==
  ASSUME Shapes, NEW r \in Requests, PostInvoice(r), UNCHANGED <<billVars, bankVars>>
  PROVE  pc[r] = "post_invoice" /\ PostInvoiceDoes(r)
<1> DEFINE n == Len(invoices) + 1
           input == task[r].input
           row == [year |-> input.year, number |-> task[r].number, entry |-> 0,
                   lines |-> Kept(input.lines)]
<1>1. pc[r] = "post_invoice" /\ input \in InvoiceInputs /\ task[r].number \in Nat
  BY DEF PostInvoice, Shapes, CallsOK, CallOK
<1>2. input.year \in Int /\ input.lines \in Seq(Item)
  BY <1>1, InvoicesAssumption DEF Item
<1>3. row \in InvoiceRow
  BY <1>1, <1>2, KeptType DEF InvoiceRow
<1>4. invoices \in Seq(InvoiceRow) /\ invoices' = Append(invoices, row)
  BY DEF PostInvoice, Shapes, TypeOK
<1>5. /\ Post(InvoiceDoc(n), "create", InvoiceLines(input.lines))
      /\ Goto(r, "link_invoice") /\ Hold(r, [doc |-> InvoiceDoc(n), entry |-> NewEntry])
      /\ UNCHANGED <<audit, vendors, bills, bankVars>>
  BY DEF PostInvoice, billVars
<1>. HIDE DEF row, input
<1>6. /\ invoices' \in Seq(InvoiceRow) /\ n \in Nat \ {0} /\ n \notin DOMAIN invoices
      /\ DOMAIN invoices' = DOMAIN invoices \cup {n}
      /\ \A k \in DOMAIN invoices : invoices'[k] = invoices[k]
      /\ invoices'[n] = row
  BY <1>3, <1>4, AfterAppend
<1>. HIDE DEF n
<1>7. PostedFor(InvoiceDoc(n), "create", InvoiceLines(input.lines))
  <2>1. InvoiceDoc(n) \in Docs /\ "create" \in Steps
    BY <1>6, DocsOf DEF Steps
  <2>2. InvoiceLines(input.lines) \in Seq(Line(Chart))
    BY <1>2, InvoiceLinesType
  <2>3. QED
    BY <2>1, <2>2, <1>5, PostAdds
<1>8. Moved(r, "link_invoice", [doc |-> InvoiceDoc(n), entry |-> NewEntry])
  <2>1. "link_invoice" \in Labels
    BY DEF Labels
  <2>2. QED
    BY <2>1, <1>5, GoesOn
<1>9. PassesBalanceCheck(InvoiceLines(input.lines))
  BY <1>5 DEF Post
<1>10. QED
  BY <1>1, <1>5, <1>6, <1>7, <1>8, <1>9 DEF PostInvoiceDoes, row, input, n

LinkInvoiceDoes(r, n) ==
  /\ Moved(r, "done", task[r])
  /\ n \in DOMAIN invoices
  /\ task[r].doc = InvoiceDoc(n) /\ task[r].entry \in EntriesOf(InvoiceDoc(n), "create")
  /\ invoices' \in Seq(InvoiceRow) /\ DOMAIN invoices' = DOMAIN invoices
  /\ invoices'[n] = [invoices[n] EXCEPT !.entry = task[r].entry]
  /\ \A k \in DOMAIN invoices \ {n} : invoices'[k] = invoices[k]
  /\ audit' = audit \cup {<<InvoiceDoc(n), "create">>}
  /\ UNCHANGED <<books, vendors, bills, bankVars>>

LEMMA EntriesAreNumbers ==
  ASSUME Shapes
  PROVE  EntryIds \subseteq Nat \ {0}
<1>1. books \in Seq(EntryRow)
  BY DEF Shapes, TypeOK
<1>2. QED
  BY <1>1 DEF EntryIds

LEMMA LinkInvoiceEffect ==
  ASSUME Shapes, NEW r \in Requests, LinkInvoice(r), UNCHANGED <<billVars, bankVars>>
  PROVE  pc[r] = "link_invoice" /\ \E n \in DOMAIN invoices : LinkInvoiceDoes(r, n)
<1>1. pc[r] = "link_invoice"
  BY DEF LinkInvoice
<1>2. PICK n \in DOMAIN invoices :
        /\ task[r].doc = InvoiceDoc(n) /\ task[r].entry \in EntriesOf(InvoiceDoc(n), "create")
  BY <1>1 DEF Shapes, CallsOK, CallOK
<1>3. task[r].doc[2] = n
  BY <1>2 DEF InvoiceDoc
<1> DEFINE row == [invoices[n] EXCEPT !.entry = task[r].entry]
<1>4. invoices \in Seq(InvoiceRow) /\ invoices[n] \in InvoiceRow
  BY <1>2, ElementOf DEF Shapes, TypeOK
<1>5. task[r].entry \in Nat
  BY <1>2, EntriesAreNumbers DEF EntriesOf
<1>6. row \in InvoiceRow
  BY <1>4, <1>5 DEF InvoiceRow
<1>7. invoices' = [invoices EXCEPT ![n] = row]
  BY <1>3 DEF LinkInvoice, LinkedEntry
<1>. HIDE DEF row
<1>8. /\ invoices' \in Seq(InvoiceRow) /\ DOMAIN invoices' = DOMAIN invoices
      /\ invoices'[n] = row /\ \A k \in DOMAIN invoices \ {n} : invoices'[k] = invoices[k]
  BY <1>2, <1>4, <1>6, <1>7, AfterUpdate
<1>9. Moved(r, "done", task[r])
  <2>1. "done" \in Labels
    BY DEF Labels, Ended
  <2>2. Goto(r, "done") /\ UNCHANGED task
    BY DEF LinkInvoice
  <2>3. QED
    BY <2>1, <2>2, GoesOn
<1>10. /\ audit' = audit \cup {<<InvoiceDoc(n), "create">>}
       /\ UNCHANGED <<books, vendors, bills, bankVars>>
  BY <1>2 DEF LinkInvoice, Record, billVars
<1>11. QED
  BY <1>1, <1>2, <1>8, <1>9, <1>10 DEF LinkInvoiceDoes, row

-----------------------------------------------------------------------------
(* What the handlers of bank transactions do *)

PostTxnDoes(r, n) ==
  LET t == [doc |-> task[r].doc, read |-> task[r].read,
            account |-> task[r].account, entry |-> NewEntry]
  IN  /\ n \in DOMAIN txns /\ task[r].doc = TxnDoc(n)
      /\ task[r].read \in TxnRow /\ task[r].account \in Categories
      /\ \/ task[r].read.status = "needs_review" /\ Moved(r, "find_rule", t)
         \/ task[r].read.status # "needs_review" /\ Moved(r, "resolve", t)
      /\ PostedFor(TxnDoc(n), "approve", TxnLines(task[r].read.amount, task[r].account))
      /\ UNCHANGED <<audit, billVars, invoices, bankVars>>

LEMMA PostTxnEffect ==
  ASSUME Shapes, NEW r \in Requests, PostTxn(r), UNCHANGED <<billVars, invoices>>
  PROVE  pc[r] = "post_txn" /\ \E n \in DOMAIN txns : PostTxnDoes(r, n)
<1> DEFINE t == [doc |-> task[r].doc, read |-> task[r].read,
                 account |-> task[r].account, entry |-> NewEntry]
<1>1. pc[r] = "post_txn"
  BY DEF PostTxn
<1>2. PICK n \in DOMAIN txns :
        task[r].doc = TxnDoc(n) /\ task[r].read \in TxnRow /\ task[r].account \in Categories
  BY <1>1 DEF Shapes, CallsOK, CallOK
<1>3. n \in Nat /\ task[r].read.amount \in Int
  <2>1. txns \in Seq(TxnRow)
    BY DEF Shapes, TypeOK
  <2>2. n \in Nat
    BY <2>1, <1>2
  <2>3. QED
    BY <1>2, <2>2 DEF TxnRow
<1>4. PostedFor(TxnDoc(n), "approve", TxnLines(task[r].read.amount, task[r].account))
  <2>1. TxnDoc(n) \in Docs /\ "approve" \in Steps
    BY <1>3, DocsOf DEF Steps
  <2>2. TxnLines(task[r].read.amount, task[r].account) \in Seq(Line(Chart))
    BY <1>2, <1>3, TxnLinesType
  <2>3. Post(TxnDoc(n), "approve", TxnLines(task[r].read.amount, task[r].account))
    BY <1>2 DEF PostTxn
  <2>4. QED
    BY <2>1, <2>2, <2>3, PostAdds
<1>5. /\ Goto(r, IF task[r].read.status = "needs_review" THEN "find_rule" ELSE "resolve")
      /\ Hold(r, t) /\ UNCHANGED <<audit, bankVars>>
  BY DEF PostTxn
<1>6. "find_rule" \in Labels /\ "resolve" \in Labels
  BY DEF Labels
<1>. HIDE DEF t
<1>7. \/ task[r].read.status = "needs_review" /\ Moved(r, "find_rule", t)
      \/ task[r].read.status # "needs_review" /\ Moved(r, "resolve", t)
  <2>1. CASE task[r].read.status = "needs_review"
    BY <1>5, <1>6, <2>1, GoesOn
  <2>2. CASE task[r].read.status # "needs_review"
    BY <1>5, <1>6, <2>2, GoesOn
  <2>3. QED
    BY <2>1, <2>2
<1>8. QED
  BY <1>1, <1>2, <1>4, <1>5, <1>7 DEF PostTxnDoes, t

ResolveDoes(r, n) ==
  /\ Moved(r, "done", task[r])
  /\ n \in DOMAIN txns
  /\ task[r].doc = TxnDoc(n) /\ task[r].entry \in EntriesOf(TxnDoc(n), "approve")
  /\ task[r].read \in TxnRow /\ task[r].account \in Categories
  /\ txns' \in Seq(TxnRow) /\ DOMAIN txns' = DOMAIN txns
  /\ txns'[n] = Resolved(txns[n], task[r])
  /\ \A k \in DOMAIN txns \ {n} : txns'[k] = txns[k]
  /\ \/ pc[r] # "learn" /\ rules' = rules
     \/ /\ pc[r] = "learn"
        /\ rules' = Append(rules, [pattern |-> task[r].read.desc, account |-> task[r].account])
  /\ UNCHANGED <<books, audit, billVars, invoices, job>>

LEMMA ResolvedType ==
  ASSUME NEW txn \in TxnRow, NEW t, t.entry \in Nat, t.read \in TxnRow, t.account \in Categories
  PROVE  /\ Resolved(txn, t) \in TxnRow
         /\ Resolved(txn, t).entry = t.entry /\ Resolved(txn, t).job = txn.job
         /\ Resolved(txn, t).desc = txn.desc /\ Resolved(txn, t).amount = txn.amount
BY DEF Resolved, LinkedEntry, TxnRow

LEMMA ResolveEffect ==
  ASSUME Shapes, NEW r \in Requests, Resolve(r), UNCHANGED <<billVars, invoices>>
  PROVE  pc[r] \in {"known", "learn", "resolve"} /\ \E n \in DOMAIN txns : ResolveDoes(r, n)
<1>1. pc[r] \in {"known", "learn", "resolve"}
  BY DEF Resolve
<1>2. PICK n \in DOMAIN txns :
        /\ task[r].doc = TxnDoc(n) /\ task[r].entry \in EntriesOf(TxnDoc(n), "approve")
        /\ task[r].read \in TxnRow /\ task[r].account \in Categories
  BY <1>1 DEF Shapes, CallsOK, CallOK
<1>3. task[r].doc[2] = n
  BY <1>2 DEF TxnDoc
<1> DEFINE row == Resolved(txns[n], task[r])
<1>4. txns \in Seq(TxnRow) /\ txns[n] \in TxnRow
  BY <1>2, ElementOf DEF Shapes, TypeOK
<1>5. task[r].entry \in Nat
  BY <1>2, EntriesAreNumbers DEF EntriesOf
<1>6. row \in TxnRow
  BY <1>2, <1>4, <1>5, ResolvedType
<1>7. txns' = [txns EXCEPT ![n] = row]
  BY <1>3 DEF Resolve
<1>. HIDE DEF row
<1>8. /\ txns' \in Seq(TxnRow) /\ DOMAIN txns' = DOMAIN txns
      /\ txns'[n] = row /\ \A k \in DOMAIN txns \ {n} : txns'[k] = txns[k]
  BY <1>2, <1>4, <1>6, <1>7, AfterUpdate
<1>9. Moved(r, "done", task[r])
  <2>1. "done" \in Labels
    BY DEF Labels, Ended
  <2>2. Goto(r, "done") /\ UNCHANGED task
    BY DEF Resolve
  <2>3. QED
    BY <2>1, <2>2, GoesOn
<1>10. /\ \/ pc[r] # "learn" /\ rules' = rules
          \/ /\ pc[r] = "learn"
             /\ rules' = Append(rules, [pattern |-> task[r].read.desc,
                                        account |-> task[r].account])
       /\ UNCHANGED <<books, audit, billVars, invoices, job>>
  BY DEF Resolve
<1>11. QED
  BY <1>1, <1>2, <1>8, <1>9, <1>10 DEF ResolveDoes, row

-----------------------------------------------------------------------------
(* The steps that write no row *)

rows == <<books, audit, billVars, invoices, bankVars>>

\* A call begins, or is turned away at once.
BeginsDoes(r) ==
  /\ UNCHANGED rows
  /\ \/ Moved(r, "rejected", task[r])
     \/ \E amount \in BillAmounts :
          Moved(r, "post_bill", [doc |-> BillDoc(0), amount |-> amount])
     \/ \E b \in DOMAIN bills :
          /\ ~bills[b].paid
          /\ Moved(r, "post_payment", [doc |-> BillDoc(b), amount |-> bills[b].amount])
     \/ \E input \in InvoiceInputs :
          Moved(r, "post_invoice", [doc |-> InvoiceDoc(0), input |-> input,
                                    number |-> NextNumber(input.year)])
     \/ \E n \in DOMAIN txns, account \in Categories :
          Moved(r, "post_txn", [doc |-> TxnDoc(n), read |-> txns[n], account |-> account])

LEMMA TurnedAway ==
  ASSUME Shapes, NEW r \in Requests, Goto(r, "rejected"), UNCHANGED task
  PROVE  Moved(r, "rejected", task[r])
<1>1. "rejected" \in Labels
  BY DEF Labels, Ended
<1>2. QED
  BY <1>1, GoesOn

LEMMA BillBegins ==
  ASSUME Shapes, NEW r \in Requests, CreateBill(r) \/ PayBill(r), UNCHANGED <<invoices, bankVars>>
  PROVE  pc[r] = "idle" /\ BeginsDoes(r)
<1>1. pc[r] = "idle" /\ UNCHANGED rows
  BY DEF CreateBill, PayBill, rows
<1>2. CASE CreateBill(r)
  <2>1. PICK amount \in BillAmounts : Hold(r, [doc |-> BillDoc(0), amount |-> amount])
    BY <1>2 DEF CreateBill
  <2>2. Goto(r, "post_bill") /\ "post_bill" \in Labels
    BY <1>2 DEF CreateBill, Labels
  <2>3. Moved(r, "post_bill", [doc |-> BillDoc(0), amount |-> amount])
    BY <2>1, <2>2, GoesOn
  <2>4. QED
    BY <1>1, <2>3 DEF BeginsDoes
<1>3. CASE PayBill(r)
  <2>1. PICK b \in DOMAIN bills :
          IF Payable(bills[b])
          THEN Hold(r, [doc |-> BillDoc(b), amount |-> bills[b].amount])
               /\ Goto(r, "post_payment")
          ELSE Goto(r, "rejected") /\ UNCHANGED task
    BY <1>3 DEF PayBill
  <2>2. CASE Payable(bills[b])
    <3>1. /\ Hold(r, [doc |-> BillDoc(b), amount |-> bills[b].amount])
          /\ Goto(r, "post_payment") /\ "post_payment" \in Labels
      BY <2>1, <2>2 DEF Labels
    <3>2. Moved(r, "post_payment", [doc |-> BillDoc(b), amount |-> bills[b].amount])
      BY <3>1, GoesOn
    <3>3. ~bills[b].paid
      BY <2>2 DEF Payable
    <3>4. QED
      BY <1>1, <3>2, <3>3 DEF BeginsDoes
  <2>3. CASE ~Payable(bills[b])
    BY <1>1, <2>1, <2>3, TurnedAway DEF BeginsDoes
  <2>4. QED
    BY <2>2, <2>3
<1>4. QED
  BY <1>2, <1>3

LEMMA InvoiceBegins ==
  ASSUME Shapes, NEW r \in Requests, CreateInvoice(r), UNCHANGED <<billVars, bankVars>>
  PROVE  pc[r] = "idle" /\ BeginsDoes(r)
<1>1. pc[r] = "idle" /\ UNCHANGED rows
  BY DEF CreateInvoice, rows
<1>2. PICK input \in InvoiceInputs :
        IF input.lines = <<>>
        THEN Goto(r, "rejected") /\ UNCHANGED task
        ELSE /\ Hold(r, [doc |-> InvoiceDoc(0), input |-> input,
                         number |-> NextNumber(input.year)])
             /\ Goto(r, "post_invoice")
  BY DEF CreateInvoice
<1>3. CASE input.lines = <<>>
  BY <1>1, <1>2, <1>3, TurnedAway DEF BeginsDoes
<1>4. CASE input.lines # <<>>
  <2> DEFINE t == [doc |-> InvoiceDoc(0), input |-> input, number |-> NextNumber(input.year)]
  <2>1. Hold(r, t) /\ Goto(r, "post_invoice") /\ "post_invoice" \in Labels
    BY <1>2, <1>4 DEF Labels
  <2>. HIDE DEF t
  <2>2. Moved(r, "post_invoice", t)
    BY <2>1, GoesOn
  <2>3. QED
    BY <1>1, <2>2 DEF BeginsDoes, t
<1>5. QED
  BY <1>3, <1>4

LEMMA ApproveBegins ==
  ASSUME Shapes, NEW r \in Requests, Approve(r), UNCHANGED <<billVars, invoices>>
  PROVE  pc[r] = "idle" /\ BeginsDoes(r)
<1>1. pc[r] = "idle" /\ UNCHANGED rows
  BY DEF Approve, rows
<1>2. PICK n \in DOMAIN txns, choice \in Categories \cup {NoAccount} :
        IF AccountFor(txns[n], choice) = NoAccount
        THEN Goto(r, "rejected") /\ UNCHANGED task
        ELSE /\ Hold(r, [doc |-> TxnDoc(n), read |-> txns[n],
                         account |-> AccountFor(txns[n], choice)])
             /\ Goto(r, "post_txn")
  BY DEF Approve
<1> DEFINE account == AccountFor(txns[n], choice)
<1>3. CASE account = NoAccount
  BY <1>1, <1>2, <1>3, TurnedAway DEF BeginsDoes
<1>4. CASE account # NoAccount
  <2>1. account \in Categories
    <3>1. txns \in Seq(TxnRow)
      BY DEF Shapes, TypeOK
    <3>2. txns[n] \in TxnRow
      BY <3>1, ElementOf
    <3>3. txns[n].suggested \in Categories \cup {NoAccount}
      BY <3>2 DEF TxnRow
    <3>4. QED
      BY <1>4, <3>3 DEF AccountFor
  <2>2. /\ Hold(r, [doc |-> TxnDoc(n), read |-> txns[n], account |-> account])
        /\ Goto(r, "post_txn") /\ "post_txn" \in Labels
    BY <1>2, <1>4 DEF Labels
  <2>. HIDE DEF account
  <2>3. Moved(r, "post_txn", [doc |-> TxnDoc(n), read |-> txns[n], account |-> account])
    BY <2>2, GoesOn
  <2>4. QED
    BY <1>1, <2>1, <2>3 DEF BeginsDoes
<1>5. QED
  BY <1>3, <1>4

\* A call is refused or stops, or finds whether there is a rule.
StopsDoes(r) ==
  /\ UNCHANGED rows
  /\ \/ Running(r) /\ Moved(r, "crashed", task[r])
     \/ /\ pc[r] \in {"post_bill", "post_payment", "post_invoice", "post_txn"}
        /\ Moved(r, "rejected", task[r])
     \/ pc[r] = "find_rule" /\ Moved(r, "known", task[r])
     \/ pc[r] = "find_rule" /\ Moved(r, "learn", task[r]) /\ ~RuleKnown(task[r].read.desc)

RefusedAtPost(r) ==
  \/ PostingRefusedToBill(r) /\ UNCHANGED <<invoices, bankVars>>
  \/ PostingRefusedToInvoice(r) /\ UNCHANGED <<billVars, bankVars>>
  \/ PostingRefusedToTxn(r) /\ UNCHANGED <<billVars, invoices>>

LEMMA RefusalEffect ==
  ASSUME Shapes, NEW r \in Requests, RefusedAtPost(r)
  PROVE  StopsDoes(r)
<1>1. UNCHANGED rows /\ Goto(r, "rejected") /\ UNCHANGED task
  BY DEF RefusedAtPost, PostingRefusedToBill, PostingRefusedToInvoice, PostingRefusedToTxn,
         Refused, rows
<1>2. pc[r] \in {"post_bill", "post_payment", "post_invoice", "post_txn"}
  BY DEF RefusedAtPost, PostingRefusedToBill, PostingRefusedToInvoice, PostingRefusedToTxn,
         Refused
<1>3. QED
  BY <1>1, <1>2, TurnedAway DEF StopsDoes

LEMMA FindRuleEffect ==
  ASSUME Shapes, NEW r \in Requests, FindRule(r), UNCHANGED <<billVars, invoices>>
  PROVE  StopsDoes(r)
<1>1. UNCHANGED rows /\ UNCHANGED task /\ pc[r] = "find_rule"
      /\ (Goto(r, "known") \/ (Goto(r, "learn") /\ ~RuleKnown(task[r].read.desc)))
  BY DEF FindRule, rows
<1>2. "known" \in Labels /\ "learn" \in Labels
  BY DEF Labels
<1>3. \/ Moved(r, "known", task[r])
      \/ Moved(r, "learn", task[r]) /\ ~RuleKnown(task[r].read.desc)
  BY <1>1, <1>2, GoesOn
<1>4. QED
  BY <1>1, <1>3 DEF StopsDoes

LEMMA CrashEffect ==
  ASSUME Shapes, NEW r \in Requests, Stop(r)
  PROVE  StopsDoes(r)
<1>1. UNCHANGED rows /\ UNCHANGED task /\ Running(r) /\ Goto(r, "crashed")
  BY DEF Stop, Crash, rows
<1>2. "crashed" \in Labels
  BY DEF Labels, Ended
<1>3. Moved(r, "crashed", task[r])
  BY <1>1, <1>2, GoesOn
<1>4. QED
  BY <1>1, <1>3 DEF StopsDoes

-----------------------------------------------------------------------------
(* What the import worker does *)

JobMoveSet == {<<"absent", "queued">>, <<"running", "failed">>, <<"committed", "finished">>,
               <<"running", "queued">>, <<"committed", "queued">>, <<"queued", "failed">>}

\* The job's row rewritten.
JobBecomes(j, row) ==
  /\ job' \in [Jobs -> JobRow] /\ job'[j] = row
  /\ \A i \in Jobs \ {j} : job'[i] = job[i]

Reordered(order) == [k \in DOMAIN rules |-> rules[order[k]]]

WorkerMoves(j) ==
  /\ UNCHANGED txns
  /\ \E from, to : /\ <<from, to>> \in JobMoveSet /\ job[j].state = from
                   /\ JobBecomes(j, [job[j] EXCEPT !.state = to])
WorkerLoads(j) ==
  /\ UNCHANGED txns
  /\ job[j].state = "queued" /\ job[j].tries < MaxTries
  /\ \E order \in Bijection(DOMAIN rules, DOMAIN rules) :
       JobBecomes(j, [state |-> "running", rules |-> Reordered(order),
                      tries |-> job[j].tries + 1])
WorkerCommits(j) ==
  /\ job[j].state = "running"
  /\ JobBecomes(j, [job[j] EXCEPT !.state = "committed"])
  /\ txns' = txns \o Added(j) /\ txns' \in Seq(TxnRow) /\ Added(j) \in Seq(TxnRow)
WorkerDoes(j) ==
  /\ UNCHANGED <<docVars, billVars, invoices, rules>>
  /\ WorkerMoves(j) \/ WorkerLoads(j) \/ WorkerCommits(j)

LEMMA JobChanges ==
  ASSUME Shapes, NEW j \in Jobs, NEW row \in JobRow, job' = [job EXCEPT ![j] = row]
  PROVE  JobBecomes(j, row)
<1>1. job \in [Jobs -> JobRow]
  BY DEF Shapes, TypeOK
<1>2. QED
  BY <1>1 DEF JobBecomes

LEMMA JobMovesEffect ==
  ASSUME Shapes, NEW j \in Jobs, NEW from, NEW to, <<from, to>> \in JobMoveSet,
         JobMoves(j, from, to), UNCHANGED <<billVars, invoices>>
  PROVE  WorkerDoes(j)
<1> DEFINE row == [job[j] EXCEPT !.state = to]
<1>1. job[j] \in JobRow
  BY DEF Shapes, TypeOK
<1>2. row \in JobRow
  BY <1>1 DEF JobRow, JobMoveSet
<1>3. job' = [job EXCEPT ![j] = row]
  BY DEF JobMoves
<1>. HIDE DEF row
<1>4. JobBecomes(j, row)
  BY <1>2, <1>3, JobChanges
<1>5. WorkerMoves(j)
  BY <1>4 DEF WorkerMoves, JobMoves, row
<1>6. QED
  BY <1>5 DEF WorkerDoes, JobMoves

\* A finite set of integers has a least and a greatest element.
LEMMA Extremes ==
  ASSUME NEW S \in SUBSET Int, IsFiniteSet(S), S # {}
  PROVE  Min(S) \in S /\ Max(S) \in S
<1> DEFINE Ends(T) == \E a, b \in T : \A y \in T : a <= y /\ y <= b
           P == {T \in SUBSET S : T = {} \/ Ends(T)}
<1>1. {} \in P
  OBVIOUS
<1>2. ASSUME NEW T \in P, NEW x \in S \ T
      PROVE  T \cup {x} \in P
  <2>1. CASE T = {}
    <3>1. Ends(T \cup {x})
      BY <2>1
    <3>2. QED
      BY <3>1
  <2>2. CASE T # {}
    <3>1. Ends(T)
      BY <2>2
    <3>2. PICK a \in T, b \in T : \A y \in T : a <= y /\ y <= b
      BY <3>1
    <3>3. a \in Int /\ b \in Int /\ x \in Int /\ \A y \in T : y \in Int
      OBVIOUS
    <3>4. PICK c \in {a, x} : c <= a /\ c <= x
      BY <3>3
    <3>5. PICK d \in {b, x} : b <= d /\ x <= d
      BY <3>3
    <3>6. \A y \in T \cup {x} : c <= y /\ y <= d
      BY <3>2, <3>3, <3>4, <3>5
    <3>7. QED
      BY <3>6
  <2>3. QED
    BY <2>1, <2>2
<1>3. P \in SUBSET SUBSET S
  OBVIOUS
<1>4. S \in P
  <2>. HIDE DEF P
  <2>1. QED
    BY <1>1, <1>2, <1>3, AllFiniteSets
<1>5. Ends(S)
  BY <1>4
<1>6. QED
  BY <1>5 DEF Min, Max

\* The rule of a match is a rule that matches.
LEMMA RuleMatched ==
  ASSUME NEW rs \in Seq(RuleRow), NEW desc
  PROVE  \/ RuleMatch(desc, rs) = NoAccount
         \/ \E i \in DOMAIN rs : /\ RuleMatch(desc, rs) = rs[i].account
                                 /\ <<rs[i].pattern, desc>> \in Matches
<1> DEFINE hits == {i \in DOMAIN rs : <<rs[i].pattern, desc>> \in Matches}
           key == rs[Min(hits)].pattern
           last == {i \in DOMAIN rs : rs[i].pattern = key}
<1>1. DOMAIN rs = 1..Len(rs) /\ Len(rs) \in Nat
  OBVIOUS
<1>2. IsFiniteSet(DOMAIN rs) /\ DOMAIN rs \in SUBSET Int
  BY <1>1, FS_Interval
<1>3. CASE hits = {}
  BY <1>3 DEF RuleMatch
<1>4. CASE hits # {}
  <2>1. IsFiniteSet(hits) /\ hits \in SUBSET Int
    BY <1>2, FS_Subset
  <2>2. Min(hits) \in hits
    <3>. HIDE DEF hits
    <3>1. QED
      BY <1>4, <2>1, Extremes
  <2>3. IsFiniteSet(last) /\ last \in SUBSET Int
    <3>1. last \in SUBSET DOMAIN rs
      OBVIOUS
    <3>. HIDE DEF last
    <3>2. QED
      BY <1>2, <3>1, FS_Subset
  <2>4. last # {}
    BY <2>2
  <2>5. Max(last) \in last
    <3>. HIDE DEF last
    <3>1. QED
      BY <2>3, <2>4, Extremes
  <2>6. RuleMatch(desc, rs) = rs[Max(last)].account
    BY <1>4 DEF RuleMatch
  <2>7. Max(last) \in DOMAIN rs /\ <<rs[Max(last)].pattern, desc>> \in Matches
    BY <2>2, <2>5
  <2>. HIDE DEF last, hits
  <2>8. QED
    BY <2>6, <2>7
<1>5. QED
  BY <1>3, <1>4

\* What one row of a statement becomes.
LEMMA CategorizedType ==
  ASSUME Shapes, NEW j \in Jobs, NEW k \in DOMAIN Statement[j]
  PROVE  Categorized(j, Statement[j][k]) \in TxnRow
<1> DEFINE row == Statement[j][k]
           account == RuleMatch(row.desc, job[j].rules)
<1>1. row.desc \in STRING /\ row.amount \in Int
  <2>1. Statement[j] \in Seq([desc : STRING, amount : Int])
    BY BankAssumption
  <2>2. row \in [desc : STRING, amount : Int]
    BY <2>1, ElementOf
  <2>3. QED
    BY <2>2
<1>2. Numeric2(row.amount) \in Int
  BY <1>1, StoredIsWhole
<1>3. job[j].rules \in Seq(RuleRow)
  <2>1. job[j] \in JobRow
    BY DEF Shapes, TypeOK
  <2>2. QED
    BY <2>1 DEF JobRow
<1>4. account \in Categories \cup {NoAccount}
  <2>1. \A i \in DOMAIN job[j].rules : job[j].rules[i] \in RuleRow
    BY <1>3, ElementOf
  <2>2. \A i \in DOMAIN job[j].rules : job[j].rules[i].account \in Categories
    BY <2>1 DEF RuleRow
  <2>3. QED
    BY <1>3, <2>2, RuleMatched
<1>5. Categorized(j, row) = [job |-> j, desc |-> row.desc, amount |-> Numeric2(row.amount),
                             entry |-> 0, suggested |-> account, status |-> StatusOf(account)]
  BY DEF Categorized
<1>. HIDE DEF row, account
<1>6. QED
  BY <1>1, <1>2, <1>4, <1>5 DEF TxnRow, StatusOf, row

LEMMA AddedType ==
  ASSUME Shapes, NEW j \in Jobs
  PROVE  Added(j) \in Seq(TxnRow) /\ DOMAIN Added(j) = DOMAIN Statement[j]
<1>1. DOMAIN Statement[j] = 1..Len(Statement[j]) /\ Len(Statement[j]) \in Nat
  BY BankAssumption
<1>2. \A k \in 1..Len(Statement[j]) : Added(j)[k] \in TxnRow
  BY <1>1, CategorizedType DEF Added
<1>3. Added(j) = [k \in 1..Len(Statement[j]) |-> Added(j)[k]]
  BY <1>1 DEF Added
<1>4. QED
  BY <1>1, <1>2, <1>3, IsSequence DEF Added

LEMMA LoadRulesEffect ==
  ASSUME Shapes, NEW j \in Jobs, LoadRules(j), UNCHANGED <<billVars, invoices>>
  PROVE  WorkerDoes(j)
<1>1. PICK order \in Bijection(DOMAIN rules, DOMAIN rules) :
        job' = [job EXCEPT ![j] = [state |-> "running", rules |-> Reordered(order),
                                   tries |-> @.tries + 1]]
  BY DEF LoadRules, Reordered
<1> DEFINE row == [state |-> "running", rules |-> Reordered(order), tries |-> job[j].tries + 1]
<1>2. job' = [job EXCEPT ![j] = row]
  BY <1>1
<1>3. rules \in Seq(RuleRow) /\ job[j] \in JobRow
  BY DEF Shapes, TypeOK
<1>4. Reordered(order) \in Seq(RuleRow)
  <2>1. DOMAIN rules = 1..Len(rules) /\ Len(rules) \in Nat
    BY <1>3
  <2>2. \A k \in DOMAIN rules : order[k] \in DOMAIN rules
    BY DEF Bijection, Injection
  <2>3. \A k \in DOMAIN rules : rules[order[k]] \in RuleRow
    BY <1>3, <2>2, ElementOf
  <2>4. Reordered(order) = [k \in 1..Len(rules) |-> Reordered(order)[k]]
        /\ \A k \in 1..Len(rules) : Reordered(order)[k] \in RuleRow
    BY <2>1, <2>3 DEF Reordered
  <2>5. QED
    BY <2>1, <2>4, IsSequence
<1>5. job[j].tries + 1 \in 0..MaxTries
  <2>1. job[j].tries \in 0..MaxTries /\ MaxTries \in Nat
    BY <1>3, BankAssumption DEF JobRow
  <2>2. job[j].tries < MaxTries
    BY DEF LoadRules
  <2>3. QED
    BY <2>1, <2>2
<1>6. row \in JobRow
  BY <1>4, <1>5 DEF JobRow
<1>. HIDE DEF row
<1>7. JobBecomes(j, row)
  BY <1>2, <1>6, JobChanges
<1>8. WorkerLoads(j)
  BY <1>7 DEF WorkerLoads, LoadRules, row
<1>9. QED
  BY <1>8 DEF WorkerDoes, LoadRules

LEMMA CommitImportEffect ==
  ASSUME Shapes, NEW j \in Jobs, CommitImport(j), UNCHANGED <<billVars, invoices>>
  PROVE  WorkerDoes(j)
<1> DEFINE row == [job[j] EXCEPT !.state = "committed"]
<1>1. job[j] \in JobRow
  BY DEF Shapes, TypeOK
<1>2. row \in JobRow
  BY <1>1 DEF JobRow
<1>3. job' = [job EXCEPT ![j] = row]
  BY DEF CommitImport
<1>. HIDE DEF row
<1>4. JobBecomes(j, row)
  BY <1>2, <1>3, JobChanges
<1>5. txns \in Seq(TxnRow) /\ Added(j) \in Seq(TxnRow) /\ txns' = txns \o Added(j)
  BY AddedType DEF Shapes, TypeOK, CommitImport
<1>6. txns' \in Seq(TxnRow)
  BY <1>5
<1>7. WorkerCommits(j)
  BY <1>4, <1>5, <1>6 DEF WorkerCommits, CommitImport, row
<1>8. QED
  BY <1>7 DEF WorkerDoes, CommitImport

LEMMA ImportEffect ==
  ASSUME Shapes, NEW j \in Jobs, ImportStep(j), UNCHANGED <<billVars, invoices>>
  PROVE  WorkerDoes(j)
<1>1. CASE EnqueueImport(j)
  BY <1>1, JobMovesEffect DEF EnqueueImport, JobMoveSet
<1>2. CASE LoadRules(j)
  BY <1>2, LoadRulesEffect
<1>3. CASE CommitImport(j)
  BY <1>3, CommitImportEffect
<1>4. CASE AckJob(j)
  BY <1>4, JobMovesEffect DEF AckJob, JobMoveSet
<1>5. CASE ImportFails(j)
  BY <1>5, JobMovesEffect DEF ImportFails, JobMoveSet
<1>6. CASE Redeliver(j)
  BY <1>6, JobMovesEffect DEF Redeliver, JobMoveSet
<1>7. CASE GiveUp(j)
  BY <1>7, JobMovesEffect DEF GiveUp, JobMoveSet
<1>8. QED
  BY <1>1, <1>2, <1>3, <1>4, <1>5, <1>6, <1>7 DEF ImportStep

-----------------------------------------------------------------------------
(* Every step is one of these *)

CallDoes(r) ==
  \/ pc[r] = "idle" /\ (BeginsDoes(r) \/ CreateVendorDoes(r))
  \/ StopsDoes(r)
  \/ pc[r] = "post_bill" /\ task[r].amount \in Int /\ PostBillDoes(r)
  \/ pc[r] = "link_bill" /\ \E b \in DOMAIN bills : LinkBillDoes(r, b)
  \/ pc[r] = "post_payment" /\ \E b \in DOMAIN bills : PostPaymentDoes(r, b)
  \/ pc[r] = "mark_paid" /\ \E b \in DOMAIN bills : MarkPaidDoes(r, b)
  \/ pc[r] = "post_invoice" /\ PostInvoiceDoes(r)
  \/ pc[r] = "link_invoice" /\ \E n \in DOMAIN invoices : LinkInvoiceDoes(r, n)
  \/ pc[r] = "post_txn" /\ \E n \in DOMAIN txns : PostTxnDoes(r, n)
  \/ pc[r] \in {"known", "learn", "resolve"} /\ \E n \in DOMAIN txns : ResolveDoes(r, n)

LEMMA LookupFailsEffect ==
  ASSUME Shapes, NEW r \in Requests, LookupFails(r), UNCHANGED <<billVars, invoices, bankVars>>
  PROVE  pc[r] = "idle" /\ BeginsDoes(r)
<1>1. pc[r] = "idle" /\ UNCHANGED rows /\ Goto(r, "rejected") /\ UNCHANGED task
  BY DEF LookupFails, rows
<1>2. QED
  BY <1>1, TurnedAway DEF BeginsDoes

LEMMA BeginEffect ==
  ASSUME Shapes, NEW r \in Requests, Begin(r)
  PROVE  CallDoes(r)
<1>1. CASE BillsBegin(r) /\ UNCHANGED <<invoices, bankVars>>
  <2>1. CASE CreateVendor(r)
    BY <1>1, <2>1, CreateVendorEffect DEF CallDoes
  <2>2. CASE CreateBill(r) \/ PayBill(r)
    BY <1>1, <2>2, BillBegins DEF CallDoes
  <2>3. QED
    BY <1>1, <2>1, <2>2 DEF BillsBegin
<1>2. CASE CreateInvoice(r) /\ UNCHANGED <<billVars, bankVars>>
  BY <1>2, InvoiceBegins DEF CallDoes
<1>3. CASE Approve(r) /\ UNCHANGED <<billVars, invoices>>
  BY <1>3, ApproveBegins DEF CallDoes
<1>4. CASE LookupFails(r) /\ UNCHANGED <<billVars, invoices, bankVars>>
  BY <1>4, LookupFailsEffect DEF CallDoes
<1>5. QED
  BY <1>1, <1>2, <1>3, <1>4 DEF Begin

LEMMA AdvanceEffect ==
  ASSUME Shapes, NEW r \in Requests, Advance(r)
  PROVE  CallDoes(r)
<1>1. CASE BillsAdvance(r) /\ UNCHANGED <<invoices, bankVars>>
  <2>1. CASE PostBill(r)
    BY <1>1, <2>1, PostBillEffect DEF CallDoes
  <2>2. CASE LinkBill(r)
    BY <1>1, <2>2, LinkBillEffect DEF CallDoes
  <2>3. CASE PostPayment(r)
    BY <1>1, <2>3, PostPaymentEffect DEF CallDoes
  <2>4. CASE MarkPaid(r)
    BY <1>1, <2>4, MarkPaidEffect DEF CallDoes
  <2>5. CASE PostingRefusedToBill(r)
    BY <1>1, <2>5, RefusalEffect DEF CallDoes, RefusedAtPost
  <2>6. QED
    BY <1>1, <2>1, <2>2, <2>3, <2>4, <2>5 DEF BillsAdvance
<1>2. CASE InvoicesAdvance(r) /\ UNCHANGED <<billVars, bankVars>>
  <2>1. CASE PostInvoice(r)
    BY <1>2, <2>1, PostInvoiceEffect DEF CallDoes
  <2>2. CASE LinkInvoice(r)
    BY <1>2, <2>2, LinkInvoiceEffect DEF CallDoes
  <2>3. CASE PostingRefusedToInvoice(r)
    BY <1>2, <2>3, RefusalEffect DEF CallDoes, RefusedAtPost
  <2>4. QED
    BY <1>2, <2>1, <2>2, <2>3 DEF InvoicesAdvance
<1>3. CASE BankAdvance(r) /\ UNCHANGED <<billVars, invoices>>
  <2>1. CASE PostTxn(r)
    BY <1>3, <2>1, PostTxnEffect DEF CallDoes
  <2>2. CASE FindRule(r)
    BY <1>3, <2>2, FindRuleEffect DEF CallDoes
  <2>3. CASE Resolve(r)
    BY <1>3, <2>3, ResolveEffect DEF CallDoes
  <2>4. CASE PostingRefusedToTxn(r)
    BY <1>3, <2>4, RefusalEffect DEF CallDoes, RefusedAtPost
  <2>5. QED
    BY <1>3, <2>1, <2>2, <2>3, <2>4 DEF BankAdvance
<1>4. QED
  BY <1>1, <1>2, <1>3 DEF Advance

LEMMA StepCases ==
  ASSUME Shapes, Next
  PROVE  (\E r \in Requests : CallDoes(r)) \/ (\E j \in Jobs : WorkerDoes(j))
<1>1. CASE Worker
  BY <1>1, ImportEffect DEF Worker
<1>2. ASSUME NEW r \in Requests, Begin(r) \/ Advance(r) \/ Stop(r)
      PROVE  CallDoes(r)
  BY <1>2, BeginEffect, AdvanceEffect, CrashEffect DEF CallDoes
<1>3. QED
  BY <1>1, <1>2 DEF Next

-----------------------------------------------------------------------------
(* The shape of the rows, and what calls rely on, are kept *)

LEMMA CallsStayOK ==
  ASSUME Shapes, Grown, NEW r \in Requests, NEW label, NEW t, Moved(r, label, t), CallOK(r)'
  PROVE  CallsOK' /\ pc' \in [Requests -> Labels]
<1>1. ASSUME NEW q \in Requests \ {r} PROVE CallOK(q)'
  <2>1. CallOK(q) /\ pc'[q] = pc[q] /\ task'[q] = task[q]
    BY DEF Shapes, CallsOK, Moved
  <2>2. QED
    BY <2>1, CallKept
<1>2. DOMAIN task' = Requests /\ pc' \in [Requests -> Labels]
  BY DEF Moved
<1>3. \A q \in Requests : CallOK(q)'
  BY <1>1
<1>4. QED
  BY <1>2, <1>3 DEF CallsOK

\* The rows have their types after a step.
RowsTypeOK ==
  /\ books' \in Seq(EntryRow)
  /\ audit' \subseteq ({"vendor", "bill", "invoice"} \X Nat) \X {"create", "pay"}
  /\ vendors' \in Nat
  /\ bills' \in Seq(BillRow)
  /\ invoices' \in Seq(InvoiceRow)
  /\ txns' \in Seq(TxnRow)
  /\ rules' \in Seq(RuleRow)
  /\ job' \in [Jobs -> JobRow]

LEMMA ShapesKept ==
  ASSUME RowsTypeOK, BillsWhole', CallsOK', pc' \in [Requests -> Labels]
  PROVE  Shapes'
BY DEF RowsTypeOK, Shapes, TypeOK

LEMMA RestKept ==
  ASSUME Shapes
  PROVE  /\ UNCHANGED books => books' \in Seq(EntryRow)
         /\ UNCHANGED audit =>
              audit' \subseteq ({"vendor", "bill", "invoice"} \X Nat) \X {"create", "pay"}
         /\ UNCHANGED vendors => vendors' \in Nat
         /\ UNCHANGED bills => bills' \in Seq(BillRow) /\ BillsWhole'
         /\ UNCHANGED invoices => invoices' \in Seq(InvoiceRow)
         /\ UNCHANGED txns => txns' \in Seq(TxnRow)
         /\ UNCHANGED rules => rules' \in Seq(RuleRow)
         /\ UNCHANGED job => job' \in [Jobs -> JobRow]
BY DEF Shapes, TypeOK, BillsWhole

LEMMA GrownByPosting ==
  ASSUME NEW doc, NEW step, NEW lines, PostedFor(doc, step, lines),
         DOMAIN bills \subseteq DOMAIN bills',
         \A b \in DOMAIN bills : bills'[b].amount = bills[b].amount,
         DOMAIN invoices \subseteq DOMAIN invoices', DOMAIN txns \subseteq DOMAIN txns'
  PROVE  Grown
BY DEF Grown, PostedFor

LEMMA NothingGrown ==
  ASSUME UNCHANGED <<books, bills, invoices, txns>>
  PROVE  Grown
BY DEF Grown, EntryIds

LEMMA PostBillKeeps ==
  ASSUME Shapes, NEW r \in Requests, task[r].amount \in Int, PostBillDoes(r)
  PROVE  Shapes' /\ Grown
<1> DEFINE b == Len(bills) + 1
<1>1. PostedFor(BillDoc(b), "create", BillLines(task[r].amount))
      /\ Moved(r, "link_bill", [doc |-> BillDoc(b), entry |-> NewEntry])
  BY DEF PostBillDoes
<1>2. Grown
  BY <1>1, GrownByPosting DEF PostBillDoes, bankVars
<1>3. CallOK(r)'
  <2>1. b \in DOMAIN bills' /\ NewEntry \in EntryIds'
        /\ books'[NewEntry].doc = BillDoc(b) /\ books'[NewEntry].step = "create"
    BY <1>1 DEF PostBillDoes, PostedFor
  <2>2. pc'[r] = "link_bill" /\ task'[r].doc = BillDoc(b) /\ task'[r].entry = NewEntry
    BY <1>1 DEF Moved
  <2>. HIDE DEF b
  <2>3. QED
    BY <2>1, <2>2 DEF CallOK, EntriesOf
<1>4. CallsOK' /\ pc' \in [Requests -> Labels]
  BY <1>1, <1>2, <1>3, CallsStayOK
<1>5. RowsTypeOK
  <2>1. books' \in Seq(EntryRow)
    BY <1>1 DEF PostedFor
  <2>2. UNCHANGED <<audit, vendors, invoices, txns, rules, job>> /\ bills' \in Seq(BillRow)
    BY DEF PostBillDoes, bankVars
  <2>3. QED
    BY <2>1, <2>2, RestKept DEF RowsTypeOK
<1>6. BillsWhole'
  <2>1. Numeric2(Numeric2(task[r].amount)) = Numeric2(task[r].amount)
    BY StoredIsWhole
  <2>2. QED
    BY <2>1 DEF BillsWhole, PostBillDoes, Shapes
<1>7. QED
  BY <1>2, <1>4, <1>5, <1>6, ShapesKept

LEMMA DoneIsOK ==
  ASSUME NEW r \in Requests, NEW t,
         \/ Moved(r, "done", t) \/ Moved(r, "rejected", t) \/ Moved(r, "crashed", t)
  PROVE  CallOK(r)'
<1>1. pc'[r] \in {"done", "rejected", "crashed"}
  BY DEF Moved
<1>2. QED
  BY <1>1 DEF CallOK

LEMMA RowIsNatural ==
  ASSUME Shapes
  PROVE  /\ DOMAIN bills \subseteq Nat \ {0} /\ DOMAIN invoices \subseteq Nat \ {0}
         /\ DOMAIN txns \subseteq Nat \ {0}
<1>1. bills \in Seq(BillRow) /\ invoices \in Seq(InvoiceRow) /\ txns \in Seq(TxnRow)
  BY DEF Shapes, TypeOK
<1>2. QED
  BY <1>1

LEMMA LinkBillKeeps ==
  ASSUME Shapes, NEW r \in Requests, NEW b \in DOMAIN bills, LinkBillDoes(r, b)
  PROVE  Shapes' /\ Grown
<1>1. /\ Moved(r, "done", task[r]) /\ UNCHANGED <<books, vendors, invoices, txns, rules, job>>
      /\ bills' \in Seq(BillRow) /\ DOMAIN bills' = DOMAIN bills
      /\ bills'[b] = [bills[b] EXCEPT !.entry = task[r].entry]
      /\ \A k \in DOMAIN bills \ {b} : bills'[k] = bills[k]
  BY DEF LinkBillDoes, BillBecomes, bankVars
<1>2. \A k \in DOMAIN bills : bills'[k].amount = bills[k].amount
  <2>1. bills \in Seq(BillRow) /\ bills[b] \in BillRow
    BY ElementOf DEF Shapes, TypeOK
  <2>2. bills'[b].amount = bills[b].amount
    BY <1>1, <2>1 DEF BillRow
  <2>3. QED
    BY <1>1, <2>2
<1>3. Grown
  BY <1>1, <1>2 DEF Grown, EntryIds
<1>4. CallsOK' /\ pc' \in [Requests -> Labels]
  BY <1>1, <1>3, DoneIsOK, CallsStayOK
<1>5. audit' \subseteq ({"vendor", "bill", "invoice"} \X Nat) \X {"create", "pay"}
  BY RowIsNatural DEF LinkBillDoes, Shapes, TypeOK, BillDoc
<1>6. RowsTypeOK
  BY <1>1, <1>5, RestKept DEF RowsTypeOK
<1>7. BillsWhole'
  BY <1>1, <1>2 DEF BillsWhole, Shapes
<1>8. QED
  BY <1>3, <1>4, <1>6, <1>7, ShapesKept

LEMMA PostPaymentKeeps ==
  ASSUME Shapes, NEW r \in Requests, NEW b \in DOMAIN bills, PostPaymentDoes(r, b)
  PROVE  Shapes' /\ Grown
<1>1. /\ PostedFor(BillDoc(b), "pay", PaymentLines(bills[b].amount))
      /\ Moved(r, "mark_paid", task[r]) /\ task[r].doc = BillDoc(b)
      /\ UNCHANGED <<audit, bills, vendors, invoices, txns, rules, job>>
  BY DEF PostPaymentDoes, bankVars
<1>2. Grown
  BY <1>1, GrownByPosting
<1>3. CallOK(r)'
  <2>1. AccountBalance("payable", Stored(PaymentLines(bills[b].amount))) = bills[b].amount
    <3>1. bills[b].amount \in Int /\ Numeric2(bills[b].amount) = bills[b].amount
      <4>1. bills \in Seq(BillRow)
        BY DEF Shapes, TypeOK
      <4>2. bills[b] \in BillRow
        BY <4>1, ElementOf
      <4>3. QED
        BY <4>2 DEF BillRow, Shapes, BillsWhole
    <3> DEFINE x == On("payable", bills[b].amount, 0)
               y == On("bank", 0, bills[b].amount)
    <3>2. Numeric2(0) = 0
      BY DEF Numeric2, RoundCents, Cent
    <3>3. Stored(PaymentLines(bills[b].amount)) = <<x, y>>
      BY <3>1, <3>2 DEF PaymentLines, Stored, On
    <3>4. Effect("payable", x) = bills[b].amount /\ Effect("payable", y) = 0
      BY <3>1 DEF Effect, On
    <3>. HIDE DEF x, y
    <3>5. AccountBalance("payable", <<x, y>>) = Effect("payable", x) + Effect("payable", y)
      BY <3>1, <3>4, BalanceOfTwo
    <3>6. QED
      BY <3>1, <3>3, <3>4, <3>5
  <2>2. /\ NewEntry \in EntryIds'
        /\ books'[NewEntry].doc = BillDoc(b) /\ books'[NewEntry].step = "pay"
        /\ books'[NewEntry].lines = Stored(PaymentLines(bills[b].amount))
    BY <1>1 DEF PostedFor
  <2>3. pc'[r] = "mark_paid" /\ task'[r].doc = BillDoc(b) /\ bills' = bills
    BY <1>1 DEF Moved
  <2>4. QED
    BY <2>1, <2>2, <2>3 DEF CallOK, EntriesOf
<1>4. CallsOK' /\ pc' \in [Requests -> Labels]
  BY <1>1, <1>2, <1>3, CallsStayOK
<1>5. RowsTypeOK /\ BillsWhole'
  BY <1>1, RestKept DEF RowsTypeOK, PostedFor
<1>6. QED
  BY <1>2, <1>4, <1>5, ShapesKept

LEMMA MarkPaidKeeps ==
  ASSUME Shapes, NEW r \in Requests, NEW b \in DOMAIN bills, MarkPaidDoes(r, b)
  PROVE  Shapes' /\ Grown
<1>1. /\ Moved(r, "done", task[r]) /\ UNCHANGED <<books, vendors, invoices, txns, rules, job>>
      /\ bills' \in Seq(BillRow) /\ DOMAIN bills' = DOMAIN bills
      /\ bills'[b] = [bills[b] EXCEPT !.paid = TRUE]
      /\ \A k \in DOMAIN bills \ {b} : bills'[k] = bills[k]
  BY DEF MarkPaidDoes, BillBecomes, bankVars
<1>2. \A k \in DOMAIN bills : bills'[k].amount = bills[k].amount
  <2>1. bills \in Seq(BillRow) /\ bills[b] \in BillRow
    BY ElementOf DEF Shapes, TypeOK
  <2>2. bills'[b].amount = bills[b].amount
    BY <1>1, <2>1 DEF BillRow
  <2>3. QED
    BY <1>1, <2>2
<1>3. Grown
  BY <1>1, <1>2 DEF Grown, EntryIds
<1>4. CallsOK' /\ pc' \in [Requests -> Labels]
  BY <1>1, <1>3, DoneIsOK, CallsStayOK
<1>5. audit' \subseteq ({"vendor", "bill", "invoice"} \X Nat) \X {"create", "pay"}
  BY RowIsNatural DEF MarkPaidDoes, Shapes, TypeOK, BillDoc
<1>6. RowsTypeOK
  BY <1>1, <1>5, RestKept DEF RowsTypeOK
<1>7. BillsWhole'
  BY <1>1, <1>2 DEF BillsWhole, Shapes
<1>8. QED
  BY <1>3, <1>4, <1>6, <1>7, ShapesKept

LEMMA PostInvoiceKeeps ==
  ASSUME Shapes, NEW r \in Requests, PostInvoiceDoes(r)
  PROVE  Shapes' /\ Grown
<1> DEFINE n == Len(invoices) + 1
           input == task[r].input
<1>1. /\ PostedFor(InvoiceDoc(n), "create", InvoiceLines(input.lines))
      /\ Moved(r, "link_invoice", [doc |-> InvoiceDoc(n), entry |-> NewEntry])
      /\ invoices' \in Seq(InvoiceRow) /\ DOMAIN invoices' = DOMAIN invoices \cup {n}
      /\ UNCHANGED <<audit, vendors, bills, txns, rules, job>>
  BY DEF PostInvoiceDoes, bankVars
<1>. HIDE DEF n, input
<1>2. Grown
  BY <1>1, GrownByPosting
<1>3. CallOK(r)'
  <2>1. n \in DOMAIN invoices' /\ NewEntry \in EntryIds'
        /\ books'[NewEntry].doc = InvoiceDoc(n) /\ books'[NewEntry].step = "create"
    BY <1>1 DEF PostedFor
  <2>2. pc'[r] = "link_invoice" /\ task'[r].doc = InvoiceDoc(n) /\ task'[r].entry = NewEntry
    BY <1>1 DEF Moved
  <2>3. QED
    BY <2>1, <2>2 DEF CallOK, EntriesOf
<1>4. CallsOK' /\ pc' \in [Requests -> Labels]
  BY <1>1, <1>2, <1>3, CallsStayOK
<1>5. RowsTypeOK /\ BillsWhole'
  BY <1>1, RestKept DEF RowsTypeOK, PostedFor
<1>6. QED
  BY <1>2, <1>4, <1>5, ShapesKept

LEMMA LinkInvoiceKeeps ==
  ASSUME Shapes, NEW r \in Requests, NEW n \in DOMAIN invoices, LinkInvoiceDoes(r, n)
  PROVE  Shapes' /\ Grown
<1>1. /\ Moved(r, "done", task[r]) /\ UNCHANGED <<books, vendors, bills, txns, rules, job>>
      /\ invoices' \in Seq(InvoiceRow) /\ DOMAIN invoices' = DOMAIN invoices
  BY DEF LinkInvoiceDoes, bankVars
<1>2. Grown
  BY <1>1 DEF Grown, EntryIds
<1>3. CallsOK' /\ pc' \in [Requests -> Labels]
  BY <1>1, <1>2, DoneIsOK, CallsStayOK
<1>4. audit' \subseteq ({"vendor", "bill", "invoice"} \X Nat) \X {"create", "pay"}
  BY RowIsNatural DEF LinkInvoiceDoes, Shapes, TypeOK, InvoiceDoc
<1>5. RowsTypeOK /\ BillsWhole'
  BY <1>1, <1>4, RestKept DEF RowsTypeOK
<1>6. QED
  BY <1>2, <1>3, <1>5, ShapesKept

LEMMA PostTxnKeeps ==
  ASSUME Shapes, NEW r \in Requests, NEW n \in DOMAIN txns, PostTxnDoes(r, n)
  PROVE  Shapes' /\ Grown
<1> DEFINE t == [doc |-> task[r].doc, read |-> task[r].read,
                 account |-> task[r].account, entry |-> NewEntry]
<1>1. /\ task[r].doc = TxnDoc(n) /\ task[r].read \in TxnRow /\ task[r].account \in Categories
      /\ Moved(r, "find_rule", t) \/ Moved(r, "resolve", t)
      /\ PostedFor(TxnDoc(n), "approve", TxnLines(task[r].read.amount, task[r].account))
      /\ UNCHANGED <<audit, vendors, bills, invoices, txns, rules, job>>
  BY DEF PostTxnDoes, bankVars, billVars
<1>2. Grown
  BY <1>1, GrownByPosting
<1>3. CallOK(r)'
  <2>1. NewEntry \in EntryIds'
        /\ books'[NewEntry].doc = TxnDoc(n) /\ books'[NewEntry].step = "approve"
    BY <1>1 DEF PostedFor
  <2>2. pc'[r] \in {"find_rule", "resolve"} /\ task'[r] = t /\ txns' = txns
    BY <1>1 DEF Moved
  <2>3. t.doc = TxnDoc(n) /\ t.read \in TxnRow /\ t.account \in Categories /\ t.entry = NewEntry
    BY <1>1
  <2>. HIDE DEF t
  <2>4. QED
    BY <2>1, <2>2, <2>3 DEF CallOK, EntriesOf
<1>. HIDE DEF t
<1>4. CallsOK' /\ pc' \in [Requests -> Labels]
  BY <1>1, <1>2, <1>3, CallsStayOK
<1>5. RowsTypeOK /\ BillsWhole'
  BY <1>1, RestKept DEF RowsTypeOK, PostedFor
<1>6. QED
  BY <1>2, <1>4, <1>5, ShapesKept

LEMMA ResolveKeeps ==
  ASSUME Shapes, NEW r \in Requests, NEW n \in DOMAIN txns, ResolveDoes(r, n)
  PROVE  Shapes' /\ Grown
<1>1. /\ Moved(r, "done", task[r]) /\ txns' \in Seq(TxnRow) /\ DOMAIN txns' = DOMAIN txns
      /\ UNCHANGED <<books, audit, vendors, bills, invoices, job>>
  BY DEF ResolveDoes, billVars
<1>2. Grown
  BY <1>1 DEF Grown, EntryIds
<1>3. CallsOK' /\ pc' \in [Requests -> Labels]
  BY <1>1, <1>2, DoneIsOK, CallsStayOK
<1>4. rules' \in Seq(RuleRow)
  <2>1. rules \in Seq(RuleRow)
    BY DEF Shapes, TypeOK
  <2> DEFINE rule == [pattern |-> task[r].read.desc, account |-> task[r].account]
  <2>2. rule \in RuleRow
    BY DEF ResolveDoes, TxnRow, RuleRow
  <2>3. rules' = rules \/ rules' = Append(rules, rule)
    BY DEF ResolveDoes
  <2>. HIDE DEF rule
  <2>4. QED
    BY <2>1, <2>2, <2>3
<1>5. RowsTypeOK /\ BillsWhole'
  BY <1>1, <1>4, RestKept DEF RowsTypeOK
<1>6. QED
  BY <1>2, <1>3, <1>5, ShapesKept

LEMMA CreateVendorKeeps ==
  ASSUME Shapes, NEW r \in Requests, CreateVendorDoes(r)
  PROVE  Shapes' /\ Grown
<1>1. /\ Moved(r, "done", task[r])
      /\ UNCHANGED <<books, bills, invoices, txns, rules, job>>
  BY DEF CreateVendorDoes, bankVars
<1>2. Grown
  BY <1>1, NothingGrown
<1>3. CallsOK' /\ pc' \in [Requests -> Labels]
  BY <1>1, <1>2, DoneIsOK, CallsStayOK
<1>4. /\ vendors' \in Nat
      /\ audit' \subseteq ({"vendor", "bill", "invoice"} \X Nat) \X {"create", "pay"}
  BY DEF CreateVendorDoes, Shapes, TypeOK
<1>5. RowsTypeOK /\ BillsWhole'
  BY <1>1, <1>4, RestKept DEF RowsTypeOK
<1>6. QED
  BY <1>2, <1>3, <1>5, ShapesKept

LEMMA NumberType ==
  ASSUME Shapes, NEW year
  PROVE  NextNumber(year) \in Nat
<1>1. invoices \in Seq(InvoiceRow)
  BY DEF Shapes, TypeOK
<1>2. DOMAIN invoices = 1..Len(invoices) /\ Len(invoices) \in Int /\ 1 \in Int
  BY <1>1
<1>3. IsFiniteSet(DOMAIN invoices)
  BY <1>2, FS_Interval
<1>4. IsFiniteSet({i \in DOMAIN invoices : invoices[i].year = year})
  BY <1>3, FS_Subset
<1>5. Cardinality({i \in DOMAIN invoices : invoices[i].year = year}) \in Nat
  BY <1>4, FS_CardinalityType
<1>6. QED
  BY <1>5 DEF NextNumber

LEMMA BeginsKeeps ==
  ASSUME Shapes, NEW r \in Requests, BeginsDoes(r)
  PROVE  Shapes' /\ Grown
<1>1. UNCHANGED <<books, audit, vendors, bills, invoices, txns, rules, job>>
  BY DEF BeginsDoes, rows, billVars, bankVars
<1>2. Grown
  BY <1>1, NothingGrown
<1>3. CallsOK' /\ pc' \in [Requests -> Labels]
  <2>1. ASSUME Moved(r, "rejected", task[r])
        PROVE  CallsOK' /\ pc' \in [Requests -> Labels]
    BY <1>2, <2>1, DoneIsOK, CallsStayOK
  <2>2. ASSUME NEW amount \in BillAmounts,
               Moved(r, "post_bill", [doc |-> BillDoc(0), amount |-> amount])
        PROVE  CallsOK' /\ pc' \in [Requests -> Labels]
    <3>1. pc'[r] = "post_bill" /\ task'[r].amount \in Int
      BY <2>2, BillsAssumption DEF Moved
    <3>2. CallOK(r)'
      BY <3>1 DEF CallOK
    <3>3. QED
      BY <1>2, <2>2, <3>2, CallsStayOK
  <2>3. ASSUME NEW b \in DOMAIN bills,
               Moved(r, "post_payment", [doc |-> BillDoc(b), amount |-> bills[b].amount])
        PROVE  CallsOK' /\ pc' \in [Requests -> Labels]
    <3>1. pc'[r] = "post_payment" /\ task'[r].doc = BillDoc(b)
          /\ task'[r].amount = bills'[b].amount /\ b \in DOMAIN bills'
      BY <1>1, <2>3 DEF Moved
    <3>2. CallOK(r)'
      BY <3>1 DEF CallOK
    <3>3. QED
      BY <1>2, <2>3, <3>2, CallsStayOK
  <2>4. ASSUME NEW input \in InvoiceInputs,
               Moved(r, "post_invoice", [doc |-> InvoiceDoc(0), input |-> input,
                                         number |-> NextNumber(input.year)])
        PROVE  CallsOK' /\ pc' \in [Requests -> Labels]
    <3> DEFINE t == [doc |-> InvoiceDoc(0), input |-> input, number |-> NextNumber(input.year)]
    <3>1. t.input \in InvoiceInputs /\ t.number \in Nat
      BY NumberType
    <3>2. Moved(r, "post_invoice", t)
      BY <2>4
    <3>. HIDE DEF t
    <3>3. pc'[r] = "post_invoice" /\ task'[r] = t
      BY <3>2 DEF Moved
    <3>4. CallOK(r)'
      BY <3>1, <3>3 DEF CallOK
    <3>5. QED
      BY <1>2, <3>2, <3>4, CallsStayOK
  <2>5. ASSUME NEW n \in DOMAIN txns, NEW account \in Categories,
               Moved(r, "post_txn", [doc |-> TxnDoc(n), read |-> txns[n], account |-> account])
        PROVE  CallsOK' /\ pc' \in [Requests -> Labels]
    <3>1. txns[n] \in TxnRow
      <4>1. txns \in Seq(TxnRow)
        BY DEF Shapes, TypeOK
      <4>2. QED
        BY <4>1, ElementOf
    <3>2. pc'[r] = "post_txn" /\ task'[r].doc = TxnDoc(n) /\ n \in DOMAIN txns'
          /\ task'[r].read \in TxnRow /\ task'[r].account \in Categories
      BY <1>1, <2>5, <3>1 DEF Moved
    <3>3. CallOK(r)'
      BY <3>2 DEF CallOK
    <3>4. QED
      BY <1>2, <2>5, <3>3, CallsStayOK
  <2>6. QED
    BY <2>1, <2>2, <2>3, <2>4, <2>5 DEF BeginsDoes
<1>4. RowsTypeOK /\ BillsWhole'
  BY <1>1, RestKept DEF RowsTypeOK
<1>5. QED
  BY <1>2, <1>3, <1>4, ShapesKept

LEMMA StopsKeeps ==
  ASSUME Shapes, NEW r \in Requests, StopsDoes(r)
  PROVE  Shapes' /\ Grown
<1>1. UNCHANGED <<books, audit, vendors, bills, invoices, txns, rules, job>>
  BY DEF StopsDoes, rows, billVars, bankVars
<1>2. Grown
  BY <1>1, NothingGrown
<1>3. CASE Moved(r, "crashed", task[r]) \/ Moved(r, "rejected", task[r])
  <2>1. CallsOK' /\ pc' \in [Requests -> Labels]
    BY <1>2, <1>3, DoneIsOK, CallsStayOK
  <2>2. RowsTypeOK /\ BillsWhole'
    BY <1>1, RestKept DEF RowsTypeOK
  <2>3. QED
    BY <1>2, <2>1, <2>2, ShapesKept
<1>4. CASE pc[r] = "find_rule" /\ (Moved(r, "known", task[r]) \/ Moved(r, "learn", task[r]))
  <2>1. pc'[r] \in {"known", "learn"} /\ task'[r] = task[r]
    BY <1>4 DEF Moved
  <2>2. PICK n \in DOMAIN txns :
          /\ task[r].doc = TxnDoc(n) /\ task[r].entry \in EntriesOf(TxnDoc(n), "approve")
          /\ task[r].read \in TxnRow /\ task[r].account \in Categories
    BY <1>4 DEF Shapes, CallsOK, CallOK
  <2>3. EntriesOf(TxnDoc(n), "approve")' = EntriesOf(TxnDoc(n), "approve") /\ n \in DOMAIN txns'
    BY <1>1 DEF EntriesOf, EntryIds
  <2>4. CallOK(r)'
    BY <2>1, <2>2, <2>3 DEF CallOK
  <2>5. CallsOK' /\ pc' \in [Requests -> Labels]
    BY <1>2, <1>4, <2>4, CallsStayOK
  <2>6. RowsTypeOK /\ BillsWhole'
    BY <1>1, RestKept DEF RowsTypeOK
  <2>7. QED
    BY <1>2, <2>5, <2>6, ShapesKept
<1>5. QED
  BY <1>3, <1>4 DEF StopsDoes

LEMMA WorkerKeeps ==
  ASSUME Shapes, NEW j \in Jobs, WorkerDoes(j)
  PROVE  Shapes' /\ Grown
<1>1. UNCHANGED <<books, audit, pc, task, vendors, bills, invoices, rules>>
  BY DEF WorkerDoes, docVars, billVars
<1>2. job' \in [Jobs -> JobRow]
  BY DEF WorkerDoes, WorkerMoves, WorkerLoads, WorkerCommits, JobBecomes
<1>3. txns \in Seq(TxnRow)
  BY DEF Shapes, TypeOK
<1>4. txns' \in Seq(TxnRow) /\ DOMAIN txns \subseteq DOMAIN txns'
  <2>1. CASE UNCHANGED txns
    BY <1>3, <2>1
  <2>2. CASE WorkerCommits(j)
    <3>1. txns' = txns \o Added(j) /\ txns' \in Seq(TxnRow) /\ Added(j) \in Seq(TxnRow)
      BY <2>2 DEF WorkerCommits
    <3>2. DOMAIN txns \subseteq DOMAIN txns'
      BY <1>3, <3>1
    <3>3. QED
      BY <3>1, <3>2
  <2>3. QED
    BY <2>1, <2>2 DEF WorkerDoes, WorkerMoves, WorkerLoads
<1>5. Grown
  BY <1>1, <1>4 DEF Grown, EntryIds
<1>6. CallsOK'
  <2>1. \A q \in Requests : CallOK(q)'
    BY <1>1, <1>5, CallKept DEF Shapes, CallsOK
  <2>2. QED
    BY <1>1, <2>1 DEF CallsOK, Shapes
<1>7. pc' \in [Requests -> Labels]
  BY <1>1 DEF Shapes, TypeOK
<1>8. RowsTypeOK /\ BillsWhole'
  BY <1>1, <1>2, <1>4, RestKept DEF RowsTypeOK
<1>9. QED
  BY <1>5, <1>6, <1>7, <1>8, ShapesKept

LEMMA CallKeeps ==
  ASSUME Shapes, NEW r \in Requests, CallDoes(r)
  PROVE  Shapes' /\ Grown
BY BeginsKeeps, CreateVendorKeeps, StopsKeeps, PostBillKeeps, LinkBillKeeps, PostPaymentKeeps,
   MarkPaidKeeps, PostInvoiceKeeps, LinkInvoiceKeeps, PostTxnKeeps, ResolveKeeps DEF CallDoes

LEMMA ShapesNext ==
  ASSUME Shapes, [Next]_vars
  PROVE  Shapes' /\ Grown
<1>1. CASE UNCHANGED vars
  <2>1. UNCHANGED <<books, audit, pc, task, vendors, bills, invoices, txns, rules, job>>
    BY <1>1 DEF vars
  <2>2. Grown
    BY <2>1, NothingGrown
  <2>3. CallsOK' /\ pc' \in [Requests -> Labels]
    <3>1. \A q \in Requests : CallOK(q)'
      BY <2>1, <2>2, CallKept DEF Shapes, CallsOK
    <3>2. QED
      BY <2>1, <3>1 DEF CallsOK, Shapes, TypeOK
  <2>4. RowsTypeOK /\ BillsWhole'
    BY <2>1, RestKept DEF RowsTypeOK
  <2>5. QED
    BY <2>2, <2>3, <2>4, ShapesKept
<1>2. CASE Next
  BY <1>2, StepCases, CallKeeps, WorkerKeeps
<1>3. QED
  BY <1>1, <1>2

LEMMA OpeningBooks ==
  ASSUME BillsInit
  PROVE  /\ books \in Seq(EntryRow) /\ bills \in Seq(BillRow)
         /\ DOMAIN books = DOMAIN OpenBills /\ DOMAIN bills = DOMAIN OpenBills
         /\ BillsWhole
<1>1. /\ DOMAIN OpenBills = 1..Len(OpenBills) /\ Len(OpenBills) \in Nat
      /\ \A b \in DOMAIN OpenBills : OpenBills[b] \in Int /\ b \in Nat
  BY BillsAssumption
<1>2. ASSUME NEW b \in DOMAIN OpenBills
      PROVE  bills[b] \in BillRow /\ books[b] \in EntryRow
  <2>1. OpenBills[b] \in Int /\ b \in Nat
    BY <1>1
  <2>2. Numeric2(OpenBills[b]) \in Int
    BY <2>1, StoredIsWhole
  <2>3. BillLines(OpenBills[b]) \in Seq(Line(Chart))
    BY <2>1, BillLinesType
  <2>4. Stored(BillLines(OpenBills[b])) \in Seq(Line(Chart))
    BY <2>3, LinesType
  <2>5. bills[b] \in BillRow
    BY <2>1, <2>2 DEF BillsInit, BillRow
  <2>6. books[b] \in EntryRow
    BY <2>1, <2>4 DEF BillsInit, EntryRow, BillDoc
  <2>7. QED
    BY <2>5, <2>6
<1>3. /\ bills = [b \in 1..Len(OpenBills) |-> bills[b]]
      /\ books = [b \in 1..Len(OpenBills) |-> books[b]]
  BY <1>1 DEF BillsInit
<1>4. bills \in Seq(BillRow)
  BY <1>1, <1>2, <1>3, IsSequence
<1>5. books \in Seq(EntryRow)
  BY <1>1, <1>2, <1>3, IsSequence
<1>6. DOMAIN books = DOMAIN OpenBills /\ DOMAIN bills = DOMAIN OpenBills
  BY DEF BillsInit
<1>7. BillsWhole
  BY <1>1, StoredIsWhole DEF BillsWhole, BillsInit
<1>8. QED
  BY <1>4, <1>5, <1>6, <1>7

LEMMA ShapesInit ==
  ASSUME Init
  PROVE  Shapes
<1>1. books \in Seq(EntryRow) /\ bills \in Seq(BillRow) /\ BillsWhole
  BY OpeningBooks DEF Init
<1>2. vendors \in Nat
  BY DEF Init, BillsInit
<1>3. audit \subseteq ({"vendor", "bill", "invoice"} \X Nat) \X {"create", "pay"}
  BY <1>2, BillsAssumption DEF Init, BillsInit, BillDoc
<1>4. invoices \in Seq(InvoiceRow) /\ txns \in Seq(TxnRow) /\ rules \in Seq(RuleRow)
  BY DEF Init, InvoicesInit, BankInit
<1>5. job \in [Jobs -> JobRow]
  BY BankAssumption DEF Init, BankInit, JobRow
<1>6. pc \in [Requests -> Labels] /\ \A r \in Requests : pc[r] = "idle"
  BY DEF Init, DocumentsInit, Labels
<1>7. CallsOK
  BY <1>6 DEF CallsOK, CallOK, Init, DocumentsInit
<1>8. QED
  BY <1>1, <1>2, <1>3, <1>4, <1>5, <1>6, <1>7 DEF Shapes, TypeOK

\* Every row and every entry has the shape the handlers give it, whatever the
\* calls, their order and where they stop (purchases/services.py,
\* sales/services.py, banking/router.py): an entry posts to accounts of the
\* chart only, and a document is in one of the states the handlers know.
LEMMA ShapesAlways == Spec => []Shapes
<1>1. Init => Shapes
  BY ShapesInit
<1>2. Shapes /\ [Next]_vars => Shapes'
  BY ShapesNext
<1>3. QED
  BY <1>1, <1>2, PTL DEF Spec

THEOREM RowsKeepTheirShape == Spec => []TypeOK
<1>1. Shapes => TypeOK
  BY DEF Shapes
<1>2. QED
  BY <1>1, ShapesAlways, PTL

-----------------------------------------------------------------------------
(* What a call still has to write *)

\* A call holds the document and is at one of the labels, or has stopped.
Held(doc, labels) ==
  \E r \in Requests : task[r].doc = doc /\ pc[r] \in labels \cup {"crashed"}

Stays(r, labels) ==
  pc[r] \in labels \cup {"crashed"} =>
    pc'[r] \in labels \cup {"crashed"} /\ task'[r].doc = task[r].doc

LEMMA HeldKept ==
  ASSUME NEW doc, NEW labels, Held(doc, labels), \A q \in Requests : Stays(q, labels)
  PROVE  Held(doc, labels)'
BY DEF Held, Stays

ToResolve == {"find_rule", "known", "learn", "resolve"}
Waits == {{"link_bill"}, {"link_invoice"}, {"mark_paid"}, ToResolve}

LEMMA MovedStays ==
  ASSUME NEW r \in Requests, NEW label, NEW t, NEW labels, Moved(r, label, t),
         pc[r] \in labels \cup {"crashed"} =>
           label \in labels \cup {"crashed"} /\ t.doc = task[r].doc
  PROVE  \A q \in Requests : Stays(q, labels)
BY DEF Moved, Stays

\* A call does not leave such labels but to end.
LEMMA CallStays ==
  ASSUME Shapes, NEW r \in Requests, CallDoes(r), NEW labels \in Waits
  PROVE  \/ \A q \in Requests : Stays(q, labels)
         \/ /\ pc[r] \in labels /\ pc'[r] = "done"
            /\ \A q \in Requests \ {r} : Stays(q, labels)
<1>0. "crashed" \notin labels /\ "idle" \notin labels /\ "post_bill" \notin labels
      /\ "post_payment" \notin labels /\ "post_invoice" \notin labels
      /\ "post_txn" \notin labels
      /\ ("find_rule" \in labels => "known" \in labels /\ "learn" \in labels)
  BY DEF Waits, ToResolve
<1>1. \A q \in Requests \ {r} : Stays(q, labels)
  <2>1. \A q \in Requests \ {r} : pc'[q] = pc[q] /\ task'[q] = task[q]
    BY DEF CallDoes, BeginsDoes, CreateVendorDoes, StopsDoes, PostBillDoes, LinkBillDoes,
       PostPaymentDoes, MarkPaidDoes, PostInvoiceDoes, LinkInvoiceDoes, PostTxnDoes,
       ResolveDoes, Moved
  <2>2. QED
    BY <2>1 DEF Stays
<1>2. CASE pc[r] \in {"idle", "post_bill", "post_payment", "post_invoice", "post_txn"}
  BY <1>0, <1>1, <1>2 DEF Stays
<1>3. CASE StopsDoes(r)
  <2>1. Running(r) \/ pc[r] \in {"post_bill", "post_payment", "post_invoice", "post_txn",
                                 "find_rule"}
    BY <1>3 DEF StopsDoes
  <2>2. pc[r] # "crashed"
    BY <2>1 DEF Running, Ended
  <2>3. Stays(r, labels)
    BY <1>0, <1>3, <2>2 DEF StopsDoes, Moved, Stays
  <2>4. QED
    BY <1>1, <2>3
<1>4. ASSUME pc[r] \in {"link_bill", "mark_paid", "link_invoice", "known", "learn", "resolve"},
             pc'[r] = "done"
      PROVE  \/ \A q \in Requests : Stays(q, labels)
             \/ /\ pc[r] \in labels /\ pc'[r] = "done"
                /\ \A q \in Requests \ {r} : Stays(q, labels)
  BY <1>0, <1>1, <1>4 DEF Stays
<1>5. \/ pc[r] \in {"idle", "post_bill", "post_payment", "post_invoice", "post_txn"}
      \/ StopsDoes(r)
      \/ /\ pc[r] \in {"link_bill", "mark_paid", "link_invoice", "known", "learn", "resolve"}
         /\ pc'[r] = "done"
  BY DEF CallDoes, LinkBillDoes, MarkPaidDoes, LinkInvoiceDoes, ResolveDoes, Moved
<1>6. QED
  BY <1>2, <1>3, <1>4, <1>5

LEMMA WorkerStays ==
  ASSUME NEW j \in Jobs, WorkerDoes(j), NEW labels
  PROVE  \A q \in Requests : Stays(q, labels)
BY DEF WorkerDoes, docVars, Stays

-----------------------------------------------------------------------------
(* Every entry is for a document on record *)

Recorded(doc) ==
  \/ \E b \in DOMAIN bills : doc = BillDoc(b)
  \/ \E n \in DOMAIN invoices : doc = InvoiceDoc(n)
  \/ \E n \in DOMAIN txns : doc = TxnDoc(n)
DocsKnown == \A i \in EntryIds : Recorded(books[i].doc)

\* What is posted in a step.
CallPosts(r) ==
  \/ UNCHANGED books
  \/ /\ PostBillDoes(r)
     /\ PostedFor(BillDoc(Len(bills) + 1), "create", BillLines(task[r].amount))
  \/ \E b \in DOMAIN bills :
       PostPaymentDoes(r, b) /\ PostedFor(BillDoc(b), "pay", PaymentLines(bills[b].amount))
  \/ /\ PostInvoiceDoes(r)
     /\ PostedFor(InvoiceDoc(Len(invoices) + 1), "create", InvoiceLines(task[r].input.lines))
  \/ \E n \in DOMAIN txns :
       /\ PostTxnDoes(r, n)
       /\ PostedFor(TxnDoc(n), "approve", TxnLines(task[r].read.amount, task[r].account))

LEMMA CallPostsWhat ==
  ASSUME NEW r \in Requests, CallDoes(r)
  PROVE  CallPosts(r)
<1>1. CASE UNCHANGED books
  BY <1>1 DEF CallPosts
<1>2. CASE PostBillDoes(r)
  BY <1>2 DEF CallPosts, PostBillDoes
<1>3. ASSUME NEW b \in DOMAIN bills, PostPaymentDoes(r, b) PROVE CallPosts(r)
  BY <1>3 DEF CallPosts, PostPaymentDoes
<1>4. CASE PostInvoiceDoes(r)
  BY <1>4 DEF CallPosts, PostInvoiceDoes
<1>5. ASSUME NEW n \in DOMAIN txns, PostTxnDoes(r, n) PROVE CallPosts(r)
  BY <1>5 DEF CallPosts, PostTxnDoes
<1>6. \/ UNCHANGED books \/ PostBillDoes(r) \/ PostInvoiceDoes(r)
      \/ \E b \in DOMAIN bills : PostPaymentDoes(r, b)
      \/ \E n \in DOMAIN txns : PostTxnDoes(r, n)
  BY DEF CallDoes, BeginsDoes, CreateVendorDoes, StopsDoes, rows, LinkBillDoes, MarkPaidDoes,
     LinkInvoiceDoes, ResolveDoes
<1>7. QED
  BY <1>1, <1>2, <1>3, <1>4, <1>5, <1>6

LEMMA RecordedKept ==
  ASSUME Grown, NEW doc, Recorded(doc)
  PROVE  Recorded(doc)'
BY DEF Grown, Recorded

LEMMA DocsKnownByPosting ==
  ASSUME DocsKnown, Grown, NEW doc, NEW step, NEW lines, PostedFor(doc, step, lines),
         Recorded(doc)'
  PROVE  DocsKnown'
<1>1. ASSUME NEW i \in EntryIds' PROVE Recorded(books[i].doc)'
  <2>1. CASE i \in EntryIds
    <3>1. books'[i] = books[i]
      BY <2>1 DEF PostedFor
    <3> DEFINE d == books[i].doc
    <3>2. Recorded(d)
      BY <2>1 DEF DocsKnown
    <3>3. \/ \E b \in DOMAIN bills' : d = BillDoc(b)
          \/ \E n \in DOMAIN invoices' : d = InvoiceDoc(n)
          \/ \E n \in DOMAIN txns' : d = TxnDoc(n)
      BY <3>2 DEF Recorded, Grown
    <3>4. QED
      BY <3>1, <3>3 DEF Recorded
  <2>2. CASE i = NewEntry
    <3>1. books'[i].doc = doc
      BY <2>2 DEF PostedFor
    <3>2. QED
      BY <3>1 DEF Recorded
  <2>3. QED
    BY <2>1, <2>2 DEF PostedFor
<1>2. QED
  BY <1>1 DEF DocsKnown

LEMMA DocsKnownSame ==
  ASSUME DocsKnown, Grown, UNCHANGED books
  PROVE  DocsKnown'
BY DEF DocsKnown, Recorded, Grown, EntryIds

LEMMA DocsKnownNext ==
  ASSUME Shapes, Grown, DocsKnown, [Next]_vars
  PROVE  DocsKnown'
<1>1. ASSUME NEW r \in Requests, CallDoes(r) PROVE DocsKnown'
  <2>1. CASE UNCHANGED books
    BY <2>1, DocsKnownSame
  <2>2. CASE /\ PostBillDoes(r)
             /\ PostedFor(BillDoc(Len(bills) + 1), "create", BillLines(task[r].amount))
    <3>1. PICK b \in DOMAIN bills' : b = Len(bills) + 1
      BY <2>2 DEF PostBillDoes
    <3>2. Recorded(BillDoc(b))'
      BY DEF Recorded, BillDoc
    <3>3. PostedFor(BillDoc(b), "create", BillLines(task[r].amount))
      BY <2>2, <3>1
    <3>4. QED
      BY <3>2, <3>3, DocsKnownByPosting
  <2>3. ASSUME NEW b \in DOMAIN bills, PostPaymentDoes(r, b),
               PostedFor(BillDoc(b), "pay", PaymentLines(bills[b].amount))
        PROVE  DocsKnown'
    <3>1. Recorded(BillDoc(b))'
      BY DEF Recorded, Grown, BillDoc
    <3>2. QED
      BY <2>3, <3>1, DocsKnownByPosting
  <2>5. ASSUME NEW n \in DOMAIN txns, PostTxnDoes(r, n),
               PostedFor(TxnDoc(n), "approve", TxnLines(task[r].read.amount, task[r].account))
        PROVE  DocsKnown'
    <3>1. Recorded(TxnDoc(n))'
      BY DEF Recorded, Grown, TxnDoc
    <3>2. QED
      BY <2>5, <3>1, DocsKnownByPosting
  <2>4. CASE /\ PostInvoiceDoes(r)
             /\ PostedFor(InvoiceDoc(Len(invoices) + 1), "create",
                          InvoiceLines(task[r].input.lines))
    <3>1. PICK n \in DOMAIN invoices' : n = Len(invoices) + 1
      BY <2>4 DEF PostInvoiceDoes
    <3>2. Recorded(InvoiceDoc(n))'
      BY DEF Recorded, InvoiceDoc
    <3>3. PostedFor(InvoiceDoc(n), "create", InvoiceLines(task[r].input.lines))
      BY <2>4, <3>1
    <3>4. QED
      BY <3>2, <3>3, DocsKnownByPosting
  <2>6. QED
    BY <1>1, <2>1, <2>2, <2>3, <2>4, <2>5, CallPostsWhat DEF CallPosts
<1>2. ASSUME NEW j \in Jobs, WorkerDoes(j) PROVE DocsKnown'
  BY <1>2, DocsKnownSame DEF WorkerDoes, docVars
<1>3. CASE UNCHANGED vars
  BY <1>3, DocsKnownSame DEF vars
<1>4. QED
  BY <1>1, <1>2, <1>3, StepCases

LEMMA DocsKnownInit ==
  ASSUME Init
  PROVE  DocsKnown
<1>1. DOMAIN books = DOMAIN OpenBills /\ DOMAIN bills = DOMAIN OpenBills
      /\ \A b \in DOMAIN OpenBills : books[b].doc = BillDoc(b)
  BY DEF Init, BillsInit
<1>2. QED
  BY <1>1 DEF DocsKnown, Recorded, EntryIds

\* A document that is not on record has no entries.
LEMMA NoEntriesYet ==
  ASSUME DocsKnown, NEW doc, ~Recorded(doc), NEW step
  PROVE  EntriesOf(doc, step) = {}
BY DEF DocsKnown, EntriesOf

-----------------------------------------------------------------------------
(* Documents point at their entries *)

BillsLinked == \A b \in DOMAIN bills :
  \/ bills[b].entry \in EntriesOf(BillDoc(b), "create")
  \/ bills[b].entry = 0 /\ Held(BillDoc(b), {"link_bill"})
InvoicesLinked == \A n \in DOMAIN invoices :
  \/ invoices[n].entry \in EntriesOf(InvoiceDoc(n), "create")
  \/ invoices[n].entry = 0 /\ Held(InvoiceDoc(n), {"link_invoice"})
TxnsLinked == \A n \in DOMAIN txns :
  \/ txns[n].entry \in EntriesOf(TxnDoc(n), "approve")
  \/ /\ txns[n].entry = 0
     /\ EntriesOf(TxnDoc(n), "approve") # {} => Held(TxnDoc(n), ToResolve)
PaymentsMarked == \A b \in DOMAIN bills :
  /\ bills[b].paid => \E i \in EntriesOf(BillDoc(b), "pay") :
       AccountBalance("payable", books[i].lines) = bills[b].amount
  /\ EntriesOf(BillDoc(b), "pay") # {} /\ ~bills[b].paid => Held(BillDoc(b), {"mark_paid"})

Links == BillsLinked /\ InvoicesLinked /\ TxnsLinked /\ PaymentsMarked

\* What a step does to the entry a document points at.
Linking(r, label, doc) == pc[r] = label /\ pc'[r] = "done" /\ task[r].doc = doc

LEMMA BillsAfter ==
  ASSUME Shapes, NEW r \in Requests, CallDoes(r), NEW b \in DOMAIN bills'
  PROVE  \/ /\ b \in DOMAIN bills /\ bills'[b].entry = bills[b].entry
            /\ ~Linking(r, "link_bill", BillDoc(b))
         \/ bills'[b].entry \in EntriesOf(BillDoc(b), "create")
         \/ bills'[b].entry = 0 /\ task'[r].doc = BillDoc(b) /\ pc'[r] = "link_bill"
<1>1. CASE UNCHANGED bills /\ ~(pc[r] = "link_bill" /\ pc'[r] = "done")
  BY <1>1 DEF Linking
<1>2. CASE PostBillDoes(r) /\ pc[r] = "post_bill"
  BY <1>2 DEF PostBillDoes, Moved, Linking
<1>3. ASSUME NEW k \in DOMAIN bills, LinkBillDoes(r, k)
      PROVE  \/ /\ b \in DOMAIN bills /\ bills'[b].entry = bills[b].entry
                /\ ~Linking(r, "link_bill", BillDoc(b))
             \/ bills'[b].entry \in EntriesOf(BillDoc(b), "create")
  <2>1. bills \in Seq(BillRow) /\ bills[k] \in BillRow
    BY ElementOf DEF Shapes, TypeOK
  <2>2. bills'[k].entry = task[r].entry /\ task[r].entry \in EntriesOf(BillDoc(k), "create")
    BY <1>3, <2>1 DEF LinkBillDoes, BillBecomes, BillRow
  <2>3. CASE b = k
    BY <2>2, <2>3
  <2>4. CASE b # k
    BY <1>3, <2>4 DEF LinkBillDoes, BillBecomes, Linking, BillDoc
  <2>5. QED
    BY <2>3, <2>4
<1>4. ASSUME NEW k \in DOMAIN bills, MarkPaidDoes(r, k), pc[r] = "mark_paid"
      PROVE  /\ b \in DOMAIN bills /\ bills'[b].entry = bills[b].entry
             /\ ~Linking(r, "link_bill", BillDoc(b))
  <2>1. bills \in Seq(BillRow) /\ bills[k] \in BillRow
    BY ElementOf DEF Shapes, TypeOK
  <2>2. bills'[k].entry = bills[k].entry
    BY <1>4, <2>1 DEF MarkPaidDoes, BillBecomes, BillRow
  <2>3. QED
    BY <1>4, <2>2 DEF MarkPaidDoes, BillBecomes, Linking
<1>5. \/ UNCHANGED bills /\ ~(pc[r] = "link_bill" /\ pc'[r] = "done")
      \/ PostBillDoes(r) /\ pc[r] = "post_bill"
      \/ \E k \in DOMAIN bills : LinkBillDoes(r, k)
      \/ pc[r] = "mark_paid" /\ \E k \in DOMAIN bills : MarkPaidDoes(r, k)
  <2>1. StopsDoes(r) => UNCHANGED bills /\ pc'[r] # "done"
    BY DEF StopsDoes, rows, billVars, Moved
  <2>2. QED
    BY <2>1 DEF CallDoes, BeginsDoes, CreateVendorDoes, PostPaymentDoes, PostInvoiceDoes,
       LinkInvoiceDoes, PostTxnDoes, ResolveDoes, rows, billVars
<1>6. QED
  BY <1>1, <1>2, <1>3, <1>4, <1>5

LEMMA InvoicesAfter ==
  ASSUME Shapes, NEW r \in Requests, CallDoes(r), NEW n \in DOMAIN invoices'
  PROVE  \/ /\ n \in DOMAIN invoices /\ invoices'[n].entry = invoices[n].entry
            /\ ~Linking(r, "link_invoice", InvoiceDoc(n))
         \/ invoices'[n].entry \in EntriesOf(InvoiceDoc(n), "create")
         \/ invoices'[n].entry = 0 /\ task'[r].doc = InvoiceDoc(n) /\ pc'[r] = "link_invoice"
<1>1. CASE UNCHANGED invoices /\ ~(pc[r] = "link_invoice" /\ pc'[r] = "done")
  BY <1>1 DEF Linking
<1>2. CASE PostInvoiceDoes(r) /\ pc[r] = "post_invoice"
  BY <1>2 DEF PostInvoiceDoes, Moved, Linking
<1>3. ASSUME NEW k \in DOMAIN invoices, LinkInvoiceDoes(r, k)
      PROVE  \/ /\ n \in DOMAIN invoices /\ invoices'[n].entry = invoices[n].entry
                /\ ~Linking(r, "link_invoice", InvoiceDoc(n))
             \/ invoices'[n].entry \in EntriesOf(InvoiceDoc(n), "create")
  <2>1. invoices \in Seq(InvoiceRow) /\ invoices[k] \in InvoiceRow
    BY ElementOf DEF Shapes, TypeOK
  <2>2. invoices'[k].entry = task[r].entry /\ task[r].entry \in EntriesOf(InvoiceDoc(k), "create")
    BY <1>3, <2>1 DEF LinkInvoiceDoes, InvoiceRow
  <2>3. CASE n = k
    BY <2>2, <2>3
  <2>4. CASE n # k
    BY <1>3, <2>4 DEF LinkInvoiceDoes, Linking, InvoiceDoc
  <2>5. QED
    BY <2>3, <2>4
<1>5. \/ UNCHANGED invoices /\ ~(pc[r] = "link_invoice" /\ pc'[r] = "done")
      \/ PostInvoiceDoes(r) /\ pc[r] = "post_invoice"
      \/ \E k \in DOMAIN invoices : LinkInvoiceDoes(r, k)
  <2>1. StopsDoes(r) => UNCHANGED invoices /\ pc'[r] # "done"
    BY DEF StopsDoes, rows, Moved
  <2>2. QED
    BY <2>1 DEF CallDoes, BeginsDoes, CreateVendorDoes, PostBillDoes, LinkBillDoes,
       PostPaymentDoes, MarkPaidDoes, PostTxnDoes, ResolveDoes, rows
<1>6. QED
  BY <1>1, <1>2, <1>3, <1>5

LEMMA TxnsAfter ==
  ASSUME Shapes, NEW r \in Requests, CallDoes(r), NEW n \in DOMAIN txns'
  PROVE  \/ /\ n \in DOMAIN txns /\ txns'[n].entry = txns[n].entry
            /\ ~(pc[r] \in ToResolve /\ pc'[r] = "done" /\ task[r].doc = TxnDoc(n))
         \/ txns'[n].entry \in EntriesOf(TxnDoc(n), "approve")
<1>1. CASE UNCHANGED txns /\ ~(pc[r] \in ToResolve /\ pc'[r] = "done")
  BY <1>1
<1>2. ASSUME NEW k \in DOMAIN txns, ResolveDoes(r, k)
      PROVE  \/ /\ n \in DOMAIN txns /\ txns'[n].entry = txns[n].entry
                /\ ~(pc[r] \in ToResolve /\ pc'[r] = "done" /\ task[r].doc = TxnDoc(n))
             \/ txns'[n].entry \in EntriesOf(TxnDoc(n), "approve")
  <2>1. txns \in Seq(TxnRow) /\ txns[k] \in TxnRow
    BY ElementOf DEF Shapes, TypeOK
  <2>2. task[r].entry \in EntriesOf(TxnDoc(k), "approve") /\ task[r].entry \in Nat
    BY <1>2, EntriesAreNumbers DEF ResolveDoes, EntriesOf
  <2>3. txns'[k].entry = task[r].entry
    BY <1>2, <2>1, <2>2, ResolvedType DEF ResolveDoes
  <2>4. CASE n = k
    BY <2>2, <2>3, <2>4
  <2>5. CASE n # k
    BY <1>2, <2>5 DEF ResolveDoes, TxnDoc
  <2>6. QED
    BY <2>4, <2>5
<1>3. \/ UNCHANGED txns /\ ~(pc[r] \in ToResolve /\ pc'[r] = "done")
      \/ \E k \in DOMAIN txns : ResolveDoes(r, k)
  <2>1. StopsDoes(r) => UNCHANGED txns /\ pc'[r] # "done"
    BY DEF StopsDoes, rows, bankVars, Moved
  <2>2. QED
    BY <2>1 DEF CallDoes, BeginsDoes, CreateVendorDoes, PostBillDoes, LinkBillDoes, ToResolve,
       PostPaymentDoes, MarkPaidDoes, PostTxnDoes, PostInvoiceDoes, LinkInvoiceDoes, rows,
       bankVars
<1>4. QED
  BY <1>1, <1>2, <1>3

\* What a step adds to the approvals of a transaction and the payments of a bill.
LEMMA ApprovalsAfter ==
  ASSUME Shapes, NEW r \in Requests, CallDoes(r), NEW n
  PROVE  \/ EntriesOf(TxnDoc(n), "approve")' = EntriesOf(TxnDoc(n), "approve")
         \/ pc'[r] \in ToResolve /\ task'[r].doc = TxnDoc(n)
<1>1. CASE UNCHANGED books
  BY <1>1 DEF EntriesOf, EntryIds
<1>2. ASSUME NEW doc, NEW step, NEW lines, PostedFor(doc, step, lines),
             doc # TxnDoc(n) \/ step # "approve"
      PROVE  EntriesOf(TxnDoc(n), "approve")' = EntriesOf(TxnDoc(n), "approve")
  <2>1. EntriesThen(TxnDoc(n), "approve") = EntriesOf(TxnDoc(n), "approve")
    BY <1>2, EntriesAfter
  <2>2. QED
    BY <2>1 DEF EntriesThen, EntriesOf
<1>3. ASSUME NEW k \in DOMAIN txns, PostTxnDoes(r, k)
      PROVE  task'[r].doc = TxnDoc(k) /\ pc'[r] \in ToResolve
  BY <1>3 DEF PostTxnDoes, Moved, ToResolve
<1>4. QED
  BY <1>1, <1>2, <1>3, CallPostsWhat DEF CallPosts

LEMMA PaymentsAfter ==
  ASSUME Shapes, NEW r \in Requests, CallDoes(r), NEW b
  PROVE  \/ EntriesOf(BillDoc(b), "pay")' = EntriesOf(BillDoc(b), "pay")
         \/ pc'[r] = "mark_paid" /\ task'[r].doc = BillDoc(b)
<1>1. CASE UNCHANGED books
  BY <1>1 DEF EntriesOf, EntryIds
<1>2. ASSUME NEW doc, NEW step, NEW lines, PostedFor(doc, step, lines),
             doc # BillDoc(b) \/ step # "pay"
      PROVE  EntriesOf(BillDoc(b), "pay")' = EntriesOf(BillDoc(b), "pay")
  <2>1. EntriesThen(BillDoc(b), "pay") = EntriesOf(BillDoc(b), "pay")
    BY <1>2, EntriesAfter
  <2>2. QED
    BY <2>1 DEF EntriesThen, EntriesOf
<1>3. ASSUME NEW k \in DOMAIN bills, PostPaymentDoes(r, k)
      PROVE  task'[r].doc = BillDoc(k) /\ pc'[r] = "mark_paid"
  BY <1>3 DEF PostPaymentDoes, Moved
<1>4. QED
  BY <1>1, <1>2, <1>3, CallPostsWhat DEF CallPosts

LEMMA PaidAfter ==
  ASSUME Shapes, NEW r \in Requests, CallDoes(r), NEW b \in DOMAIN bills'
  PROVE  \/ /\ b \in DOMAIN bills /\ bills'[b].paid = bills[b].paid
            /\ bills'[b].amount = bills[b].amount
            /\ ~Linking(r, "mark_paid", BillDoc(b))
         \/ /\ b \in DOMAIN bills /\ bills'[b].paid /\ bills'[b].amount = bills[b].amount
            /\ \E i \in EntriesOf(BillDoc(b), "pay") :
                 AccountBalance("payable", books[i].lines) = bills[b].amount
         \/ b \notin DOMAIN bills /\ ~bills'[b].paid
<1>1. CASE UNCHANGED bills /\ ~(pc[r] = "mark_paid" /\ pc'[r] = "done")
  BY <1>1 DEF Linking
<1>2. CASE PostBillDoes(r) /\ pc[r] = "post_bill"
  BY <1>2 DEF PostBillDoes, Moved, Linking
<1>3. ASSUME NEW k \in DOMAIN bills, LinkBillDoes(r, k), pc[r] = "link_bill"
      PROVE  /\ b \in DOMAIN bills /\ bills'[b].paid = bills[b].paid
             /\ bills'[b].amount = bills[b].amount
             /\ ~Linking(r, "mark_paid", BillDoc(b))
  <2>1. bills \in Seq(BillRow) /\ bills[k] \in BillRow
    BY ElementOf DEF Shapes, TypeOK
  <2>2. bills'[k].paid = bills[k].paid /\ bills'[k].amount = bills[k].amount
    BY <1>3, <2>1 DEF LinkBillDoes, BillBecomes, BillRow
  <2>3. QED
    BY <1>3, <2>2 DEF LinkBillDoes, BillBecomes, Linking
<1>4. ASSUME NEW k \in DOMAIN bills, MarkPaidDoes(r, k)
      PROVE  \/ /\ b \in DOMAIN bills /\ bills'[b].paid = bills[b].paid
                /\ bills'[b].amount = bills[b].amount
                /\ ~Linking(r, "mark_paid", BillDoc(b))
             \/ /\ b \in DOMAIN bills /\ bills'[b].paid /\ bills'[b].amount = bills[b].amount
                /\ \E i \in EntriesOf(BillDoc(b), "pay") :
                     AccountBalance("payable", books[i].lines) = bills[b].amount
  <2>1. bills \in Seq(BillRow) /\ bills[k] \in BillRow
    BY ElementOf DEF Shapes, TypeOK
  <2>2. bills'[k].paid /\ bills'[k].amount = bills[k].amount
    BY <1>4, <2>1 DEF MarkPaidDoes, BillBecomes, BillRow
  <2>3. CASE b = k
    BY <1>4, <2>2, <2>3 DEF MarkPaidDoes
  <2>4. CASE b # k
    BY <1>4, <2>4 DEF MarkPaidDoes, BillBecomes, Linking, BillDoc
  <2>5. QED
    BY <2>3, <2>4
<1>5. \/ UNCHANGED bills /\ ~(pc[r] = "mark_paid" /\ pc'[r] = "done")
      \/ PostBillDoes(r) /\ pc[r] = "post_bill"
      \/ pc[r] = "link_bill" /\ \E k \in DOMAIN bills : LinkBillDoes(r, k)
      \/ \E k \in DOMAIN bills : MarkPaidDoes(r, k)
  <2>1. StopsDoes(r) => UNCHANGED bills /\ pc'[r] # "done"
    BY DEF StopsDoes, rows, billVars, Moved
  <2>2. QED
    BY <2>1 DEF CallDoes, BeginsDoes, CreateVendorDoes, PostPaymentDoes, PostInvoiceDoes,
       LinkInvoiceDoes, PostTxnDoes, ResolveDoes, rows, billVars
<1>6. QED
  BY <1>1, <1>2, <1>3, <1>4, <1>5

LEMMA HeldAfter ==
  ASSUME Shapes, NEW r \in Requests, CallDoes(r), NEW labels \in Waits, NEW doc,
         Held(doc, labels), ~(pc[r] \in labels /\ pc'[r] = "done" /\ task[r].doc = doc)
  PROVE  Held(doc, labels)'
<1>1. CASE \A q \in Requests : Stays(q, labels)
  BY <1>1, HeldKept
<1>2. CASE /\ pc[r] \in labels /\ pc'[r] = "done"
           /\ \A q \in Requests \ {r} : Stays(q, labels)
  <2>1. PICK q \in Requests : task[q].doc = doc /\ pc[q] \in labels \cup {"crashed"}
    BY DEF Held
  <2>2. q # r
    BY <1>2, <2>1
  <2>3. QED
    BY <1>2, <2>1, <2>2 DEF Held, Stays
<1>3. QED
  BY <1>1, <1>2, CallStays

LEMMA HeldNow ==
  ASSUME NEW r \in Requests, NEW doc, NEW labels, task'[r].doc = doc, pc'[r] \in labels
  PROVE  Held(doc, labels)'
BY DEF Held

LEMMA LinksNextCall ==
  ASSUME Shapes, Grown, DocsKnown, Links, NEW r \in Requests, CallDoes(r)
  PROVE  Links'
<1>w. {"link_bill"} \in Waits /\ {"link_invoice"} \in Waits /\ {"mark_paid"} \in Waits
      /\ ToResolve \in Waits
  BY DEF Waits
<1>1. BillsLinked'
  <2>1. ASSUME NEW b \in DOMAIN bills'
        PROVE  \/ bills'[b].entry \in EntriesOf(BillDoc(b), "create")'
               \/ bills'[b].entry = 0 /\ Held(BillDoc(b), {"link_bill"})'
    <3>1. CASE /\ b \in DOMAIN bills /\ bills'[b].entry = bills[b].entry
               /\ ~Linking(r, "link_bill", BillDoc(b))
      <4>1. CASE bills[b].entry \in EntriesOf(BillDoc(b), "create")
        BY <3>1, <4>1, EntriesKept
      <4>2. CASE bills[b].entry = 0 /\ Held(BillDoc(b), {"link_bill"})
        <5>1. Held(BillDoc(b), {"link_bill"})'
          BY <1>w, <3>1, <4>2, HeldAfter DEF Linking
        <5>2. QED
          BY <3>1, <4>2, <5>1
      <4>3. QED
        BY <3>1, <4>1, <4>2 DEF Links, BillsLinked
    <3>2. CASE bills'[b].entry \in EntriesOf(BillDoc(b), "create")
      BY <3>2, EntriesKept
    <3>3. CASE bills'[b].entry = 0 /\ task'[r].doc = BillDoc(b) /\ pc'[r] = "link_bill"
      <4>1. pc'[r] \in {"link_bill"}
        BY <3>3
      <4>2. QED
        BY <3>3, <4>1, HeldNow
    <3>4. QED
      BY <3>1, <3>2, <3>3, BillsAfter
  <2>2. QED
    BY <2>1 DEF BillsLinked, BillDoc
<1>2. InvoicesLinked'
  <2>1. ASSUME NEW n \in DOMAIN invoices'
        PROVE  \/ invoices'[n].entry \in EntriesOf(InvoiceDoc(n), "create")'
               \/ invoices'[n].entry = 0 /\ Held(InvoiceDoc(n), {"link_invoice"})'
    <3>1. CASE /\ n \in DOMAIN invoices /\ invoices'[n].entry = invoices[n].entry
               /\ ~Linking(r, "link_invoice", InvoiceDoc(n))
      <4>1. CASE invoices[n].entry \in EntriesOf(InvoiceDoc(n), "create")
        BY <3>1, <4>1, EntriesKept
      <4>2. CASE invoices[n].entry = 0 /\ Held(InvoiceDoc(n), {"link_invoice"})
        <5>1. Held(InvoiceDoc(n), {"link_invoice"})'
          BY <1>w, <3>1, <4>2, HeldAfter DEF Linking
        <5>2. QED
          BY <3>1, <4>2, <5>1
      <4>3. QED
        BY <3>1, <4>1, <4>2 DEF Links, InvoicesLinked
    <3>2. CASE invoices'[n].entry \in EntriesOf(InvoiceDoc(n), "create")
      BY <3>2, EntriesKept
    <3>3. CASE invoices'[n].entry = 0 /\ task'[r].doc = InvoiceDoc(n) /\ pc'[r] = "link_invoice"
      <4>1. pc'[r] \in {"link_invoice"}
        BY <3>3
      <4>2. QED
        BY <3>3, <4>1, HeldNow
    <3>4. QED
      BY <3>1, <3>2, <3>3, InvoicesAfter
  <2>2. QED
    BY <2>1 DEF InvoicesLinked, InvoiceDoc
<1>3. TxnsLinked'
  <2>1. ASSUME NEW n \in DOMAIN txns'
        PROVE  \/ txns'[n].entry \in EntriesOf(TxnDoc(n), "approve")'
               \/ /\ txns'[n].entry = 0
                  /\ EntriesOf(TxnDoc(n), "approve")' # {} => Held(TxnDoc(n), ToResolve)'
    <3>1. CASE /\ n \in DOMAIN txns /\ txns'[n].entry = txns[n].entry
               /\ ~(pc[r] \in ToResolve /\ pc'[r] = "done" /\ task[r].doc = TxnDoc(n))
      <4>1. CASE txns[n].entry \in EntriesOf(TxnDoc(n), "approve")
        BY <3>1, <4>1, EntriesKept
      <4>2. CASE /\ txns[n].entry = 0
                 /\ EntriesOf(TxnDoc(n), "approve") # {} => Held(TxnDoc(n), ToResolve)
        <5>1. ASSUME EntriesOf(TxnDoc(n), "approve")' # {}
              PROVE  Held(TxnDoc(n), ToResolve)'
          <6>1. CASE EntriesOf(TxnDoc(n), "approve")' = EntriesOf(TxnDoc(n), "approve")
            BY <1>w, <3>1, <4>2, <5>1, <6>1, HeldAfter
          <6>2. CASE pc'[r] \in ToResolve /\ task'[r].doc = TxnDoc(n)
            BY <6>2, HeldNow
          <6>3. QED
            BY <6>1, <6>2, ApprovalsAfter
        <5>2. QED
          BY <3>1, <4>2, <5>1
      <4>3. QED
        BY <3>1, <4>1, <4>2 DEF Links, TxnsLinked
    <3>2. CASE txns'[n].entry \in EntriesOf(TxnDoc(n), "approve")
      BY <3>2, EntriesKept
    <3>3. QED
      BY <3>1, <3>2, TxnsAfter
  <2>2. QED
    BY <2>1 DEF TxnsLinked, TxnDoc
<1>4. PaymentsMarked'
  <2>1. ASSUME NEW b \in DOMAIN bills', bills'[b].paid
        PROVE  \E i \in EntriesOf(BillDoc(b), "pay")' :
                 AccountBalance("payable", books'[i].lines) = bills'[b].amount
    <3>1. /\ b \in DOMAIN bills /\ bills'[b].amount = bills[b].amount
          /\ \E i \in EntriesOf(BillDoc(b), "pay") :
               AccountBalance("payable", books[i].lines) = bills[b].amount
      BY <2>1, PaidAfter DEF Links, PaymentsMarked
    <3>2. PICK i \in EntriesOf(BillDoc(b), "pay") :
            AccountBalance("payable", books[i].lines) = bills[b].amount
      BY <3>1
    <3>3. i \in EntriesOf(BillDoc(b), "pay")' /\ books'[i] = books[i]
      BY EntriesKept DEF Grown, EntriesOf
    <3>4. QED
      BY <3>1, <3>2, <3>3
  <2>2. ASSUME NEW b \in DOMAIN bills', EntriesOf(BillDoc(b), "pay")' # {}, ~bills'[b].paid
        PROVE  Held(BillDoc(b), {"mark_paid"})'
    <3>1. CASE pc'[r] = "mark_paid" /\ task'[r].doc = BillDoc(b)
      <4>1. pc'[r] \in {"mark_paid"}
        BY <3>1
      <4>2. QED
        BY <3>1, <4>1, HeldNow
    <3>2. CASE EntriesOf(BillDoc(b), "pay")' = EntriesOf(BillDoc(b), "pay")
      <4>1. b \in DOMAIN bills
        <5>1. SUFFICES ASSUME b \notin DOMAIN bills PROVE FALSE
          OBVIOUS
        <5>2. ~Recorded(BillDoc(b))
          BY <5>1 DEF Recorded, BillDoc, InvoiceDoc, TxnDoc
        <5>3. QED
          BY <2>2, <3>2, <5>2, NoEntriesYet
      <4>2. ~bills[b].paid /\ ~Linking(r, "mark_paid", BillDoc(b))
        BY <2>2, <4>1, PaidAfter
      <4>3. Held(BillDoc(b), {"mark_paid"})
        BY <2>2, <3>2, <4>1, <4>2 DEF Links, PaymentsMarked
      <4>4. QED
        BY <1>w, <4>2, <4>3, HeldAfter DEF Linking
    <3>3. QED
      BY <3>1, <3>2, PaymentsAfter
  <2>3. QED
    BY <2>1, <2>2 DEF PaymentsMarked, BillDoc
<1>5. QED
  BY <1>1, <1>2, <1>3, <1>4 DEF Links

LEMMA LinksSame ==
  ASSUME Links, UNCHANGED <<books, pc, task, bills, invoices, txns>>
  PROVE  Links'
BY DEF Links, BillsLinked, InvoicesLinked, TxnsLinked, PaymentsMarked, Held, EntriesOf, EntryIds

LEMMA LinksNextWorker ==
  ASSUME Shapes, DocsKnown, Links, NEW j \in Jobs, WorkerDoes(j)
  PROVE  Links'
<1>1. UNCHANGED <<books, pc, task, bills, invoices>>
  BY DEF WorkerDoes, docVars, billVars
<1>2. CASE UNCHANGED txns
  BY <1>1, <1>2, LinksSame
<1>3. CASE WorkerCommits(j)
  <2>1. BillsLinked' /\ InvoicesLinked' /\ PaymentsMarked'
    BY <1>1 DEF Links, BillsLinked, InvoicesLinked, PaymentsMarked, Held, EntriesOf, EntryIds
  <2>2. txns \in Seq(TxnRow) /\ Added(j) \in Seq(TxnRow) /\ txns' = txns \o Added(j)
    BY <1>3 DEF WorkerCommits, Shapes, TypeOK
  <2>3. ASSUME NEW n \in DOMAIN txns'
        PROVE  \/ n \in DOMAIN txns /\ txns'[n] = txns[n]
               \/ n \notin DOMAIN txns /\ \E k \in DOMAIN Added(j) : txns'[n] = Added(j)[k]
    <3>1. CASE n \in DOMAIN txns
      BY <2>2, <3>1
    <3>2. CASE n \notin DOMAIN txns
      <4> DEFINE k == n - Len(txns)
      <4>1. k \in DOMAIN Added(j) /\ txns'[n] = Added(j)[k]
        BY <2>2, <3>2
      <4>2. QED
        BY <3>2, <4>1
    <3>3. QED
      BY <3>1, <3>2
  <2>4. \A k \in DOMAIN Added(j) : Added(j)[k].entry = 0
    BY DEF Added, Categorized
  <2>5. ASSUME NEW n \in DOMAIN txns'
        PROVE  \/ txns'[n].entry \in EntriesOf(TxnDoc(n), "approve")
               \/ /\ txns'[n].entry = 0
                  /\ EntriesOf(TxnDoc(n), "approve") # {} => Held(TxnDoc(n), ToResolve)
    <3>1. CASE n \in DOMAIN txns /\ txns'[n] = txns[n]
      BY <3>1 DEF Links, TxnsLinked
    <3>2. CASE n \notin DOMAIN txns /\ txns'[n].entry = 0
      <4>1. ~Recorded(TxnDoc(n))
        BY <3>2 DEF Recorded, BillDoc, InvoiceDoc, TxnDoc
      <4>2. QED
        BY <3>2, <4>1, NoEntriesYet
    <3>3. QED
      BY <2>3, <2>4, <3>1, <3>2
  <2>6. TxnsLinked'
    BY <1>1, <2>5 DEF TxnsLinked, Held, EntriesOf, EntryIds
  <2>7. QED
    BY <2>1, <2>6 DEF Links
<1>4. QED
  BY <1>2, <1>3 DEF WorkerDoes, WorkerMoves, WorkerLoads

LEMMA LinksInit ==
  ASSUME Init
  PROVE  Links
<1>1. /\ DOMAIN books = DOMAIN OpenBills /\ DOMAIN bills = DOMAIN OpenBills
      /\ \A b \in DOMAIN OpenBills :
           /\ books[b].doc = BillDoc(b) /\ books[b].step = "create"
           /\ bills[b].entry = b /\ ~bills[b].paid
  BY DEF Init, BillsInit
<1>2. invoices = <<>> /\ txns = <<>>
  BY DEF Init, InvoicesInit, BankInit
<1>3. BillsLinked /\ PaymentsMarked
  BY <1>1 DEF BillsLinked, PaymentsMarked, EntriesOf, EntryIds
<1>4. QED
  BY <1>2, <1>3 DEF Links, InvoicesLinked, TxnsLinked

\* The inductive invariant: what each call still has to write is told by what
\* the documents do not say yet.
LinksInv == Shapes /\ DocsKnown /\ Links

LEMMA LinksInvNext ==
  ASSUME LinksInv, [Next]_vars
  PROVE  LinksInv'
<1>1. Shapes' /\ Grown
  BY ShapesNext DEF LinksInv
<1>2. DocsKnown'
  BY <1>1, DocsKnownNext DEF LinksInv
<1>3. Links'
  <2>1. CASE UNCHANGED vars
    BY <2>1, LinksSame DEF LinksInv, vars
  <2>2. CASE Next
    BY <1>1, <2>2, StepCases, LinksNextCall, LinksNextWorker DEF LinksInv
  <2>3. QED
    BY <2>1, <2>2
<1>4. QED
  BY <1>1, <1>2, <1>3 DEF LinksInv

LEMMA LinksInvAlways == Spec => []LinksInv
<1>1. Init => LinksInv
  BY ShapesInit, DocsKnownInit, LinksInit DEF LinksInv
<1>2. LinksInv /\ [Next]_vars => LinksInv'
  BY LinksInvNext
<1>3. QED
  BY <1>1, <1>2, PTL DEF Spec

LEMMA HeldIsUnfinished ==
  ASSUME NEW doc, NEW labels \in Waits, Held(doc, labels)
  PROVE  Unfinished(doc)
BY DEF Waits, ToResolve, Held, Unfinished

\* A bill, an invoice or a bank transaction points at an entry posted for it
\* and for no other; one that does not, though its entry is on record, belongs
\* to a call between its two commits or stopped there (create_bill,
\* create_invoice, approve_transaction).
THEOREM DocumentsPointAtTheirEntries == Spec => []LinksAreRight
<1>1. LinksInv => LinksAreRight
  <2>1. {"link_bill"} \in Waits /\ {"link_invoice"} \in Waits /\ ToResolve \in Waits
    BY DEF Waits
  <2>2. QED
    BY <2>1, HeldIsUnfinished DEF LinksInv, Links, BillsLinked, InvoicesLinked, TxnsLinked,
       LinksAreRight
<1>2. QED
  BY <1>1, LinksInvAlways, PTL

\* A bill that says it is paid has a payment of its amount in the books, and a
\* payment whose bill says it is open is that of a call that has not finished
\* (pay_bill, purchases/services.py:118-122).
THEOREM PaidBillsHavePayments == Spec => []PaidMeansPosted
<1>1. LinksInv => PaidMeansPosted
  <2>1. {"mark_paid"} \in Waits
    BY DEF Waits
  <2>2. QED
    BY <2>1, HeldIsUnfinished DEF LinksInv, Links, PaymentsMarked, PaidMeansPosted
<1>2. QED
  BY <1>1, LinksInvAlways, PTL

-----------------------------------------------------------------------------
(* The trail and the documents *)

LinkedBills    == {b \in DOMAIN bills : bills[b].entry # 0}
PaidBills      == {b \in DOMAIN bills : bills[b].paid}
LinkedInvoices == {n \in DOMAIN invoices : invoices[n].entry # 0}

Told(v, linked, paid, sent) ==
  {<<<<"vendor", x>>, "create">> : x \in 1..v}
  \cup {<<BillDoc(b), "create">> : b \in linked}
  \cup {<<BillDoc(b), "pay">> : b \in paid}
  \cup {<<InvoiceDoc(n), "create">> : n \in sent}

LEMMA AuditIsTold == AuditTellsDocuments <=> audit = Told(vendors, LinkedBills, PaidBills,
                                                          LinkedInvoices)
BY DEF AuditTellsDocuments, Told, LinkedBills, PaidBills, LinkedInvoices

LEMMA ToldMore ==
  ASSUME NEW v \in Nat, NEW linked, NEW paid, NEW sent
  PROVE  /\ Told(v + 1, linked, paid, sent)
              = Told(v, linked, paid, sent) \cup {<<<<"vendor", v + 1>>, "create">>}
         /\ \A b : Told(v, linked \cup {b}, paid, sent)
                     = Told(v, linked, paid, sent) \cup {<<BillDoc(b), "create">>}
         /\ \A b : Told(v, linked, paid \cup {b}, sent)
                     = Told(v, linked, paid, sent) \cup {<<BillDoc(b), "pay">>}
         /\ \A n : Told(v, linked, paid, sent \cup {n})
                     = Told(v, linked, paid, sent) \cup {<<InvoiceDoc(n), "create">>}
<1>1. 1..(v + 1) = (1..v) \cup {v + 1}
  OBVIOUS
<1>2. {<<<<"vendor", x>>, "create">> : x \in 1..(v + 1)}
      = {<<<<"vendor", x>>, "create">> : x \in 1..v} \cup {<<<<"vendor", v + 1>>, "create">>}
  BY <1>1
<1>3. \A b : {<<BillDoc(k), "create">> : k \in linked \cup {b}}
             = {<<BillDoc(k), "create">> : k \in linked} \cup {<<BillDoc(b), "create">>}
  OBVIOUS
<1>4. \A b : {<<BillDoc(k), "pay">> : k \in paid \cup {b}}
             = {<<BillDoc(k), "pay">> : k \in paid} \cup {<<BillDoc(b), "pay">>}
  OBVIOUS
<1>5. \A n : {<<InvoiceDoc(k), "create">> : k \in sent \cup {n}}
             = {<<InvoiceDoc(k), "create">> : k \in sent} \cup {<<InvoiceDoc(n), "create">>}
  OBVIOUS
<1>6. QED
  BY <1>2, <1>3, <1>4, <1>5 DEF Told

\* A step that tells nothing leaves the documents as they were told.
Untold == /\ UNCHANGED <<audit, vendors>> /\ LinkedBills' = LinkedBills
          /\ PaidBills' = PaidBills /\ LinkedInvoices' = LinkedInvoices

LEMMA UntoldKept ==
  ASSUME AuditTellsDocuments, Untold
  PROVE  AuditTellsDocuments'
<1>1. (audit = Told(vendors, LinkedBills, PaidBills, LinkedInvoices))'
  BY AuditIsTold DEF Untold, Told
<1>2. (AuditTellsDocuments <=> audit = Told(vendors, LinkedBills, PaidBills, LinkedInvoices))'
  BY AuditIsTold, PTL
<1>3. QED
  BY <1>1, <1>2

LEMMA AuditNextCall ==
  ASSUME Shapes, AuditTellsDocuments, NEW r \in Requests, CallDoes(r)
  PROVE  AuditTellsDocuments'
<1>0. vendors \in Nat /\ audit = Told(vendors, LinkedBills, PaidBills, LinkedInvoices)
  BY AuditIsTold DEF Shapes, TypeOK
<1>a. (audit = Told(vendors, LinkedBills, PaidBills, LinkedInvoices))' => AuditTellsDocuments'
  <2>1. (AuditTellsDocuments <=> audit = Told(vendors, LinkedBills, PaidBills, LinkedInvoices))'
    BY AuditIsTold, PTL
  <2>2. QED
    BY <2>1
<1>1. CASE UNCHANGED <<audit, vendors, bills, invoices>>
  <2>1. Untold
    BY <1>1 DEF Untold, LinkedBills, PaidBills, LinkedInvoices
  <2>2. QED
    BY <2>1, UntoldKept
<1>2. CASE CreateVendorDoes(r)
  <2>1. LinkedBills' = LinkedBills /\ PaidBills' = PaidBills /\ LinkedInvoices' = LinkedInvoices
    BY <1>2 DEF CreateVendorDoes, LinkedBills, PaidBills, LinkedInvoices
  <2>2. audit' = Told(vendors + 1, LinkedBills, PaidBills, LinkedInvoices)
    BY <1>0, <1>2, ToldMore DEF CreateVendorDoes
  <2>3. vendors' = vendors + 1
    BY <1>2 DEF CreateVendorDoes
  <2>4. audit' = Told(vendors', LinkedBills', PaidBills', LinkedInvoices')
    BY <2>1, <2>2, <2>3
  <2>5. QED
    BY <1>a, <2>4 DEF Told
<1>3. CASE PostBillDoes(r)
  <2>1. LinkedBills' = LinkedBills /\ PaidBills' = PaidBills
    BY <1>3 DEF PostBillDoes, LinkedBills, PaidBills
  <2>2. LinkedInvoices' = LinkedInvoices /\ UNCHANGED <<audit, vendors>>
    BY <1>3 DEF PostBillDoes, LinkedInvoices
  <2>3. QED
    BY <2>1, <2>2, UntoldKept DEF Untold
<1>4. ASSUME NEW b \in DOMAIN bills, LinkBillDoes(r, b) PROVE AuditTellsDocuments'
  <2>1. bills \in Seq(BillRow) /\ bills[b] \in BillRow
    BY ElementOf DEF Shapes, TypeOK
  <2>2. task[r].entry # 0
    BY <1>4, EntriesAreNumbers DEF LinkBillDoes, EntriesOf
  <2>3. bills'[b].entry = task[r].entry /\ bills'[b].paid = bills[b].paid
    BY <1>4, <2>1 DEF LinkBillDoes, BillBecomes, BillRow
  <2>4. LinkedBills' = LinkedBills \cup {b}
    BY <1>4, <2>2, <2>3 DEF LinkBillDoes, BillBecomes, LinkedBills
  <2>5. PaidBills' = PaidBills
    BY <1>4, <2>3 DEF LinkBillDoes, BillBecomes, PaidBills
  <2>6. LinkedInvoices' = LinkedInvoices /\ vendors' = vendors
        /\ audit' = audit \cup {<<BillDoc(b), "create">>}
    BY <1>4 DEF LinkBillDoes, LinkedInvoices
  <2>7. audit' = Told(vendors, LinkedBills \cup {b}, PaidBills, LinkedInvoices)
    BY <1>0, <2>6, ToldMore
  <2>8. audit' = Told(vendors', LinkedBills', PaidBills', LinkedInvoices')
    BY <2>4, <2>5, <2>6, <2>7
  <2>9. QED
    BY <1>a, <2>8 DEF Told
<1>5. ASSUME NEW b \in DOMAIN bills, MarkPaidDoes(r, b) PROVE AuditTellsDocuments'
  <2>1. bills \in Seq(BillRow) /\ bills[b] \in BillRow
    BY ElementOf DEF Shapes, TypeOK
  <2>3. bills'[b].entry = bills[b].entry /\ bills'[b].paid
    BY <1>5, <2>1 DEF MarkPaidDoes, BillBecomes, BillRow
  <2>4. LinkedBills' = LinkedBills
    BY <1>5, <2>3 DEF MarkPaidDoes, BillBecomes, LinkedBills
  <2>5. PaidBills' = PaidBills \cup {b}
    BY <1>5, <2>3 DEF MarkPaidDoes, BillBecomes, PaidBills
  <2>6. LinkedInvoices' = LinkedInvoices /\ vendors' = vendors
        /\ audit' = audit \cup {<<BillDoc(b), "pay">>}
    BY <1>5 DEF MarkPaidDoes, LinkedInvoices
  <2>7. audit' = Told(vendors, LinkedBills, PaidBills \cup {b}, LinkedInvoices)
    BY <1>0, <2>6, ToldMore
  <2>8. audit' = Told(vendors', LinkedBills', PaidBills', LinkedInvoices')
    BY <2>4, <2>5, <2>6, <2>7
  <2>9. QED
    BY <1>a, <2>8 DEF Told
<1>6. CASE PostInvoiceDoes(r)
  <2>1. LinkedInvoices' = LinkedInvoices
    BY <1>6 DEF PostInvoiceDoes, LinkedInvoices
  <2>2. /\ LinkedBills' = LinkedBills /\ PaidBills' = PaidBills /\ UNCHANGED <<audit, vendors>>
    BY <1>6 DEF PostInvoiceDoes, LinkedBills, PaidBills
  <2>3. QED
    BY <2>1, <2>2, UntoldKept DEF Untold
<1>7. ASSUME NEW n \in DOMAIN invoices, LinkInvoiceDoes(r, n) PROVE AuditTellsDocuments'
  <2>1. invoices \in Seq(InvoiceRow) /\ invoices[n] \in InvoiceRow
    BY ElementOf DEF Shapes, TypeOK
  <2>2. task[r].entry # 0
    BY <1>7, EntriesAreNumbers DEF LinkInvoiceDoes, EntriesOf
  <2>3. invoices'[n].entry = task[r].entry
    BY <1>7, <2>1 DEF LinkInvoiceDoes, InvoiceRow
  <2>4. LinkedInvoices' = LinkedInvoices \cup {n}
    BY <1>7, <2>2, <2>3 DEF LinkInvoiceDoes, LinkedInvoices
  <2>5. LinkedBills' = LinkedBills /\ PaidBills' = PaidBills /\ vendors' = vendors
        /\ audit' = audit \cup {<<InvoiceDoc(n), "create">>}
    BY <1>7 DEF LinkInvoiceDoes, LinkedBills, PaidBills
  <2>7. audit' = Told(vendors, LinkedBills, PaidBills, LinkedInvoices \cup {n})
    BY <1>0, <2>5, ToldMore
  <2>8. audit' = Told(vendors', LinkedBills', PaidBills', LinkedInvoices')
    BY <2>4, <2>5, <2>7
  <2>9. QED
    BY <1>a, <2>8 DEF Told
<1>8. \/ UNCHANGED <<audit, vendors, bills, invoices>> \/ CreateVendorDoes(r)
      \/ PostBillDoes(r) \/ PostInvoiceDoes(r)
      \/ \E b \in DOMAIN bills : LinkBillDoes(r, b) \/ MarkPaidDoes(r, b)
      \/ \E n \in DOMAIN invoices : LinkInvoiceDoes(r, n)
  BY DEF CallDoes, BeginsDoes, StopsDoes, rows, billVars, PostPaymentDoes, PostTxnDoes,
     ResolveDoes
<1>9. QED
  BY <1>1, <1>2, <1>3, <1>4, <1>5, <1>6, <1>7, <1>8

\* The trail tells what the documents say, no more and no less, at every
\* moment and wherever a call stops: an event is committed with what it tells
\* (core/audit.py:49-51).
THEOREM TrailTellsDocuments == Spec => []AuditTellsDocuments
<1>1. Init => AuditTellsDocuments
  <2> SUFFICES ASSUME Init PROVE AuditTellsDocuments
    OBVIOUS
  <2>1. LinkedBills = DOMAIN OpenBills /\ PaidBills = {} /\ LinkedInvoices = {}
    <3>1. /\ DOMAIN bills = DOMAIN OpenBills /\ invoices = <<>>
          /\ \A b \in DOMAIN OpenBills : bills[b].entry = b /\ ~bills[b].paid
      BY DEF Init, BillsInit, InvoicesInit
    <3>2. \A b \in DOMAIN OpenBills : b # 0
      BY BillsAssumption
    <3>3. LinkedBills = DOMAIN OpenBills
      BY <3>1, <3>2 DEF LinkedBills
    <3>4. PaidBills = {}
      BY <3>1 DEF PaidBills
    <3>5. LinkedInvoices = {}
      BY <3>1 DEF LinkedInvoices
    <3>6. QED
      BY <3>3, <3>4, <3>5
  <2>2. audit = {<<BillDoc(b), "create">> : b \in DOMAIN OpenBills}
                  \cup {<<<<"vendor", v>>, "create">> : v \in 1..vendors}
    BY DEF Init, BillsInit
  <2>3. audit = Told(vendors, LinkedBills, PaidBills, LinkedInvoices)
    BY <2>1, <2>2 DEF Told
  <2>4. QED
    BY <2>3, AuditIsTold
<1>2. Shapes /\ AuditTellsDocuments /\ [Next]_vars => AuditTellsDocuments'
  <2> SUFFICES ASSUME Shapes, AuditTellsDocuments, [Next]_vars PROVE AuditTellsDocuments'
    OBVIOUS
  <2>1. CASE UNCHANGED vars
    <3>1. Untold
      BY <2>1 DEF vars, Untold, LinkedBills, PaidBills, LinkedInvoices
    <3>2. QED
      BY <3>1, UntoldKept
  <2>2. ASSUME NEW j \in Jobs, WorkerDoes(j) PROVE AuditTellsDocuments'
    <3>1. Untold
      BY <2>2 DEF WorkerDoes, docVars, billVars, Untold, LinkedBills, PaidBills, LinkedInvoices
    <3>2. QED
      BY <3>1, UntoldKept
  <2>3. QED
    BY <2>1, <2>2, StepCases, AuditNextCall
<1>3. QED
  BY <1>1, <1>2, ShapesAlways, PTL DEF Spec

-----------------------------------------------------------------------------
(* Why a transaction is off the review queue *)

\* The rules a worker has loaded are still there: none is changed or removed.
LoadedRulesKnown ==
  \A j \in Jobs : job[j].state = "running" =>
    \A k \in DOMAIN job[j].rules : \E i \in DOMAIN rules : rules[i] = job[j].rules[k]

LEMMA RulesGrow ==
  ASSUME Shapes, NEW r \in Requests, CallDoes(r)
  PROVE  /\ DOMAIN rules \subseteq DOMAIN rules' /\ \A i \in DOMAIN rules : rules'[i] = rules[i]
         /\ UNCHANGED job
<1>1. CASE UNCHANGED <<rules, job>>
  BY <1>1
<1>2. ASSUME NEW n \in DOMAIN txns, ResolveDoes(r, n)
      PROVE  /\ DOMAIN rules \subseteq DOMAIN rules' /\ \A i \in DOMAIN rules : rules'[i] = rules[i]
             /\ UNCHANGED job
  <2> DEFINE rule == [pattern |-> task[r].read.desc, account |-> task[r].account]
  <2>1. rules' = rules \/ rules' = Append(rules, rule)
    BY <1>2 DEF ResolveDoes
  <2>2. UNCHANGED job
    BY <1>2 DEF ResolveDoes
  <2>3. rules \in Seq(RuleRow)
    BY DEF Shapes, TypeOK
  <2>. HIDE DEF rule
  <2>4. QED
    BY <2>1, <2>2, <2>3
<1>3. UNCHANGED <<rules, job>> \/ \E n \in DOMAIN txns : ResolveDoes(r, n)
  BY DEF CallDoes, BeginsDoes, CreateVendorDoes, StopsDoes, rows, PostBillDoes, LinkBillDoes,
     PostPaymentDoes, MarkPaidDoes, PostInvoiceDoes, LinkInvoiceDoes, PostTxnDoes, bankVars
<1>4. QED
  BY <1>1, <1>2, <1>3

LEMMA TxnsByCall ==
  ASSUME Shapes, NEW r \in Requests, CallDoes(r)
  PROVE  UNCHANGED txns \/ \E n \in DOMAIN txns : ResolveDoes(r, n)
BY DEF CallDoes, BeginsDoes, CreateVendorDoes, StopsDoes, rows, PostBillDoes, LinkBillDoes,
   PostPaymentDoes, MarkPaidDoes, PostInvoiceDoes, LinkInvoiceDoes, PostTxnDoes, bankVars

\* What is imported stands after what was there.
LEMMA TxnsByCommit ==
  ASSUME Shapes, NEW j \in Jobs, WorkerCommits(j)
  PROVE  /\ DOMAIN txns' = DOMAIN txns \cup {Len(txns) + k : k \in DOMAIN Added(j)}
         /\ \A n \in DOMAIN txns : txns'[n] = txns[n]
         /\ \A k \in DOMAIN Added(j) : /\ Len(txns) + k \notin DOMAIN txns
                                       /\ txns'[Len(txns) + k] = Added(j)[k]
<1>1. txns \in Seq(TxnRow) /\ Added(j) \in Seq(TxnRow) /\ txns' = txns \o Added(j)
  BY DEF WorkerCommits, Shapes, TypeOK
<1>2. /\ Len(txns) \in Nat /\ Len(Added(j)) \in Nat
      /\ DOMAIN txns = 1..Len(txns) /\ DOMAIN Added(j) = 1..Len(Added(j))
      /\ DOMAIN txns' = 1..(Len(txns) + Len(Added(j)))
  BY <1>1
<1>3. /\ \A n \in DOMAIN txns : txns'[n] = txns[n]
      /\ \A k \in DOMAIN Added(j) : /\ Len(txns) + k \notin DOMAIN txns
                                    /\ txns'[Len(txns) + k] = Added(j)[k]
  BY <1>1, <1>2
<1>4. DOMAIN txns' = DOMAIN txns \cup {Len(txns) + k : k \in DOMAIN Added(j)}
  <2>1. ASSUME NEW n \in DOMAIN txns', n \notin DOMAIN txns
        PROVE  n \in {Len(txns) + k : k \in DOMAIN Added(j)}
    <3>1. n - Len(txns) \in DOMAIN Added(j) /\ n = Len(txns) + (n - Len(txns))
      BY <1>2, <2>1
    <3>2. QED
      BY <3>1
  <2>2. DOMAIN txns \subseteq DOMAIN txns'
        /\ \A k \in DOMAIN Added(j) : Len(txns) + k \in DOMAIN txns'
    BY <1>2
  <2>3. QED
    BY <2>1, <2>2
<1>5. QED
  BY <1>3, <1>4

LEMMA JobAfter ==
  ASSUME Shapes, NEW j \in Jobs, NEW to, JobBecomes(j, [job[j] EXCEPT !.state = to])
  PROVE  /\ job'[j].state = to /\ job'[j].rules = job[j].rules /\ job'[j].tries = job[j].tries
         /\ \A i \in Jobs \ {j} : job'[i] = job[i]
<1>1. job[j] \in JobRow
  BY DEF Shapes, TypeOK
<1>2. QED
  BY <1>1 DEF JobBecomes, JobRow

LEMMA LoadedRulesNext ==
  ASSUME Shapes, LoadedRulesKnown, [Next]_vars
  PROVE  LoadedRulesKnown'
<1>1. ASSUME NEW r \in Requests, CallDoes(r) PROVE LoadedRulesKnown'
  <2>1. /\ DOMAIN rules \subseteq DOMAIN rules' /\ \A i \in DOMAIN rules : rules'[i] = rules[i]
        /\ UNCHANGED job
    BY <1>1, RulesGrow
  <2>2. QED
    BY <2>1 DEF LoadedRulesKnown
<1>2. ASSUME NEW j \in Jobs, WorkerDoes(j) PROVE LoadedRulesKnown'
  <2>0. UNCHANGED rules
    BY <1>2 DEF WorkerDoes
  <2>1. CASE WorkerMoves(j)
    <3>1. PICK from, to : /\ <<from, to>> \in JobMoveSet
                          /\ JobBecomes(j, [job[j] EXCEPT !.state = to])
      BY <2>1 DEF WorkerMoves
    <3>2. to # "running"
      BY <3>1 DEF JobMoveSet
    <3>3. job'[j].state # "running" /\ \A i \in Jobs \ {j} : job'[i] = job[i]
      BY <3>1, <3>2, JobAfter
    <3>4. QED
      BY <2>0, <3>3 DEF LoadedRulesKnown
  <2>2. CASE WorkerLoads(j)
    <3>1. PICK order \in Bijection(DOMAIN rules, DOMAIN rules) :
            JobBecomes(j, [state |-> "running", rules |-> Reordered(order),
                           tries |-> job[j].tries + 1])
      BY <2>2 DEF WorkerLoads
    <3>2. job'[j].rules = Reordered(order) /\ \A i \in Jobs \ {j} : job'[i] = job[i]
      BY <3>1 DEF JobBecomes
    <3>3. \A k \in DOMAIN rules : order[k] \in DOMAIN rules
      BY DEF Bijection, Injection
    <3>4. \A k \in DOMAIN Reordered(order) : \E i \in DOMAIN rules : rules[i] = Reordered(order)[k]
      BY <3>3 DEF Reordered
    <3>5. QED
      BY <2>0, <3>2, <3>4 DEF LoadedRulesKnown
  <2>3. CASE WorkerCommits(j)
    <3>1. JobBecomes(j, [job[j] EXCEPT !.state = "committed"])
      BY <2>3 DEF WorkerCommits
    <3>2. job'[j].state = "committed" /\ \A i \in Jobs \ {j} : job'[i] = job[i]
      BY <3>1, JobAfter
    <3>3. QED
      BY <2>0, <3>2 DEF LoadedRulesKnown
  <2>4. QED
    BY <1>2, <2>1, <2>2, <2>3 DEF WorkerDoes
<1>3. CASE UNCHANGED vars
  BY <1>3 DEF LoadedRulesKnown, vars
<1>4. QED
  BY <1>1, <1>2, <1>3, StepCases

LEMMA OffQueueNext ==
  ASSUME Shapes, Grown, LoadedRulesKnown, OffQueueIsExplained, [Next]_vars
  PROVE  OffQueueIsExplained'
<1> DEFINE
     Explained(n) ==
       \/ txns'[n].entry \in EntriesOf(TxnDoc(n), "approve")'
       \/ \E i \in DOMAIN rules' : /\ rules'[i].account = txns'[n].suggested
                                   /\ <<rules'[i].pattern, txns'[n].desc>> \in Matches
<1>0. ASSUME NEW n \in DOMAIN txns, txns'[n] = txns[n], ~UpForReview(txns'[n]),
             DOMAIN rules \subseteq DOMAIN rules', \A i \in DOMAIN rules : rules'[i] = rules[i]
      PROVE  Explained(n)
  <2>1. CASE txns[n].entry \in EntriesOf(TxnDoc(n), "approve")
    BY <1>0, <2>1, EntriesKept
  <2>2. CASE \E i \in DOMAIN rules : /\ rules[i].account = txns[n].suggested
                                     /\ <<rules[i].pattern, txns[n].desc>> \in Matches
    BY <1>0, <2>2
  <2>3. QED
    BY <1>0, <2>1, <2>2 DEF OffQueueIsExplained
<1>1. ASSUME NEW r \in Requests, CallDoes(r)
      PROVE  \A n \in DOMAIN txns' : ~UpForReview(txns'[n]) => Explained(n)
  <2>1. /\ DOMAIN rules \subseteq DOMAIN rules' /\ \A i \in DOMAIN rules : rules'[i] = rules[i]
    BY <1>1, RulesGrow
  <2>2. CASE UNCHANGED txns
    BY <1>0, <2>1, <2>2
  <2>3. ASSUME NEW k \in DOMAIN txns, ResolveDoes(r, k)
        PROVE  \A n \in DOMAIN txns' : ~UpForReview(txns'[n]) => Explained(n)
    <3>1. /\ DOMAIN txns' = DOMAIN txns /\ \A n \in DOMAIN txns \ {k} : txns'[n] = txns[n]
          /\ txns'[k] = Resolved(txns[k], task[r])
          /\ task[r].entry \in EntriesOf(TxnDoc(k), "approve")
          /\ task[r].read \in TxnRow /\ task[r].account \in Categories
      BY <2>3 DEF ResolveDoes
    <3>2. task[r].entry \in Nat /\ txns[k] \in TxnRow
      <4>1. txns \in Seq(TxnRow)
        BY DEF Shapes, TypeOK
      <4>2. txns[k] \in TxnRow
        BY <4>1, ElementOf
      <4>3. QED
        BY <3>1, <4>2, EntriesAreNumbers DEF EntriesOf
    <3>3. txns'[k].entry = task[r].entry
      BY <3>1, <3>2, ResolvedType
    <3>4. Explained(k)
      BY <3>1, <3>3, EntriesKept
    <3>. HIDE DEF Explained
    <3>5. QED
      BY <1>0, <2>1, <3>1, <3>4
  <2>4. QED
    BY <1>1, <2>2, <2>3, TxnsByCall
<1>2. ASSUME NEW j \in Jobs, WorkerDoes(j)
      PROVE  \A n \in DOMAIN txns' : ~UpForReview(txns'[n]) => Explained(n)
  <2>0. UNCHANGED rules
    BY <1>2 DEF WorkerDoes
  <2>1. CASE UNCHANGED txns
    BY <1>0, <2>0, <2>1
  <2>2. CASE WorkerCommits(j)
    <3>1. ASSUME NEW k \in DOMAIN Added(j), ~UpForReview(Added(j)[k])
          PROVE  \E i \in DOMAIN rules : /\ rules[i].account = Added(j)[k].suggested
                                         /\ <<rules[i].pattern, Added(j)[k].desc>> \in Matches
      <4> DEFINE row == Statement[j][k]
                 account == RuleMatch(row.desc, job[j].rules)
      <4>1. /\ Added(j)[k].suggested = account /\ Added(j)[k].desc = row.desc
            /\ Added(j)[k].status = StatusOf(account)
        BY DEF Added, Categorized
      <4>2. account # NoAccount
        BY <3>1, <4>1 DEF StatusOf, UpForReview
      <4>3. job[j].rules \in Seq(RuleRow)
        <5>1. job[j] \in JobRow
          BY DEF Shapes, TypeOK
        <5>2. QED
          BY <5>1 DEF JobRow
      <4>4. \E i \in DOMAIN job[j].rules : /\ account = job[j].rules[i].account
                                           /\ <<job[j].rules[i].pattern, row.desc>> \in Matches
        BY <4>2, <4>3, RuleMatched
      <4>. HIDE DEF account, row
      <4>5. PICK i \in DOMAIN job[j].rules : /\ account = job[j].rules[i].account
                                             /\ <<job[j].rules[i].pattern, row.desc>> \in Matches
        BY <4>4
      <4>6. PICK m \in DOMAIN rules : rules[m] = job[j].rules[i]
        BY <2>2 DEF WorkerCommits, LoadedRulesKnown
      <4>7. QED
        BY <4>1, <4>5, <4>6
    <3>2. /\ DOMAIN txns' = DOMAIN txns \cup {Len(txns) + k : k \in DOMAIN Added(j)}
          /\ \A n \in DOMAIN txns : txns'[n] = txns[n]
          /\ \A k \in DOMAIN Added(j) : txns'[Len(txns) + k] = Added(j)[k]
      BY <2>2, TxnsByCommit
    <3>3. ASSUME NEW k \in DOMAIN Added(j), ~UpForReview(txns'[Len(txns) + k])
          PROVE  Explained(Len(txns) + k)
      BY <2>0, <3>1, <3>2, <3>3
    <3>. HIDE DEF Explained
    <3>4. QED
      BY <1>0, <2>0, <3>2, <3>3
  <2>3. QED
    BY <1>2, <2>1, <2>2 DEF WorkerDoes, WorkerMoves, WorkerLoads
<1>3. CASE UNCHANGED vars
  BY <1>3 DEF vars, OffQueueIsExplained, EntriesOf, EntryIds
<1>4. (\A n \in DOMAIN txns' : ~UpForReview(txns'[n]) => Explained(n)) => OffQueueIsExplained'
  BY DEF OffQueueIsExplained, TxnDoc, UpForReview
<1>5. QED
  BY <1>1, <1>2, <1>3, <1>4, StepCases

\* A transaction that is not in the review queue has been approved and posted,
\* or shows the account of a rule on record whose pattern its description
\* contains, whatever order the rules were read in and however often its job
\* was delivered (import_worker.py, banking/router.py:47-59).  The reason is the
\* one the import had, which explain_suggestion need not find.
THEOREM OffQueueHasAReason == Spec => []OffQueueIsExplained
<1>1. Init => LoadedRulesKnown /\ OffQueueIsExplained
  BY DEF Init, BankInit, LoadedRulesKnown, OffQueueIsExplained
<1>2. Shapes /\ LoadedRulesKnown /\ OffQueueIsExplained /\ [Next]_vars
        => LoadedRulesKnown' /\ OffQueueIsExplained'
  BY ShapesNext, LoadedRulesNext, OffQueueNext
<1>3. QED
  BY <1>1, <1>2, ShapesAlways, PTL DEF Spec

-----------------------------------------------------------------------------
(* Statements are imported whole *)

\* Positions among n, and the positions of what is appended to n.
Among(n, A) == A \in SUBSET (1..n)
After(n, B) == {n + k : k \in B}

LEMMA CountOfAppended ==
  ASSUME NEW n \in Nat, NEW m \in Nat, NEW A, Among(n, A), NEW B, Among(m, B)
  PROVE  /\ Cardinality(A) \in Nat /\ Cardinality(B) \in Nat
         /\ Cardinality(A \cup After(n, B)) = Cardinality(A) + Cardinality(B)
<1>0. A \in SUBSET (1..n) /\ B \in SUBSET (1..m)
  BY DEF Among
<1> DEFINE C == After(n, B)
           f == [k \in B |-> n + k]
<1>1. IsFiniteSet(1..n) /\ IsFiniteSet(1..m)
  <2>1. 1 \in Int /\ n \in Int /\ m \in Int
    OBVIOUS
  <2>2. QED
    BY <2>1, FS_Interval
<1>2. IsFiniteSet(A) /\ IsFiniteSet(B)
  BY <1>0, <1>1, FS_Subset
<1>3. f \in Bijection(B, C)
  <2>1. f \in [B -> C] /\ \A c \in C : \E k \in B : f[k] = c
    BY DEF After
  <2>2. \A k, l \in B : f[k] = f[l] => k = l
    BY <1>0
  <2>. HIDE DEF f, C
  <2>3. QED
    BY <2>1, <2>2 DEF Bijection, Injection, Surjection, IsInjective
<1>4. A \cap C = {}
  BY <1>0 DEF After
<1>. HIDE DEF C, f
<1>5. IsFiniteSet(C) /\ Cardinality(C) = Cardinality(B)
  BY <1>2, <1>3, FS_Bijection DEF ExistsBijection
<1>6. Cardinality(A) \in Nat /\ Cardinality(B) \in Nat
  BY <1>2, FS_CardinalityType
<1>7. Cardinality(A \cap C) = 0
  BY <1>4, FS_EmptySet
<1>8. Cardinality(A \cup C) = Cardinality(A) + Cardinality(C) - Cardinality(A \cap C)
  BY <1>2, <1>5, FS_Union
<1>9. Cardinality(A \cup C) = Cardinality(A) + Cardinality(B)
  BY <1>5, <1>6, <1>7, <1>8
<1>10. QED
  BY <1>6, <1>9 DEF C

\* The transactions of a statement that look like a row.
Imports(j, row) == {n \in DOMAIN txns : txns[n].job = j /\ Same(txns[n].desc, txns[n].amount, row)}
AlikeRows(j, row) ==
  {k \in DOMAIN Statement[j] : Same(Statement[j][k].desc, Numeric2(Statement[j][k].amount), row)}

LEMMA ImportsSame ==
  ASSUME DOMAIN txns' = DOMAIN txns,
         \A n \in DOMAIN txns : /\ txns'[n].job = txns[n].job /\ txns'[n].desc = txns[n].desc
                                /\ txns'[n].amount = txns[n].amount
  PROVE  \A j, row : Imports(j, row)' = Imports(j, row)
BY DEF Imports

LEMMA ImportsByCall ==
  ASSUME Shapes, NEW r \in Requests, CallDoes(r)
  PROVE  \A j, row : Imports(j, row)' = Imports(j, row)
<1>1. CASE UNCHANGED txns
  BY <1>1, ImportsSame
<1>2. ASSUME NEW n \in DOMAIN txns, ResolveDoes(r, n)
      PROVE  \A j, row : Imports(j, row)' = Imports(j, row)
  <2>1. /\ DOMAIN txns' = DOMAIN txns /\ \A k \in DOMAIN txns \ {n} : txns'[k] = txns[k]
        /\ txns'[n] = Resolved(txns[n], task[r])
        /\ task[r].entry \in EntriesOf(TxnDoc(n), "approve")
        /\ task[r].read \in TxnRow /\ task[r].account \in Categories
    BY <1>2 DEF ResolveDoes
  <2>2. txns[n] \in TxnRow /\ task[r].entry \in Nat
    <3>1. txns \in Seq(TxnRow)
      BY DEF Shapes, TypeOK
    <3>2. txns[n] \in TxnRow
      BY <3>1, ElementOf
    <3>3. QED
      BY <2>1, <3>2, EntriesAreNumbers DEF EntriesOf
  <2>3. /\ txns'[n].job = txns[n].job /\ txns'[n].desc = txns[n].desc
        /\ txns'[n].amount = txns[n].amount
    BY <2>1, <2>2, ResolvedType
  <2>4. QED
    BY <2>1, <2>3, ImportsSame
<1>3. QED
  BY <1>1, <1>2, TxnsByCall

LEMMA ImportsByCommit ==
  ASSUME Shapes, NEW j \in Jobs, WorkerCommits(j), NEW row
  PROVE  /\ Imports(j, row)' = Imports(j, row) \cup After(Len(txns), AlikeRows(j, row))
         /\ \A i \in Jobs \ {j} : Imports(i, row)' = Imports(i, row)
<1>1. /\ DOMAIN txns' = DOMAIN txns \cup {Len(txns) + k : k \in DOMAIN Statement[j]}
      /\ \A n \in DOMAIN txns : txns'[n] = txns[n]
      /\ \A k \in DOMAIN Statement[j] : /\ Len(txns) + k \notin DOMAIN txns
                                        /\ txns'[Len(txns) + k] = Added(j)[k]
  BY TxnsByCommit, AddedType
<1>2. \A k \in DOMAIN Statement[j] :
        /\ Added(j)[k].job = j /\ Added(j)[k].desc = Statement[j][k].desc
        /\ Added(j)[k].amount = Numeric2(Statement[j][k].amount)
  BY DEF Added, Categorized
<1>3. \A k \in DOMAIN Statement[j] :
        /\ txns'[Len(txns) + k].job = j /\ txns'[Len(txns) + k].desc = Statement[j][k].desc
        /\ txns'[Len(txns) + k].amount = Numeric2(Statement[j][k].amount)
  BY <1>1, <1>2
<1>4. Imports(j, row)' = Imports(j, row) \cup After(Len(txns), AlikeRows(j, row))
  BY <1>1, <1>3 DEF Imports, AlikeRows, Same, After
<1>5. ASSUME NEW i \in Jobs \ {j} PROVE Imports(i, row)' = Imports(i, row)
  BY <1>1, <1>3 DEF Imports
<1>6. QED
  BY <1>4, <1>5

\* The statement of a job has been imported so many times.
Imported(j, times) ==
  \A k \in DOMAIN Statement[j] :
    Cardinality(Imports(j, Statement[j][k])) = times * Cardinality(AlikeRows(j, Statement[j][k]))

\* Deliveries are counted when they begin, imports when they commit.
InStep(j, times) ==
  /\ times <= job[j].tries
  /\ job[j].state = "running" => times < job[j].tries
  /\ job[j].state \in {"committed", "finished"} => times > 0
CountedRight == \A j \in Jobs : \E times \in Nat : Imported(j, times) /\ InStep(j, times)

LEMMA ImportedKept ==
  ASSUME NEW j, \A row : Imports(j, row)' = Imports(j, row), NEW times, Imported(j, times)
  PROVE  Imported(j, times)'
BY DEF Imported, AlikeRows

LEMMA ImportedAgain ==
  ASSUME Shapes, NEW j \in Jobs, WorkerCommits(j), NEW times \in Nat, Imported(j, times)
  PROVE  Imported(j, times + 1)'
<1>1. ASSUME NEW k \in DOMAIN Statement[j]
      PROVE  Cardinality(Imports(j, Statement[j][k])')
             = (times + 1) * Cardinality(AlikeRows(j, Statement[j][k]))
  <2> DEFINE A == Imports(j, Statement[j][k])
             B == AlikeRows(j, Statement[j][k])
  <2>1. Len(txns) \in Nat /\ Among(Len(txns), A)
    <3>1. txns \in Seq(TxnRow)
      BY DEF Shapes, TypeOK
    <3>2. QED
      BY <3>1 DEF Imports, Among
  <2>2. Len(Statement[j]) \in Nat /\ Among(Len(Statement[j]), B)
    BY BankAssumption DEF AlikeRows, Among
  <2>3. Imports(j, Statement[j][k])' = A \cup After(Len(txns), B)
    <3> DEFINE row == Statement[j][k]
    <3>. HIDE DEF row
    <3>1. Imports(j, row)' = Imports(j, row) \cup After(Len(txns), AlikeRows(j, row))
      BY ImportsByCommit
    <3>2. QED
      BY <3>1 DEF row
  <2>4. Cardinality(A) = times * Cardinality(B)
    BY DEF Imported
  <2>. HIDE DEF A, B
  <2>5. /\ Cardinality(A) \in Nat /\ Cardinality(B) \in Nat
        /\ Cardinality(A \cup After(Len(txns), B)) = Cardinality(A) + Cardinality(B)
    BY <2>1, <2>2, CountOfAppended
  <2>6. times * Cardinality(B) + Cardinality(B) = (times + 1) * Cardinality(B)
    BY <2>5
  <2>7. QED
    BY <2>3, <2>4, <2>5, <2>6 DEF B
<1>2. QED
  BY <1>1 DEF Imported, AlikeRows

LEMMA CountedNext ==
  ASSUME Shapes, CountedRight, [Next]_vars
  PROVE  CountedRight'
<1>0. ASSUME NEW j \in Jobs, \A row : Imports(j, row)' = Imports(j, row), job'[j] = job[j]
      PROVE  \E times \in Nat : Imported(j, times)' /\ InStep(j, times)'
  <2>1. PICK times \in Nat : Imported(j, times) /\ InStep(j, times)
    BY DEF CountedRight
  <2>2. Imported(j, times)'
    BY <1>0, <2>1, ImportedKept
  <2>3. InStep(j, times)'
    BY <1>0, <2>1 DEF InStep
  <2>4. QED
    BY <2>2, <2>3
<1>1. ASSUME NEW r \in Requests, CallDoes(r) PROVE CountedRight'
  <2>1. \A j, row : Imports(j, row)' = Imports(j, row)
    BY <1>1, ImportsByCall
  <2>2. UNCHANGED job
    BY <1>1, RulesGrow
  <2>3. QED
    BY <1>0, <2>1, <2>2 DEF CountedRight
<1>2. ASSUME NEW j \in Jobs, WorkerDoes(j) PROVE CountedRight'
  <2>0. PICK times \in Nat : Imported(j, times) /\ InStep(j, times)
    BY DEF CountedRight
  <2>t. job[j].tries \in Nat /\ job[j].state \in {"absent", "queued", "running", "committed",
                                                  "failed", "finished"}
    <3>1. job[j] \in JobRow /\ MaxTries \in Nat
      BY BankAssumption DEF Shapes, TypeOK
    <3>2. QED
      BY <3>1 DEF JobRow
  <2>s. UNCHANGED txns => \A i, row : Imports(i, row)' = Imports(i, row)
    BY ImportsSame
  <2>1. CASE WorkerMoves(j)
    <3>1. UNCHANGED txns
      BY <2>1 DEF WorkerMoves
    <3>2. PICK from, to : /\ <<from, to>> \in JobMoveSet /\ job[j].state = from
                          /\ JobBecomes(j, [job[j] EXCEPT !.state = to])
      BY <2>1 DEF WorkerMoves
    <3>3. /\ job'[j].state = to /\ job'[j].tries = job[j].tries
          /\ \A i \in Jobs \ {j} : job'[i] = job[i]
      BY <3>2, JobAfter
    <3>4. Imported(j, times)'
      BY <2>0, <2>s, <3>1, ImportedKept
    <3>5. /\ to # "running" /\ to # "committed" /\ (to = "finished" => from = "committed")
      BY <3>2 DEF JobMoveSet
    <3>6. InStep(j, times)'
      BY <2>0, <2>t, <3>2, <3>3, <3>5 DEF InStep
    <3>7. \E c \in Nat : Imported(j, c)' /\ InStep(j, c)'
      BY <3>4, <3>6
    <3>8. QED
      BY <1>0, <2>s, <3>1, <3>3, <3>7 DEF CountedRight
  <2>2. CASE WorkerLoads(j)
    <3>1. UNCHANGED txns
      BY <2>2 DEF WorkerLoads
    <3>2. PICK order :
            JobBecomes(j, [state |-> "running", rules |-> Reordered(order),
                           tries |-> job[j].tries + 1])
      BY <2>2 DEF WorkerLoads
    <3>3. /\ job'[j].state = "running" /\ job'[j].tries = job[j].tries + 1
          /\ \A i \in Jobs \ {j} : job'[i] = job[i]
      BY <3>2 DEF JobBecomes
    <3>4. Imported(j, times)'
      BY <2>0, <2>s, <3>1, ImportedKept
    <3>5. InStep(j, times)'
      BY <2>0, <2>t, <3>3 DEF InStep
    <3>6. \E c \in Nat : Imported(j, c)' /\ InStep(j, c)'
      BY <3>4, <3>5
    <3>7. QED
      BY <1>0, <2>s, <3>1, <3>3, <3>6 DEF CountedRight
  <2>3. CASE WorkerCommits(j)
    <3>1. job[j].state = "running" /\ JobBecomes(j, [job[j] EXCEPT !.state = "committed"])
      BY <2>3 DEF WorkerCommits
    <3>2. /\ job'[j].state = "committed" /\ job'[j].tries = job[j].tries
          /\ \A i \in Jobs \ {j} : job'[i] = job[i]
      BY <3>1, JobAfter
    <3>3. Imported(j, times + 1)'
      BY <2>0, <2>3, ImportedAgain
    <3>4. InStep(j, times + 1)'
      BY <2>0, <2>t, <3>1, <3>2 DEF InStep
    <3>5. \E c \in Nat : Imported(j, c)' /\ InStep(j, c)'
      BY <3>3, <3>4
    <3>6. \A i \in Jobs \ {j} : \A row : Imports(i, row)' = Imports(i, row)
      BY <2>3, ImportsByCommit
    <3>7. QED
      BY <1>0, <3>2, <3>5, <3>6 DEF CountedRight
  <2>4. QED
    BY <1>2, <2>1, <2>2, <2>3 DEF WorkerDoes
<1>3. CASE UNCHANGED vars
  <2>1. (\A j, row : Imports(j, row)' = Imports(j, row)) /\ UNCHANGED job
    BY <1>3, ImportsSame DEF vars
  <2>2. QED
    BY <1>0, <2>1 DEF CountedRight
<1>4. QED
  BY <1>1, <1>2, <1>3, StepCases

\* A statement is in the books of the workspace whole or not at all: as many
\* times as its import was committed, which is at most once per delivery and at
\* least once if the queue takes the job for done; no approval, of any number,
\* loses a row of it (import_worker.py:64-110, arq's delivery at least once).
THEOREM StatementsAreImportedWhole == Spec => []ImportedWhole
<1>1. Init => CountedRight
  <2> SUFFICES ASSUME Init, NEW j \in Jobs
               PROVE  \E times \in Nat : Imported(j, times) /\ InStep(j, times)
    BY DEF CountedRight
  <2>1. txns = <<>> /\ job[j].state = "absent" /\ job[j].tries = 0
    BY DEF Init, BankInit
  <2>2. Cardinality({}) = 0
    BY FS_EmptySet
  <2>3. \A row : Imports(j, row) = {}
    BY <2>1 DEF Imports
  <2>4. \A row : IsFiniteSet(AlikeRows(j, row))
    <3>1. DOMAIN Statement[j] = 1..Len(Statement[j]) /\ Len(Statement[j]) \in Int /\ 1 \in Int
      BY BankAssumption
    <3>2. IsFiniteSet(DOMAIN Statement[j])
      BY <3>1, FS_Interval
    <3>3. \A row : AlikeRows(j, row) \in SUBSET DOMAIN Statement[j]
      BY DEF AlikeRows
    <3>4. QED
      BY <3>2, <3>3, FS_Subset
  <2>5. \A row : Cardinality(AlikeRows(j, row)) \in Nat
    BY <2>4, FS_CardinalityType
  <2>6. Imported(j, 0)
    <3>1. \A row : Cardinality(Imports(j, row)) = 0
      BY <2>2, <2>3
    <3>2. \A row : 0 * Cardinality(AlikeRows(j, row)) = 0
      BY <2>5
    <3>3. QED
      BY <3>1, <3>2 DEF Imported
  <2>7. InStep(j, 0)
    BY <2>1 DEF InStep
  <2>8. QED
    BY <2>6, <2>7
<1>2. Shapes /\ CountedRight /\ [Next]_vars => CountedRight'
  BY CountedNext
<1>3. Shapes /\ CountedRight => ImportedWhole
  <2> SUFFICES ASSUME Shapes, CountedRight, NEW j \in Jobs
               PROVE  \E times \in 0..job[j].tries :
                        /\ \A k \in DOMAIN Statement[j] :
                             RowsOf(j, Statement[j][k]) = times * Alike(j, Statement[j][k])
                        /\ job[j].state \in {"committed", "finished"} => times > 0
    BY DEF ImportedWhole
  <2>1. PICK times \in Nat : Imported(j, times) /\ InStep(j, times)
    BY DEF CountedRight
  <2>2. job[j].tries \in Nat
    <3>1. job[j] \in JobRow /\ MaxTries \in Nat
      BY BankAssumption DEF Shapes, TypeOK
    <3>2. QED
      BY <3>1 DEF JobRow
  <2>3. times \in 0..job[j].tries /\ (job[j].state \in {"committed", "finished"} => times > 0)
    BY <2>1, <2>2 DEF InStep
  <2>4. \A k \in DOMAIN Statement[j] :
          RowsOf(j, Statement[j][k]) = times * Alike(j, Statement[j][k])
    BY <2>1 DEF Imported, Imports, AlikeRows, RowsOf, Alike
  <2>5. QED
    BY <2>3, <2>4
<1>4. QED
  BY <1>1, <1>2, <1>3, ShapesAlways, PTL DEF Spec

-----------------------------------------------------------------------------
(* Receivables and tax agree with the invoices *)

\* Amounts of whole cents; adding them up gives one.
Whole == {a \in Int : a % Cent = 0}

LEMMA StoredInWhole == ASSUME NEW a \in Int PROVE Numeric2(a) \in Whole
BY DEF Whole, Numeric2, RoundCents, Cent

LEMMA LineAmountsWhole ==
  ASSUME NEW line \in Item
  PROVE  LineAmount(line) \in Whole /\ LineTax(line) \in Whole
<1>1. line.quantity \in Int /\ line.price \in Int /\ line.rate \in Int
  BY DEF Item
<1>2. line.quantity * line.price \in Int
  BY <1>1
<1>3. LineAmount(line) \in Whole
  <2> DEFINE k == (line.quantity * line.price + 50 * Cent * Cent) \div (Piece * Cent)
  <2>1. k \in Int
    BY <1>2 DEF Piece, Cent
  <2>. HIDE DEF k
  <2>2. Cent * k \in Whole
    BY <2>1 DEF Whole, Cent
  <2>3. QED
    BY <2>2 DEF LineAmount, k
<1>4. LineAmount(line) * line.rate \in Int
  BY <1>1, <1>3 DEF Whole
<1>5. LineTax(line) \in Whole
  <2> DEFINE k == (LineAmount(line) * line.rate + 5000 * Cent) \div (10000 * Cent)
  <2>1. k \in Int
    BY <1>4 DEF Cent
  <2>. HIDE DEF k
  <2>2. Cent * k \in Whole /\ 0 \in Whole
    BY <2>1 DEF Whole, Cent
  <2>3. QED
    BY <2>2 DEF LineTax, k
<1>6. QED
  BY <1>3, <1>5

LEMMA InvoiceSumsWhole ==
  ASSUME NEW lines \in Seq(Item)
  PROVE  Subtotal(lines) \in Whole /\ TaxTotal(lines) \in Whole
<1> DEFINE N == DOMAIN lines
           a == [k \in N |-> LineAmount(lines[k])]
           t == [k \in N |-> LineTax(lines[k])]
<1>1. IsFiniteSet(N)
  <2>1. N = 1..Len(lines) /\ Len(lines) \in Nat
    OBVIOUS
  <2>2. QED
    BY <2>1, FS_Interval
<1>2. \A k \in N : LineAmount(lines[k]) \in Whole /\ LineTax(lines[k]) \in Whole
  BY ElementOf, LineAmountsWhole
<1>3. a \in [N -> Whole] /\ t \in [N -> Whole]
  BY <1>2
<1>w. Whole \in SUBSET Int /\ 0 \in Whole /\ \A x, y \in Whole : x + y \in Whole
  BY DEF Whole, Cent
<1>4. SumFunction(a) \in Whole
  <2>. HIDE DEF a, N
  <2>1. QED
    BY <1>1, <1>3, <1>w, SumWithin
<1>5. SumFunction(t) \in Whole
  <2>. HIDE DEF t, N
  <2>1. QED
    BY <1>1, <1>3, <1>w, SumWithin
<1>6. QED
  BY <1>4, <1>5 DEF Subtotal, TaxTotal, SumOfLines

LEMMA ThreeLines ==
  ASSUME NEW x, NEW y, NEW z
  PROVE  <<x, y>> \o <<z>> = <<x, y, z>>
<1> DEFINE S == {x, y, z}
<1>1. <<x, y>> \in Seq(S) /\ <<z>> \in Seq(S)
  OBVIOUS
<1>2. Len(<<x, y>> \o <<z>>) = 3 /\ <<x, y>> \o <<z>> \in Seq(S)
  BY <1>1
<1>3. /\ (<<x, y>> \o <<z>>)[1] = x /\ (<<x, y>> \o <<z>>)[2] = y
      /\ (<<x, y>> \o <<z>>)[3] = z
  BY <1>1
<1>4. <<x, y>> \o <<z>> = [i \in 1..3 |-> (<<x, y>> \o <<z>>)[i]]
  <2> DEFINE w == <<x, y>> \o <<z>>
  <2>1. w \in Seq(S) /\ Len(w) = 3
    BY <1>2
  <2>. HIDE DEF w
  <2>2. QED
    BY <2>1 DEF w
<1>5. <<x, y, z>> = [i \in 1..3 |-> <<x, y, z>>[i]]
  OBVIOUS
<1>6. \A i \in 1..3 : (<<x, y>> \o <<z>>)[i] = <<x, y, z>>[i]
  BY <1>3
<1>7. QED
  BY <1>4, <1>5, <1>6

\* What the entry of an invoice does to the two accounts.  Without a line for
\* it there was no tax, or the entry would not have balanced.
LEMMA InvoiceBalances ==
  ASSUME NEW lines \in Seq(Item), PassesBalanceCheck(InvoiceLines(lines))
  PROVE  /\ AccountBalance("receivable", Stored(InvoiceLines(lines)))
              = Subtotal(lines) + TaxTotal(lines)
         /\ AccountBalance("gst", Stored(InvoiceLines(lines))) = -TaxTotal(lines)
<1> DEFINE s == Subtotal(lines)
           t == TaxTotal(lines)
           x == On("receivable", s + t, 0)
           y == On("revenue", 0, s)
           z == On("gst", 0, t)
<1>1. s \in Whole /\ t \in Whole
  BY InvoiceSumsWhole
<1>. HIDE DEF s, t
<1>2. s \in Int /\ t \in Int /\ s + t \in Int
  BY <1>1 DEF Whole
<1>3. /\ Effect("receivable", x) = s + t /\ Effect("receivable", y) = 0
      /\ Effect("receivable", z) = 0
      /\ Effect("gst", x) = 0 /\ Effect("gst", y) = 0 /\ Effect("gst", z) = -t
  BY <1>2 DEF Effect, On
<1>e. -t \in Int /\ 0 \in Int
  BY <1>2
<1>w. (s + t) % Cent = 0 /\ s % Cent = 0 /\ t % Cent = 0 /\ 0 % Cent = 0
  BY <1>1 DEF Whole, Cent
<1>l. InvoiceLines(lines) \in Seq(Line(Chart))
  BY InvoiceLinesType
<1>4. CASE t > 0
  <2>1. InvoiceLines(lines) = <<x, y, z>>
    <3>1. InvoiceLines(lines) = <<x, y>> \o <<z>>
      BY <1>4 DEF InvoiceLines, s, t
    <3>2. QED
      BY <3>1, ThreeLines
  <2>2. WholeCents(<<x, y, z>>)
    BY <1>w DEF WholeCents, On
  <2>. HIDE DEF x, y, z
  <2>3. Stored(<<x, y, z>>) = <<x, y, z>>
    BY <1>l, <2>1, <2>2, StoredSame
  <2>4. AccountBalance("receivable", <<x, y, z>>) = (s + t) + 0 + 0
    BY <1>2, <1>3, <1>e, BalanceOfThree
  <2>5. AccountBalance("gst", <<x, y, z>>) = 0 + 0 + (-t)
    BY <1>3, <1>e, BalanceOfThree
  <2>6. QED
    BY <1>2, <2>1, <2>3, <2>4, <2>5 DEF s, t
<1>5. CASE ~(t > 0)
  <2>1. InvoiceLines(lines) = <<x, y>>
    <3>1. InvoiceLines(lines) = <<x, y>> \o <<>>
      BY <1>5 DEF InvoiceLines, s, t
    <3>2. QED
      BY <3>1
  <2>2. WholeCents(<<x, y>>)
    BY <1>w DEF WholeCents, On
  <2>3. TotalDebit(<<x, y>>) = s + t /\ TotalCredit(<<x, y>>) = s
    <3> DEFINE d == [i \in 1..2 |-> <<x, y>>[i].debit]
               c == [i \in 1..2 |-> <<x, y>>[i].credit]
    <3>1. d[1] = s + t /\ d[2] = 0 /\ c[1] = 0 /\ c[2] = s
      BY DEF On
    <3>2. d \in [1..2 -> Int] /\ c \in [1..2 -> Int]
      BY <1>2 DEF On
    <3>3. TotalDebit(<<x, y>>) = SumFunction(d) /\ TotalCredit(<<x, y>>) = SumFunction(c)
      BY DEF TotalDebit, TotalCredit
    <3>. HIDE DEF d, c, x, y
    <3>4. SumFunction(d) = d[1] + d[2]
      BY <3>2, SumOfTwo
    <3>5. SumFunction(c) = c[1] + c[2]
      BY <3>2, SumOfTwo
    <3>6. QED
      BY <1>2, <3>1, <3>3, <3>4, <3>5
  <2>4. t = 0
    <3>1. RoundCents((s + t) - s) = 0
      BY <2>1, <2>3 DEF PassesBalanceCheck
    <3>2. RoundCents(t) = 0
      <4>1. (s + t) - s = t
        BY <1>2
      <4>2. QED
        BY <3>1, <4>1
    <3>3. QED
      BY <1>2, <1>w, <3>2 DEF RoundCents, Cent
  <2>. HIDE DEF x, y
  <2>5. Stored(<<x, y>>) = <<x, y>>
    BY <1>l, <2>1, <2>2, StoredSame
  <2>6. AccountBalance("receivable", <<x, y>>) = (s + t) + 0
    BY <1>2, <1>3, <1>e, BalanceOfTwo
  <2>7. AccountBalance("gst", <<x, y>>) = 0 + 0
    BY <1>3, <1>e, BalanceOfTwo
  <2>8. QED
    BY <1>2, <2>1, <2>4, <2>5, <2>6, <2>7 DEF s, t
<1>6. QED
  BY <1>4, <1>5

\* An entry adds to an account what its lines come to.
LEMMA BalanceAfter ==
  ASSUME Shapes, NEW doc, NEW step, NEW lines \in Seq(Line(Chart)),
         PostedFor(doc, step, lines), NEW a
  PROVE  /\ Balance(a)' = Balance(a) + AccountBalance(a, Stored(lines))
         /\ Balance(a) \in Int /\ AccountBalance(a, Stored(lines)) \in Int
<1> DEFINE n == Len(books)
           f == [i \in 1..n |-> AccountBalance(a, books[i].lines)]
           g == [i \in 1..(n + 1) |-> AccountBalance(a, books'[i].lines)]
<1>1. books \in Seq(EntryRow) /\ books' \in Seq(EntryRow)
  BY DEF Shapes, TypeOK, PostedFor
<1>2. n \in Nat /\ EntryIds = 1..n /\ NewEntry = n + 1 /\ EntryIds' = 1..(n + 1)
  BY <1>1 DEF EntryIds, NewEntry, PostedFor
<1>3. \A i \in 1..n : books[i] \in EntryRow
  BY <1>1, <1>2, ElementOf DEF EntryIds
<1>4. \A i \in 1..(n + 1) : books'[i] \in EntryRow
  BY <1>1, <1>2, ElementOf DEF EntryIds
<1>5. f \in [1..n -> Int]
  BY <1>3, BalanceType DEF EntryRow
<1>6. g \in [1..(n + 1) -> Int]
  BY <1>4, BalanceType DEF EntryRow
<1>7. \A i \in 1..n : g[i] = f[i]
  <2>1. \A i \in 1..n : i \in 1..(n + 1) /\ books'[i] = books[i]
    BY <1>2 DEF PostedFor
  <2>2. QED
    BY <2>1
<1>8. g[n + 1] = AccountBalance(a, Stored(lines))
  BY <1>2 DEF PostedFor
<1>9. Balance(a) = SumFunction(f) /\ Balance(a)' = SumFunction(g)
  BY <1>2 DEF Balance
<1>10. g[n + 1] \in Int
  BY <1>2, <1>6
<1>. HIDE DEF f, g, n
<1>11. SumFunction(g) = SumFunction(f) + g[n + 1] /\ SumFunction(f) \in Int
  BY <1>2, <1>5, <1>6, <1>7, SumAppended
<1>12. QED
  BY <1>8, <1>9, <1>10, <1>11

LEMMA BalanceSame ==
  ASSUME UNCHANGED books, NEW a
  PROVE  Balance(a)' = Balance(a)
BY DEF Balance, EntryIds

\* What was sent for the invoices comes to, and the tax of it.
OwedFor(sent) == SumFunction([n \in DOMAIN sent |-> Subtotal(sent[n]) + TaxTotal(sent[n])])
TaxOf(sent) == SumFunction([n \in DOMAIN sent |-> TaxTotal(sent[n])])

\* The rows keep what was sent, and the accounts come to it.
SentFor(sent) ==
  /\ sent \in [DOMAIN invoices -> Sent]
  /\ \A n \in DOMAIN invoices : invoices[n].lines = Kept(sent[n])
TiesOut(sent) ==
  SentFor(sent) /\ Balance("receivable") = OwedFor(sent) /\ Balance("gst") = -TaxOf(sent)

LEMMA TieOutMeans == InvoicesTieOut <=> \E sent : TiesOut(sent)
<1>1. ASSUME NEW sent
      PROVE  TiesOut(sent) <=>
               /\ sent \in [DOMAIN invoices -> Sent]
               /\ \A n \in DOMAIN invoices : invoices[n].lines = Kept(sent[n])
               /\ Balance("receivable") = Total(Charged, sent)
               /\ Balance("gst") = -Total(TaxTotal, sent)
  BY DEF TiesOut, SentFor, OwedFor, TaxOf, Total, Charged
<1>2. QED
  BY <1>1, Zenon DEF InvoicesTieOut

LEMMA TieOutThen == (InvoicesTieOut <=> \E sent : TiesOut(sent))'
BY TieOutMeans, PTL

LEMMA SentLines ==
  ASSUME NEW lines \in Sent
  PROVE  lines \in Seq(Item)
BY InvoicesAssumption DEF Sent, Item

\* A new invoice adds what was sent for it.
LEMMA SumsAfterPosting ==
  ASSUME NEW n \in Nat, NEW old \in [1..n -> Sent], NEW new \in [1..(n + 1) -> Sent],
         \A k \in 1..n : new[k] = old[k]
  PROVE  /\ OwedFor(new) = OwedFor(old) + (Subtotal(new[n + 1]) + TaxTotal(new[n + 1]))
         /\ TaxOf(new) = TaxOf(old) + TaxTotal(new[n + 1])
         /\ OwedFor(old) \in Int /\ TaxOf(old) \in Int
<1> DEFINE f == [k \in 1..n |-> Subtotal(old[k]) + TaxTotal(old[k])]
           g == [k \in 1..(n + 1) |-> Subtotal(new[k]) + TaxTotal(new[k])]
           u == [k \in 1..n |-> TaxTotal(old[k])]
           v == [k \in 1..(n + 1) |-> TaxTotal(new[k])]
<1>1. \A k \in 1..n : old[k] \in Seq(Item)
  BY SentLines
<1>2. \A k \in 1..(n + 1) : new[k] \in Seq(Item)
  BY SentLines
<1>3. f \in [1..n -> Int] /\ u \in [1..n -> Int]
  BY <1>1, InvoiceSumsType
<1>4. g \in [1..(n + 1) -> Int] /\ v \in [1..(n + 1) -> Int]
  BY <1>2, InvoiceSumsType
<1>5. \A k \in 1..n : g[k] = f[k] /\ v[k] = u[k]
  OBVIOUS
<1>6. g[n + 1] = Subtotal(new[n + 1]) + TaxTotal(new[n + 1]) /\ v[n + 1] = TaxTotal(new[n + 1])
  OBVIOUS
<1>7. /\ OwedFor(old) = SumFunction(f) /\ OwedFor(new) = SumFunction(g)
      /\ TaxOf(old) = SumFunction(u) /\ TaxOf(new) = SumFunction(v)
  BY DEF OwedFor, TaxOf
<1>. HIDE DEF f, g, u, v
<1>8. SumFunction(g) = SumFunction(f) + g[n + 1] /\ SumFunction(f) \in Int
  BY <1>3, <1>4, <1>5, SumAppended
<1>9. SumFunction(v) = SumFunction(u) + v[n + 1] /\ SumFunction(u) \in Int
  BY <1>3, <1>4, <1>5, SumAppended
<1>10. QED
  BY <1>6, <1>7, <1>8, <1>9

\* Only invoices post to receivables and to GST, unless a person may.
NoneByHand == {"receivable", "gst"} \cap Categories = {}

LEMMA OtherLinesElsewhere ==
  ASSUME NEW a \in {"receivable", "gst"}, NEW amount \in Int
  PROVE  /\ AccountBalance(a, Stored(BillLines(amount))) = 0
         /\ AccountBalance(a, Stored(PaymentLines(amount))) = 0
         /\ \A c \in Categories : NoneByHand => AccountBalance(a, Stored(TxnLines(amount, c))) = 0
<1>1. /\ \A i \in DOMAIN BillLines(amount) : BillLines(amount)[i].account # a
      /\ \A i \in DOMAIN PaymentLines(amount) : PaymentLines(amount)[i].account # a
  BY DEF BillLines, PaymentLines, On
<1>2. BillLines(amount) \in Seq(Line(Chart)) /\ PaymentLines(amount) \in Seq(Line(Chart))
  BY BillLinesType
<1>3. ASSUME NEW c \in Categories, NoneByHand
      PROVE  AccountBalance(a, Stored(TxnLines(amount, c))) = 0
  <2>1. c # a
    BY <1>3 DEF NoneByHand
  <2>2. \A i \in DOMAIN TxnLines(amount, c) : TxnLines(amount, c)[i].account # a
    BY <2>1 DEF TxnLines, On
  <2>3. TxnLines(amount, c) \in Seq(Line(Chart))
    BY TxnLinesType
  <2>4. QED
    BY <2>2, <2>3, BalanceElsewhere
<1>4. AccountBalance(a, Stored(BillLines(amount))) = 0
  BY <1>1, <1>2, BalanceElsewhere
<1>5. AccountBalance(a, Stored(PaymentLines(amount))) = 0
  BY <1>1, <1>2, BalanceElsewhere
<1>6. QED
  BY <1>3, <1>4, <1>5

\* Neither the accounts nor the lines on record change.
LinesStay ==
  /\ DOMAIN invoices' = DOMAIN invoices
  /\ \A n \in DOMAIN invoices : invoices'[n].lines = invoices[n].lines

LEMMA TieOutKept ==
  ASSUME InvoicesTieOut, LinesStay,
         Balance("receivable")' = Balance("receivable"), Balance("gst")' = Balance("gst")
  PROVE  InvoicesTieOut'
<1>1. PICK old : TiesOut(old)
  BY TieOutMeans
<1>2. SentFor(old)'
  BY <1>1 DEF LinesStay, TiesOut, SentFor
<1>3. TiesOut(old)'
  BY <1>1, <1>2 DEF TiesOut
<1>4. QED
  BY <1>3, TieOutThen

LEMMA TieOutElsewhere ==
  ASSUME Shapes, InvoicesTieOut, UNCHANGED invoices,
         NEW doc, NEW step, NEW lines \in Seq(Line(Chart)), PostedFor(doc, step, lines),
         \A a \in {"receivable", "gst"} : AccountBalance(a, Stored(lines)) = 0
  PROVE  InvoicesTieOut'
<1>1. Balance("receivable")' = Balance("receivable") + 0 /\ Balance("receivable") \in Int
  BY BalanceAfter
<1>2. Balance("gst")' = Balance("gst") + 0 /\ Balance("gst") \in Int
  BY BalanceAfter
<1>3. Balance("receivable")' = Balance("receivable")
  BY <1>1
<1>4. Balance("gst")' = Balance("gst")
  BY <1>2
<1>5. LinesStay
  BY DEF LinesStay
<1>6. QED
  BY <1>3, <1>4, <1>5, TieOutKept

\* What was sent for the new invoice joins what was sent for the others.
LEMMA TieOutPosting ==
  ASSUME Shapes, InvoicesTieOut, NEW r \in Requests, PostInvoiceDoes(r)
  PROVE  InvoicesTieOut'
<1> DEFINE n == Len(invoices)
<1>1. PICK old : TiesOut(old)
  BY TieOutMeans
<1>2. PICK lines : lines = task[r].input.lines
  OBVIOUS
<1>3. lines \in Sent
  BY <1>2 DEF PostInvoiceDoes, Sent
<1>4. lines \in Seq(Item)
  BY <1>3, SentLines
<1>5. n \in Nat /\ DOMAIN invoices = 1..n /\ DOMAIN invoices' = 1..(n + 1)
  BY DEF Shapes, TypeOK, PostInvoiceDoes
<1>. HIDE DEF n
<1> DEFINE new == [k \in 1..(n + 1) |-> IF k = n + 1 THEN lines ELSE old[k]]
<1>6. old \in [1..n -> Sent]
  BY <1>1, <1>5 DEF TiesOut, SentFor
<1>7. new \in [1..(n + 1) -> Sent]
  BY <1>3, <1>5, <1>6
<1>8. new[n + 1] = lines /\ \A k \in 1..n : new[k] = old[k]
  BY <1>5
<1>9. \A k \in 1..(n + 1) : invoices'[k].lines = Kept(new[k])
  <2>1. ASSUME NEW k \in 1..n PROVE invoices'[k].lines = Kept(new[k])
    <3>1. invoices'[k] = invoices[k] /\ invoices[k].lines = Kept(old[k])
      BY <1>1, <1>5 DEF PostInvoiceDoes, TiesOut, SentFor
    <3>2. QED
      BY <1>8, <3>1
  <2>2. invoices'[n + 1].lines = Kept(lines)
    BY <1>2 DEF PostInvoiceDoes, n
  <2>3. QED
    BY <1>5, <1>8, <2>1, <2>2
<1>. HIDE DEF new
<1> DEFINE s == Subtotal(lines)
           t == TaxTotal(lines)
<1>10. s \in Int /\ t \in Int
  BY <1>4, InvoiceSumsType
<1>11. /\ AccountBalance("receivable", Stored(InvoiceLines(lines))) = s + t
       /\ AccountBalance("gst", Stored(InvoiceLines(lines))) = -t
  <2>1. PassesBalanceCheck(InvoiceLines(lines))
    BY <1>2 DEF PostInvoiceDoes
  <2>2. QED
    BY <1>4, <2>1, InvoiceBalances
<1>12. InvoiceLines(lines) \in Seq(Line(Chart))
  BY <1>4, InvoiceLinesType
<1>13. PostedFor(InvoiceDoc(n + 1), "create", InvoiceLines(lines))
  BY <1>2 DEF PostInvoiceDoes, n
<1>14. /\ OwedFor(new) = OwedFor(old) + (s + t) /\ TaxOf(new) = TaxOf(old) + t
       /\ OwedFor(old) \in Int /\ TaxOf(old) \in Int
  BY <1>5, <1>6, <1>7, <1>8, SumsAfterPosting
<1>. HIDE DEF s, t
<1>15. Balance("receivable")' = Balance("receivable") + (s + t)
  BY <1>11, <1>12, <1>13, BalanceAfter
<1>16. Balance("gst")' = Balance("gst") + (-t) /\ Balance("gst") \in Int
  BY <1>11, <1>12, <1>13, BalanceAfter
<1>17. Balance("receivable") = OwedFor(old) /\ Balance("gst") = -TaxOf(old)
  BY <1>1 DEF TiesOut
<1>18. Balance("receivable")' = OwedFor(new)
  BY <1>14, <1>15, <1>17
<1>19. Balance("gst")' = -TaxOf(new)
  BY <1>10, <1>14, <1>16, <1>17
<1>20. PICK told : told = new
  OBVIOUS
<1>21. TiesOut(told)'
  BY <1>5, <1>7, <1>9, <1>18, <1>19, <1>20 DEF TiesOut, SentFor
<1>22. QED
  BY <1>21, TieOutThen

LEMMA TieOutNextCall ==
  ASSUME Shapes, InvoicesTieOut, NoneByHand, NEW r \in Requests, CallDoes(r)
  PROVE  InvoicesTieOut'
<1>1. CASE UNCHANGED <<books, invoices>>
  <2>1. Balance("receivable")' = Balance("receivable")
    BY <1>1, BalanceSame
  <2>2. Balance("gst")' = Balance("gst")
    BY <1>1, BalanceSame
  <2>3. LinesStay
    BY <1>1 DEF LinesStay
  <2>4. QED
    BY <2>1, <2>2, <2>3, TieOutKept
<1>2. CASE task[r].amount \in Int /\ PostBillDoes(r)
  <2>1. BillLines(task[r].amount) \in Seq(Line(Chart))
    BY <1>2, BillLinesType
  <2>2. \A a \in {"receivable", "gst"} :
          AccountBalance(a, Stored(BillLines(task[r].amount))) = 0
    BY <1>2, OtherLinesElsewhere
  <2>3. /\ PostedFor(BillDoc(Len(bills) + 1), "create", BillLines(task[r].amount))
        /\ UNCHANGED invoices
    BY <1>2 DEF PostBillDoes
  <2>4. QED
    BY <2>1, <2>2, <2>3, TieOutElsewhere
<1>3. ASSUME NEW b \in DOMAIN bills, PostPaymentDoes(r, b) PROVE InvoicesTieOut'
  <2>1. bills[b].amount \in Int
    <3>1. bills[b] \in BillRow
      BY ElementOf DEF Shapes, TypeOK
    <3>2. QED
      BY <3>1 DEF BillRow
  <2>2. PaymentLines(bills[b].amount) \in Seq(Line(Chart))
    BY <2>1, BillLinesType
  <2>3. \A a \in {"receivable", "gst"} :
          AccountBalance(a, Stored(PaymentLines(bills[b].amount))) = 0
    BY <2>1, OtherLinesElsewhere
  <2>4. /\ PostedFor(BillDoc(b), "pay", PaymentLines(bills[b].amount))
        /\ UNCHANGED invoices
    BY <1>3 DEF PostPaymentDoes
  <2>5. QED
    BY <2>2, <2>3, <2>4, TieOutElsewhere
<1>4. ASSUME NEW n \in DOMAIN txns, PostTxnDoes(r, n) PROVE InvoicesTieOut'
  <2>1. task[r].read.amount \in Int /\ task[r].account \in Categories
    BY <1>4 DEF PostTxnDoes, TxnRow
  <2>2. TxnLines(task[r].read.amount, task[r].account) \in Seq(Line(Chart))
    BY <2>1, TxnLinesType
  <2>3. \A a \in {"receivable", "gst"} :
          AccountBalance(a, Stored(TxnLines(task[r].read.amount, task[r].account))) = 0
    BY <2>1, OtherLinesElsewhere
  <2>4. /\ PostedFor(TxnDoc(n), "approve", TxnLines(task[r].read.amount, task[r].account))
        /\ UNCHANGED invoices
    BY <1>4 DEF PostTxnDoes
  <2>5. QED
    BY <2>2, <2>3, <2>4, TieOutElsewhere
<1>5. CASE PostInvoiceDoes(r)
  BY <1>5, TieOutPosting
<1>6. ASSUME NEW n \in DOMAIN invoices, LinkInvoiceDoes(r, n) PROVE InvoicesTieOut'
  <2>1. UNCHANGED books
    BY <1>6 DEF LinkInvoiceDoes
  <2>2. Balance("receivable")' = Balance("receivable")
    BY <2>1, BalanceSame
  <2>3. Balance("gst")' = Balance("gst")
    BY <2>1, BalanceSame
  <2>4. LinesStay
    <3>1. invoices[n] \in InvoiceRow
      BY ElementOf DEF Shapes, TypeOK
    <3>2. invoices'[n].lines = invoices[n].lines
      BY <1>6, <3>1 DEF LinkInvoiceDoes, InvoiceRow
    <3>3. QED
      BY <1>6, <3>2 DEF LinkInvoiceDoes, LinesStay
  <2>5. QED
    BY <2>2, <2>3, <2>4, TieOutKept
<1>7. \/ UNCHANGED <<books, invoices>> \/ PostInvoiceDoes(r)
      \/ task[r].amount \in Int /\ PostBillDoes(r)
      \/ \E b \in DOMAIN bills : PostPaymentDoes(r, b)
      \/ \E n \in DOMAIN txns : PostTxnDoes(r, n)
      \/ \E n \in DOMAIN invoices : LinkInvoiceDoes(r, n)
  BY DEF CallDoes, BeginsDoes, CreateVendorDoes, StopsDoes, rows, LinkBillDoes, MarkPaidDoes,
     ResolveDoes
<1>8. QED
  BY <1>1, <1>2, <1>3, <1>4, <1>5, <1>6, <1>7

LEMMA TieOutInit ==
  ASSUME Init
  PROVE  InvoicesTieOut
<1> DEFINE D == DOMAIN OpenBills
<1>1. IsFiniteSet(D)
  <2>1. D = 1..Len(OpenBills) /\ Len(OpenBills) \in Nat
    BY BillsAssumption
  <2>2. QED
    BY <2>1, FS_Interval
<1>2. EntryIds = D /\ \A b \in D : books[b].lines = Stored(BillLines(OpenBills[b]))
  BY DEF Init, BillsInit, EntryIds
<1>3. ASSUME NEW a \in {"receivable", "gst"} PROVE Balance(a) = 0
  <2>1. \A b \in D : AccountBalance(a, books[b].lines) = 0
    BY <1>2, BillsAssumption, OtherLinesElsewhere
  <2>2. [i \in EntryIds |-> AccountBalance(a, books[i].lines)] = [i \in D |-> 0]
    BY <1>2, <2>1
  <2>3. SumFunction([i \in D |-> 0]) = 0
    <3>. HIDE DEF D
    <3>1. QED
      BY <1>1, SumZeros
  <2>4. QED
    BY <2>2, <2>3, Zenon DEF Balance
<1>4. DOMAIN invoices = {}
  BY DEF Init, InvoicesInit
<1>5. PICK sent : sent = <<>>
  OBVIOUS
<1>6. DOMAIN sent = {} /\ SentFor(sent)
  BY <1>4, <1>5 DEF SentFor
<1>7. OwedFor(sent) = 0
  BY <1>6, SumNothing DEF OwedFor
<1>8. TaxOf(sent) = 0
  BY <1>6, SumNothing DEF TaxOf
<1>9. TiesOut(sent)
  BY <1>3, <1>6, <1>7, <1>8 DEF TiesOut
<1>10. QED
  BY <1>9, TieOutMeans

\* Accounts receivable is what the lines sent for the invoices come to and GST
\* payable the tax of them, whatever the quantities and prices, at every
\* moment, calls between their commits and stopped there included
\* (create_invoice, sales/services.py:66-188): if no transaction is approved to
\* the two accounts, of which approve_transaction takes any.
THEOREM InvoicesAgreeWithTheLedger ==
  ASSUME NoneByHand
  PROVE  Spec => []InvoicesTieOut
<1>1. Init => InvoicesTieOut
  BY TieOutInit
<1>2. Shapes /\ InvoicesTieOut /\ [Next]_vars => InvoicesTieOut'
  <2> SUFFICES ASSUME Shapes, InvoicesTieOut, [Next]_vars PROVE InvoicesTieOut'
    OBVIOUS
  <2>1. ASSUME UNCHANGED <<books, invoices>> PROVE InvoicesTieOut'
    <3>1. Balance("receivable")' = Balance("receivable")
      BY <2>1, BalanceSame
    <3>2. Balance("gst")' = Balance("gst")
      BY <2>1, BalanceSame
    <3>3. LinesStay
      BY <2>1 DEF LinesStay
    <3>4. QED
      BY <3>1, <3>2, <3>3, TieOutKept
  <2>2. ASSUME NEW j \in Jobs, WorkerDoes(j) PROVE InvoicesTieOut'
    BY <2>1, <2>2 DEF WorkerDoes, docVars
  <2>3. CASE UNCHANGED vars
    BY <2>1, <2>3 DEF vars
  <2>4. QED
    BY <2>2, <2>3, StepCases, TieOutNextCall
<1>3. QED
  BY <1>1, <1>2, ShapesAlways, PTL DEF Spec

\* What the columns keep of a line: quantities of whole hundredths of a piece
\* and prices of whole cents are stored as they are.
KeptAsSent == \A lines \in Sent : Kept(lines) = lines

\* The accounts and the lines as they are stored.
StoredLines == [n \in DOMAIN invoices |-> invoices[n].lines]
StoredTieOut ==
  Balance("receivable") = Total(Charged, StoredLines)
  /\ Balance("gst") = -Total(TaxTotal, StoredLines)

\* Then the two accounts are what the stored lines of the invoices come to as
\* well (sales/models.py:39-46): the rounding of quantity and price to two
\* places is all that can set them apart.
THEOREM StoredInvoicesAgree ==
  ASSUME NoneByHand, KeptAsSent
  PROVE  Spec => []StoredTieOut
<1>1. InvoicesTieOut => StoredTieOut
  <2> SUFFICES ASSUME InvoicesTieOut PROVE StoredTieOut
    OBVIOUS
  <2>1. PICK sent \in [DOMAIN invoices -> Sent] :
          /\ \A n \in DOMAIN invoices : invoices[n].lines = Kept(sent[n])
          /\ Balance("receivable") = Total(Charged, sent)
          /\ Balance("gst") = -Total(TaxTotal, sent)
    BY DEF InvoicesTieOut
  <2>2. sent = StoredLines
    BY <2>1 DEF KeptAsSent, StoredLines
  <2>3. QED
    BY <2>1, <2>2 DEF StoredTieOut
<1>2. QED
  BY <1>1, InvoicesAgreeWithTheLedger, PTL
=============================================================================
