--------------------------------- MODULE Bills ---------------------------------
(***************************************************************************)
(* Vendors and their bills, app/modules/purchases/services.py: create_bill *)
(* debits the expense and credits accounts payable, pay_bill debits        *)
(* accounts payable and credits the bank.                                  *)
(***************************************************************************)
EXTENDS Documents

CONSTANTS
  BillAmounts,   \* what a caller may bill, in fifths of a cent
  OpenBills      \* the amounts of the bills on record at the start

ASSUME BillsAssumption == BillAmounts \subseteq Int /\ OpenBills \in Seq(Int)

VARIABLES
  bills,         \* rows of bills, in commit order
  vendors        \* how many rows vendors has

billVars == <<bills, vendors>>

BillDoc(b) == <<"bill", b>>
BillLines(amount) == <<On("expense", amount, 0), On("payable", 0, amount)>>

\* Calls that have ended may have left bills, posted and linked, and the
\* vendor that they name.
BillsInit ==
  /\ bills = [b \in DOMAIN OpenBills |->
                [amount |-> Numeric2(OpenBills[b]), paid |-> FALSE, entry |-> b]]
  /\ vendors = IF OpenBills = <<>> THEN 0 ELSE 1
  /\ books = [b \in DOMAIN OpenBills |->
                [doc |-> BillDoc(b), step |-> "create",
                 lines |-> Stored(BillLines(OpenBills[b]))]]
  /\ audit = {<<BillDoc(b), "create">> : b \in DOMAIN OpenBills}
              \cup {<<<<"vendor", v>>, "create">> : v \in 1..vendors}

\* One commit: the vendor and its audit event.
CreateVendor(r) ==
  /\ pc[r] = "idle"
  /\ vendors' = vendors + 1
  /\ Record(<<"vendor", vendors + 1>>, "create")
  /\ Goto(r, "done")
  /\ UNCHANGED <<books, task, bills>>

\* The lookups of the expense account and of accounts payable succeed, and so
\* does the reference to a vendor.
CreateBill(r) ==
  /\ pc[r] = "idle" /\ vendors > 0
  /\ \E amount \in BillAmounts :
       Hold(r, [doc |-> BillDoc(0), amount |-> amount])
  /\ Goto(r, "post_bill")
  /\ UNCHANGED <<books, audit, billVars>>

\* The first commit: the bill and its entry.
PostBill(r) ==
  /\ pc[r] = "post_bill"
  /\ LET b == Len(bills) + 1
     IN  /\ Post(BillDoc(b), "create", BillLines(task[r].amount))
         /\ bills' = Append(bills, [amount |-> Numeric2(task[r].amount),
                                    paid |-> FALSE, entry |-> 0])
         /\ Hold(r, [doc |-> BillDoc(b), entry |-> NewEntry])
  /\ Goto(r, "link_bill")
  /\ UNCHANGED <<audit, vendors>>

\* The second commit: the link to the entry and the audit event.
LinkBill(r) ==
  /\ pc[r] = "link_bill"
  /\ bills' = [bills EXCEPT ![task[r].doc[2]].entry = LinkedEntry(task[r])]
  /\ Record(task[r].doc, "create")
  /\ Goto(r, "done")
  /\ UNCHANGED <<books, task, vendors>>

\* Slip: the test of is_paid forgotten.
PayableTwice(bill) == bill.amount # 0
Payable(bill) == ~bill.paid

\* is_paid is read here and written two commits later.
PayBill(r) ==
  /\ pc[r] = "idle"
  /\ \E b \in DOMAIN bills :
       IF Payable(bills[b])
       THEN Hold(r, [doc |-> BillDoc(b), amount |-> bills[b].amount])
            /\ Goto(r, "post_payment")
       ELSE Goto(r, "rejected") /\ UNCHANGED task
  /\ UNCHANGED <<books, audit, billVars>>

\* Slip: the expense debited again, accounts payable left open.
PaymentLinesExpensed(amount) == <<On("expense", amount, 0), On("bank", 0, amount)>>
PaymentLines(amount) == <<On("payable", amount, 0), On("bank", 0, amount)>>

PostPayment(r) ==
  /\ pc[r] = "post_payment"
  /\ Post(task[r].doc, "pay", PaymentLines(task[r].amount))
  /\ Goto(r, "mark_paid")
  /\ UNCHANGED <<audit, task, billVars>>

\* The second commit.  Slip: the bill still open.
MarkedPaidNever(bill) == bill
MarkedPaid(bill) == [bill EXCEPT !.paid = TRUE]

MarkPaid(r) ==
  /\ pc[r] = "mark_paid"
  /\ bills' = [bills EXCEPT ![task[r].doc[2]] = MarkedPaid(@)]
  /\ Record(task[r].doc, "pay")
  /\ Goto(r, "done")
  /\ UNCHANGED <<books, task, vendors>>

PostingRefusedToBill(r) ==
  /\ Refused(r, "post_bill") \/ Refused(r, "post_payment")
  /\ UNCHANGED billVars

BillsBegin(r) == CreateVendor(r) \/ CreateBill(r) \/ PayBill(r)
BillsAdvance(r) == \/ PostBill(r) \/ LinkBill(r) \/ PostPayment(r) \/ MarkPaid(r)
                   \/ PostingRefusedToBill(r)
=============================================================================
