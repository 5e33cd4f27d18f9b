---------------------------- MODULE People_proofs ----------------------------
(***************************************************************************)
(* What MCPeople checks of payments, logins, sessions and roles, for any   *)
(* number of requests, keys, invoices, payments, accounts, attempts and    *)
(* limits; of friends and the pages it is in Pages_proofs.  Each component *)
(* keeps an inductive invariant of its own; they share no state, so the    *)
(* invariant of the composition is theirs together, each while its         *)
(* component moves.                                                        *)
(*                                                                         *)
(* Payments: a confirmation or a refund writes on what it read an await    *)
(* earlier; the invariant says which row a request stopped at each await   *)
(* holds on to, and what it saw there.                                     *)
(***************************************************************************)
EXTENDS MCPeople, FiniteSetTheorems, SequenceTheorems, TLAPS

USE HandlesAssumption, FeeAssumption, AttemptsAssumption, NullAssumption, BillingBounds

\* A request stopped at `label' with the locals l, in a database of ni invoices and np
\* payments: the rows it will write exist, and it compares with the status it was sent for.
ReferTo(label, l, ni, np) ==
  /\ label = "existing" => l.inv \in 1..ni
  /\ label # "idle" /\ l.kind = "pay" => l.inv \in 1..ni /\ l.key \in Keys
  /\ label \in {"checkout", "apply", "cas"} => l.pay \in 1..np
  /\ label = "cas" => /\ l.kind = "confirm" => l.seen = "CREATED"
                      /\ l.kind = "refund" => l.seen = "PAID"

RefInv == \A r \in Requests : ReferTo(pc[r], loc[r], Len(invoices), Len(payments))

\* An invoice on which money was taken is never open again.
Collected ==
  \A n \in 1..Len(payments) :
    payments[n].status # "CREATED" => invoices[payments[n].inv] # "CREATED"

IInv == TypeOK /\ RefInv /\ PaymentsAddUp /\ Collected

-----------------------------------------------------------------------------
(* The requests. *)

Locals == [kind : Kinds, inv : Nat, key : Keys \cup {Null}, pay : Nat,
           tries : Nat, open : BOOLEAN, seen : Statuses]

ControlOK == pc \in [Requests -> Labels] /\ loc \in [Requests -> Locals]

\* A step of one request leaves its control and its locals well formed.
LEMMA GotoControl ==
  ASSUME ControlOK, NEW r \in Requests, NEW label \in Labels, NEW l \in Locals,
         Goto(r, label, l)
  PROVE  ControlOK'
  BY DEF ControlOK, Goto

\* It leaves every other request holding on to rows that are still there.
LEMMA GotoRefer ==
  ASSUME ControlOK, NEW r \in Requests, NEW label, NEW l, Goto(r, label, l),
         NEW ni \in Nat, NEW np \in Nat, NEW mi \in Nat, NEW mp \in Nat, ni <= mi, np <= mp,
         \A s \in Requests : ReferTo(pc[s], loc[s], ni, np),
         ReferTo(label, l, mi, mp)
  PROVE  \A s \in Requests : ReferTo(pc'[s], loc'[s], mi, mp)
<1> TAKE s \in Requests
<1>1. CASE s = r
  BY <1>1 DEF ControlOK, Goto
<1>2. CASE s # r
  <2>1. pc'[s] = pc[s] /\ loc'[s] = loc[s]
    BY <1>2 DEF ControlOK, Goto
  <2>2. ReferTo(pc[s], loc[s], ni, np)
    OBVIOUS
  <2>3. 1..ni \subseteq 1..mi /\ 1..np \subseteq 1..mp
    OBVIOUS
  <2> QED BY <2>1, <2>2, <2>3 DEF ReferTo
<1> QED BY <1>1, <1>2

LEMMA BlankOK == Blank \in Locals /\ "idle" \in Labels
  BY DEF Blank, Locals, Kinds, Statuses, Labels

LEMMA OpenLocals ==
  ASSUME NEW m \in Locals, NEW o \in BOOLEAN
  PROVE  /\ [m EXCEPT !.open = o] \in Locals
         /\ [m EXCEPT !.open = o].inv = m.inv /\ [m EXCEPT !.open = o].key = m.key
  BY DEF Locals

LEMMA BlankRefers ==
  ASSUME NEW ni, NEW np PROVE ReferTo("idle", Blank, ni, np)
  BY DEF ReferTo

LEMMA TypesOfRequests ==
  ASSUME TypeOK PROVE ControlOK /\ Len(invoices) \in Nat /\ Len(payments) \in Nat
  BY DEF TypeOK, ControlOK, Locals

\* A step that writes nothing to the database.
LEMMA LocalStep ==
  ASSUME IInv, Local, NEW r \in Requests, NEW label \in Labels, NEW l \in Locals,
         Goto(r, label, l), ReferTo(label, l, Len(invoices), Len(payments))
  PROVE  IInv'
<1> USE DEF Local, tables
<1>1. ControlOK /\ Len(invoices) \in Nat /\ Len(payments) \in Nat
  BY TypesOfRequests DEF IInv
<1>2. ControlOK'
  BY <1>1, GotoControl
<1>3. \A s \in Requests : ReferTo(pc'[s], loc'[s], Len(invoices), Len(payments))
  BY <1>1, GotoRefer DEF IInv, RefInv
<1>4. RefInv'
  BY <1>3 DEF RefInv
<1>5. TypeOK'
  BY <1>2 DEF IInv, TypeOK, ControlOK, Locals
<1>6. PaymentsAddUp' /\ Collected'
  BY DEF IInv, PaymentsAddUp, BooksMatchPayments, OnePaymentPerKey, PaidInvoiceConfirms,
         Collected, Booked, Told, StatusOf
<1> QED BY <1>4, <1>5, <1>6 DEF IInv

\* A reply that writes nothing.
LEMMA ReplyStep ==
  ASSUME IInv, Local, NEW r \in Requests, Reply(r)
  PROVE  IInv'
  BY LocalStep, BlankOK, BlankRefers DEF Reply

-----------------------------------------------------------------------------
(* The steps that only read. *)

\* Whatever a request reads before it writes, it holds on to rows that exist.
LEMMA ReadersKeepIInv ==
  ASSUME IInv, NEW r \in Requests,
         \/ BeginInvoice(r) \/ ViewRegistration(r) \/ CheckExisting(r)
         \/ ReadNumber(r) \/ NumberTaken(r)
         \/ BeginPay(r) \/ ReadInvoice(r) \/ LookupKey(r) \/ KeyTaken(r)
         \/ BeginConfirm(r) \/ ReadForSuccess(r)
         \/ BeginRefund(r) \/ ReadForRefund(r) \/ CasLost(r)
  PROVE  IInv'
<1>1. ControlOK /\ Len(invoices) \in Nat /\ Len(payments) \in Nat
  BY TypesOfRequests DEF IInv
<1>2. /\ loc[r] \in Locals
      /\ ReferTo(pc[r], loc[r], Len(invoices), Len(payments))
  BY <1>1 DEF ControlOK, IInv, RefInv
<1>3. /\ reg.invoice \in 1..Len(invoices) \cup {Null}
      /\ \A n \in 1..Len(payments) : payments[n].status \in Statuses
  <2>1. payments \in Seq(PaymentRow) /\ reg.invoice \in 1..Len(invoices) \cup {Null}
    BY DEF IInv, TypeOK
  <2>2. \A n \in 1..Len(payments) : payments[n] \in PaymentRow
    BY <2>1
  <2> QED BY <2>1, <2>2 DEF PaymentRow
<1> USE DEF At
<1>a. CASE BeginInvoice(r)
  <2> DEFINE l == [Blank EXCEPT !.kind = "invoice"]
  <2>1. l \in Locals /\ "view" \in Labels /\ ReferTo("view", l, Len(invoices), Len(payments))
    BY DEF Blank, Locals, Kinds, Statuses, Labels, ReferTo
  <2> QED BY <1>a, <2>1, LocalStep DEF BeginInvoice
<1>b. CASE ViewRegistration(r)
  <2>1. CASE Reply(r) /\ Local
    BY <2>1, ReplyStep
  <2>2. CASE ~(reg.withdrawn \/ reg.confirmed)
    <3> DEFINE l == [loc[r] EXCEPT !.inv = IF reg.invoice = Null THEN 0 ELSE reg.invoice]
               label == IF reg.invoice = Null THEN "number" ELSE "existing"
    <3>0. (IF reg.invoice = Null THEN 0 ELSE reg.invoice) \in Nat
      BY <1>1, <1>3
    <3>1. l \in Locals /\ label \in Labels
      BY <1>2, <3>0 DEF Locals, Labels
    <3>2. l.kind = "invoice" /\ (label = "existing" => l.inv \in 1..Len(invoices))
      BY <1>b, <1>2, <1>3 DEF ViewRegistration, Locals
    <3>3. ReferTo(label, l, Len(invoices), Len(payments))
      BY <3>2 DEF ReferTo
    <3>4. Goto(r, label, l) /\ Local
      BY <1>b, <2>2 DEF ViewRegistration
    <3> QED BY <3>1, <3>3, <3>4, LocalStep
  <2> QED BY <1>b, <2>1, <2>2 DEF ViewRegistration
<1>c. CASE CheckExisting(r)
  <2>1. CASE Reply(r) /\ Local
    BY <2>1, ReplyStep
  <2>2. CASE Goto(r, "number", loc[r]) /\ Local
    <3>1. "number" \in Labels /\ ReferTo("number", loc[r], Len(invoices), Len(payments))
      BY <1>c DEF CheckExisting, Labels, ReferTo
    <3> QED BY <1>2, <2>2, <3>1, LocalStep
  <2> QED BY <1>c, <2>1, <2>2 DEF CheckExisting
<1>d. CASE ReadNumber(r)
  <2> DEFINE l == [loc[r] EXCEPT !.inv = Len(invoices) + 1]
  <2>0. Len(invoices) + 1 \in Nat
    BY <1>1
  <2>1. l \in Locals /\ l.kind = "invoice"
    BY <1>2, <1>d, <2>0 DEF ReadNumber, Locals
  <2>2. "insert" \in Labels /\ ReferTo("insert", l, Len(invoices), Len(payments))
    BY <2>1 DEF Labels, ReferTo
  <2> QED BY <1>d, <2>1, <2>2, LocalStep DEF ReadNumber
<1>e. CASE NumberTaken(r)
  <2> DEFINE l == [loc[r] EXCEPT !.tries = @ + 1]
  <2>0. loc[r].tries + 1 \in Nat
    BY <1>2 DEF Locals
  <2>1. l \in Locals /\ l.kind = "invoice"
    BY <1>2, <1>e, <2>0 DEF NumberTaken, Locals
  <2>4. "number" \in Labels /\ ReferTo("number", l, Len(invoices), Len(payments))
    BY <2>1 DEF Labels, ReferTo
  <2>2. CASE Reply(r) /\ Local
    BY <2>2, ReplyStep
  <2>3. CASE Goto(r, "number", l) /\ Local
    BY <2>1, <2>3, <2>4, LocalStep
  <2> QED BY <1>e, <2>2, <2>3 DEF NumberTaken
<1>f. CASE BeginPay(r)
  <2>1. PICK i \in 1..Len(invoices), k \in Keys :
          Goto(r, "invoice", [Blank EXCEPT !.kind = "pay", !.inv = i, !.key = k])
    BY <1>f DEF BeginPay
  <2> DEFINE l == [Blank EXCEPT !.kind = "pay", !.inv = i, !.key = k]
  <2>3. i \in Nat
    BY <1>1
  <2>4. l \in Locals /\ l.inv = i /\ l.key = k
    BY <2>3 DEF Blank, Locals, Kinds, Statuses
  <2>2. "invoice" \in Labels /\ ReferTo("invoice", l, Len(invoices), Len(payments))
    BY <2>4 DEF Labels, ReferTo
  <2> QED BY <1>f, <2>1, <2>2, <2>4, LocalStep DEF BeginPay
<1>g. CASE ReadInvoice(r)
  <2> DEFINE l == [loc[r] EXCEPT !.open = Open(loc[r].inv)]
  <2>0. Open(loc[r].inv) \in BOOLEAN
    BY DEF Open
  <2>1. l \in Locals /\ l.inv = loc[r].inv /\ l.key = loc[r].key
    BY <1>2, <2>0, OpenLocals
  <2>2. "key" \in Labels /\ ReferTo("key", l, Len(invoices), Len(payments))
    BY <1>2, <1>g, <2>1 DEF ReadInvoice, Labels, ReferTo
  <2> QED BY <1>g, <2>1, <2>2, LocalStep DEF ReadInvoice
<1>h. CASE LookupKey(r)
  <2>1. CASE Reply(r) /\ Local
    BY <2>1, ReplyStep
  <2>2. CASE Goto(r, "create", loc[r]) /\ Local
    <3>1. "create" \in Labels /\ ReferTo("create", loc[r], Len(invoices), Len(payments))
      BY <1>2, <1>h DEF LookupKey, Labels, ReferTo
    <3> QED BY <1>2, <2>2, <3>1, LocalStep
  <2> QED BY <1>h, <2>1, <2>2 DEF LookupKey
<1>i. CASE KeyTaken(r)
  BY <1>i, ReplyStep DEF KeyTaken
<1>j. CASE BeginConfirm(r)
  <2>1. PICK n \in 1..Len(payments) : Goto(r, "apply", [Blank EXCEPT !.kind = "confirm", !.pay = n])
    BY <1>j DEF BeginConfirm
  <2> DEFINE l == [Blank EXCEPT !.kind = "confirm", !.pay = n]
  <2>4. n \in Nat
    BY <1>1
  <2>3. l \in Locals /\ l.kind = "confirm" /\ l.pay = n
    BY <2>4 DEF Blank, Locals, Kinds, Statuses
  <2>2. "apply" \in Labels /\ ReferTo("apply", l, Len(invoices), Len(payments))
    BY <2>3 DEF Labels, ReferTo
  <2> QED BY <1>j, <2>1, <2>2, <2>3, LocalStep DEF BeginConfirm
<1>k. CASE BeginRefund(r)
  <2>1. PICK n \in 1..Len(payments) : Goto(r, "apply", [Blank EXCEPT !.kind = "refund", !.pay = n])
    BY <1>k DEF BeginRefund
  <2> DEFINE l == [Blank EXCEPT !.kind = "refund", !.pay = n]
  <2>4. n \in Nat
    BY <1>1
  <2>3. l \in Locals /\ l.kind = "refund" /\ l.pay = n
    BY <2>4 DEF Blank, Locals, Kinds, Statuses
  <2>2. "apply" \in Labels /\ ReferTo("apply", l, Len(invoices), Len(payments))
    BY <2>3 DEF Labels, ReferTo
  <2> QED BY <1>k, <2>1, <2>2, <2>3, LocalStep DEF BeginRefund
<1>l. CASE ReadForSuccess(r)
  <2> DEFINE l == [loc[r] EXCEPT !.seen = payments[loc[r].pay].status]
  <2>1. CASE Reply(r) /\ Local
    BY <2>1, ReplyStep
  <2>2. CASE payments[loc[r].pay].status = "CREATED"
    <3>1. l \in Locals /\ "cas" \in Labels /\ ReferTo("cas", l, Len(invoices), Len(payments))
      BY <1>2, <1>l, <2>2 DEF ReadForSuccess, Locals, Statuses, Labels, ReferTo
    <3> QED BY <1>l, <2>2, <3>1, LocalStep DEF ReadForSuccess
  <2> QED BY <1>l, <2>1, <2>2 DEF ReadForSuccess
<1>m. CASE ReadForRefund(r)
  <2> DEFINE l == [loc[r] EXCEPT !.seen = payments[loc[r].pay].status]
  <2>1. CASE Reply(r) /\ Local
    BY <2>1, ReplyStep
  <2>2. CASE payments[loc[r].pay].status = "PAID"
    <3>1. l \in Locals /\ "cas" \in Labels /\ ReferTo("cas", l, Len(invoices), Len(payments))
      BY <1>2, <1>m, <2>2 DEF ReadForRefund, Locals, Statuses, Labels, ReferTo
    <3> QED BY <1>m, <2>2, <3>1, LocalStep DEF ReadForRefund
  <2> QED BY <1>m, <2>1, <2>2 DEF ReadForRefund
<1>n. CASE CasLost(r)
  BY <1>n, ReplyStep DEF CasLost
<1> QED BY <1>a, <1>b, <1>c, <1>d, <1>e, <1>f, <1>g, <1>h, <1>i, <1>j, <1>k, <1>l, <1>m, <1>n

-----------------------------------------------------------------------------
(* The steps that write. *)

\* The invoice and the link to it, in one transaction: the new one is open, and nothing
\* was paid on it.
LEMMA InsertKeepsIInv ==
  ASSUME IInv, NEW r \in Requests, InsertInvoice(r)
  PROVE  IInv'
<1> DEFINE ni == Len(invoices)
           np == Len(payments)
<1>1. ControlOK /\ ni \in Nat /\ np \in Nat
  BY TypesOfRequests DEF IInv
<1>2. /\ invoices \in Seq(Statuses) /\ payments \in Seq(PaymentRow)
      /\ \A n \in 1..np : payments[n] \in PaymentRow /\ payments[n].inv \in 1..ni
  <2>1. payments \in Seq(PaymentRow) /\ \A n \in 1..np : payments[n].inv <= ni
    BY DEF IInv, TypeOK
  <2>2. \A n \in 1..np : payments[n] \in PaymentRow
    BY <2>1
  <2>3. \A n \in 1..np : payments[n].inv \in 1..ni
    BY <1>1, <2>1, <2>2 DEF PaymentRow
  <2> QED BY <2>1, <2>2, <2>3 DEF IInv, TypeOK
<1>3. /\ invoices' \in Seq(Statuses) /\ Len(invoices') = ni + 1
      /\ invoices'[ni + 1] = "CREATED"
      /\ \A i \in 1..ni : invoices'[i] = invoices[i]
  BY <1>2 DEF InsertInvoice, Statuses
<1>4. /\ reg' = [reg EXCEPT !.invoice = ni + 1]
      /\ UNCHANGED <<payments, ledger, outbox, crashes>>
      /\ Reply(r)
  BY DEF InsertInvoice, NumberFree
<1>5. ControlOK'
  BY <1>1, <1>4, GotoControl, BlankOK DEF Reply
<1>6. \A s \in Requests : ReferTo(pc'[s], loc'[s], ni + 1, np)
  <2>1. ni + 1 \in Nat /\ ni <= ni + 1 /\ np <= np
    BY <1>1
  <2>2. Goto(r, "idle", Blank) /\ ReferTo("idle", Blank, ni + 1, np)
    BY <1>4, BlankRefers DEF Reply
  <2>3. \A s \in Requests : ReferTo(pc[s], loc[s], ni, np)
    BY DEF IInv, RefInv
  <2> HIDE DEF ni, np
  <2> QED BY <1>1, <2>1, <2>2, <2>3, GotoRefer
<1>7. RefInv'
  BY <1>3, <1>4, <1>6 DEF RefInv
<1>8. TypeOK'
  <2>1. reg' \in [invoice : 1..Len(invoices') \cup {Null},
                  confirmed : BOOLEAN, withdrawn : BOOLEAN]
    <3>1. ni + 1 \in 1..Len(invoices')
      BY <1>1, <1>3
    <3> QED BY <1>4, <3>1 DEF IInv, TypeOK
  <2>2. \A n \in 1..np : payments[n].inv <= Len(invoices')
    BY <1>1, <1>2, <1>3
  <2> QED BY <1>3, <1>4, <1>5, <2>1, <2>2 DEF IInv, TypeOK, ControlOK, Locals
<1>9. BooksMatchPayments' /\ OnePaymentPerKey'
  BY <1>4 DEF IInv, PaymentsAddUp, BooksMatchPayments, OnePaymentPerKey, Booked, Told, StatusOf
<1>10. PaidInvoiceConfirms'
  <2>1. reg'.invoice = ni + 1
    BY <1>4 DEF IInv, TypeOK
  <2> QED BY <1>3, <2>1 DEF PaidInvoiceConfirms
<1>11. Collected'
  BY <1>2, <1>3, <1>4 DEF IInv, Collected
<1> QED BY <1>7, <1>8, <1>9, <1>10, <1>11 DEF IInv, PaymentsAddUp

\* createPaymentIdempotent: the row is added in the step that finds its key free.
LEMMA CreateKeepsIInv ==
  ASSUME IInv, NEW r \in Requests, CreatePayment(r)
  PROVE  IInv'
<1> DEFINE ni == Len(invoices)
           np == Len(payments)
           entry == [inv |-> loc[r].inv, key |-> loc[r].key, status |-> "CREATED", ref |-> FALSE]
           l == [loc[r] EXCEPT !.pay = np + 1]
<1>1. ControlOK /\ ni \in Nat /\ np \in Nat /\ np + 1 \in Nat
  BY TypesOfRequests DEF IInv
<1>2. /\ payments \in Seq(PaymentRow)
      /\ \A n \in 1..np : payments[n] \in PaymentRow /\ payments[n].inv <= ni
  BY DEF IInv, TypeOK
<1>3. loc[r] \in Locals /\ loc[r].kind = "pay" /\ loc[r].inv \in 1..ni /\ loc[r].key \in Keys
  BY <1>1 DEF IInv, RefInv, ReferTo, CreatePayment, At, ControlOK
<1>4. entry \in PaymentRow /\ entry.inv \in 1..ni
  BY <1>1, <1>3 DEF PaymentRow, Statuses
<1>5. /\ payments' \in Seq(PaymentRow) /\ Len(payments') = np + 1
      /\ payments'[np + 1] = entry
      /\ \A n \in 1..np : payments'[n] = payments[n]
  BY <1>2, <1>4 DEF CreatePayment
<1>6. /\ Goto(r, "checkout", l) /\ np < MaxPayments /\ KeyFree(loc[r].key)
      /\ UNCHANGED <<reg, invoices, ledger, outbox, crashes>>
  BY DEF CreatePayment
<1>7. l \in Locals /\ l.kind = "pay" /\ l.pay = np + 1 /\ l.inv = loc[r].inv /\ l.key = loc[r].key
  BY <1>1, <1>3 DEF Locals
<1>8. ControlOK'
  BY <1>1, <1>6, <1>7, GotoControl DEF Labels
<1>9. ReferTo("checkout", l, ni, np + 1)
  BY <1>1, <1>3, <1>7 DEF ReferTo
<1>10. \A s \in Requests : ReferTo(pc'[s], loc'[s], ni, np + 1)
  BY <1>1, <1>6, <1>9, GotoRefer DEF IInv, RefInv
<1>11. RefInv'
  BY <1>5, <1>6, <1>10 DEF RefInv
<1>12. TypeOK'
  <2>1. Len(payments') <= MaxPayments
    BY <1>1, <1>5, <1>6
  <2>2. \A n \in 1..Len(payments') : payments'[n].inv <= ni
    BY <1>1, <1>2, <1>4, <1>5
  <2> QED BY <1>5, <1>6, <1>8, <2>1, <2>2 DEF IInv, TypeOK, ControlOK, Locals
<1>13. BooksMatchPayments'
  <2>1. ASSUME NEW n \in Payments PROVE StatusOf(n)' = StatusOf(n)
    BY <1>1, <1>5 DEF StatusOf, Payments
  <2>2. ASSUME NEW n \in Payments
        PROVE  ledger'[n] = Booked(StatusOf(n)') /\ outbox'[n] = Told(StatusOf(n)')
    BY <1>6, <2>1 DEF IInv, PaymentsAddUp, BooksMatchPayments
  <2> QED BY <2>2 DEF BooksMatchPayments
<1>14. OnePaymentPerKey'
  <2>1. \A n \in 1..np : payments'[n].key # entry.key
    BY <1>5, <1>6 DEF KeyFree, KeyUsed
  <2>2. \A m, n \in 1..np : payments[m].key = payments[n].key => m = n
    BY DEF IInv, PaymentsAddUp, OnePaymentPerKey
  <2>3. \A n \in 1..Len(payments') : n \in 1..np \/ n = np + 1
    BY <1>1, <1>5
  <2> SUFFICES ASSUME NEW m \in 1..Len(payments'), NEW n \in 1..Len(payments'), payments'[m].key = payments'[n].key
               PROVE  m = n
    BY DEF OnePaymentPerKey
  <2> QED BY <1>5, <2>1, <2>2, <2>3
<1>15. PaidInvoiceConfirms' /\ Collected'
  BY <1>1, <1>5, <1>6 DEF IInv, PaymentsAddUp, PaidInvoiceConfirms, Collected
<1> QED BY <1>11, <1>12, <1>13, <1>14, <1>15 DEF IInv, PaymentsAddUp

\* A request that writes one payment, never its invoice or its key, and is over.
LEMMA RowWritten ==
  ASSUME IInv, NEW r \in Requests, Reply(r), NEW n \in 1..Len(payments), NEW entry \in PaymentRow,
         entry.inv = payments[n].inv, entry.key = payments[n].key,
         payments' = [payments EXCEPT ![n] = entry], Len(invoices') = Len(invoices)
  PROVE  /\ ControlOK' /\ RefInv' /\ OnePaymentPerKey'
         /\ payments' \in Seq(PaymentRow) /\ Len(payments') = Len(payments)
         /\ \A m \in 1..Len(payments) :
              payments'[m] = (IF m = n THEN entry ELSE payments[m])
         /\ \A m \in 1..Len(payments) : payments'[m].inv = payments[m].inv
<1> DEFINE ni == Len(invoices)
           np == Len(payments)
<1>1. ControlOK /\ ni \in Nat /\ np \in Nat
  BY TypesOfRequests DEF IInv
<1>2. payments \in Seq(PaymentRow)
  BY DEF IInv, TypeOK
<1>3. /\ payments' \in Seq(PaymentRow) /\ Len(payments') = np
      /\ \A m \in 1..np : payments'[m] = (IF m = n THEN entry ELSE payments[m])
  BY <1>2
<1>4. ControlOK'
  BY <1>1, GotoControl, BlankOK DEF Reply
<1>5. RefInv'
  <2>1. \A s \in Requests : ReferTo(pc[s], loc[s], ni, np)
    BY DEF IInv, RefInv
  <2>2. Goto(r, "idle", Blank) /\ ReferTo("idle", Blank, ni, np)
    BY BlankRefers DEF Reply
  <2>3. ni <= ni /\ np <= np
    BY <1>1
  <2>4. \A s \in Requests : ReferTo(pc'[s], loc'[s], ni, np)
    <3> HIDE DEF ni, np
    <3> QED BY <1>1, <2>1, <2>2, <2>3, GotoRefer
  <2> QED BY <1>3, <2>4 DEF RefInv
<1>6. \A m \in 1..np : payments'[m].inv = payments[m].inv /\ payments'[m].key = payments[m].key
  BY <1>3
<1>7. OnePaymentPerKey'
  BY <1>3, <1>6 DEF IInv, PaymentsAddUp, OnePaymentPerKey
<1> QED BY <1>3, <1>4, <1>5, <1>6, <1>7

\* setProviderCheckout touches nothing that the invariant speaks of.
LEMMA CheckoutKeepsIInv ==
  ASSUME IInv, NEW r \in Requests, SetCheckout(r)
  PROVE  IInv'
<1> DEFINE n == loc[r].pay
           entry == [payments[n] EXCEPT !.ref = TRUE]
<1>1. n \in 1..Len(payments)
  BY DEF IInv, RefInv, ReferTo, SetCheckout, At
<1>2. payments[n] \in PaymentRow
  BY <1>1 DEF IInv, TypeOK
<1>3. /\ entry \in PaymentRow
      /\ entry.inv = payments[n].inv /\ entry.key = payments[n].key /\ entry.status = payments[n].status
  BY <1>2 DEF PaymentRow
<1>4. /\ payments' = [payments EXCEPT ![n] = entry] /\ Reply(r)
      /\ UNCHANGED <<reg, invoices, ledger, outbox, crashes>>
  BY DEF SetCheckout
<1> HIDE DEF n, entry
<1>5. /\ ControlOK' /\ RefInv' /\ OnePaymentPerKey'
      /\ payments' \in Seq(PaymentRow) /\ Len(payments') = Len(payments)
      /\ \A m \in 1..Len(payments) : payments'[m].inv = payments[m].inv
      /\ \A m \in 1..Len(payments) : payments'[m].status = payments[m].status
  <2>1. Len(invoices') = Len(invoices)
    BY <1>4
  <2>2. /\ ControlOK' /\ RefInv' /\ OnePaymentPerKey'
        /\ payments' \in Seq(PaymentRow) /\ Len(payments') = Len(payments)
        /\ \A m \in 1..Len(payments) :
             payments'[m] = (IF m = n THEN entry ELSE payments[m])
        /\ \A m \in 1..Len(payments) : payments'[m].inv = payments[m].inv
    BY <1>1, <1>3, <1>4, <2>1, RowWritten, Zenon
  <2> QED BY <1>3, <2>2
<1>6. TypeOK'
  <2>1. \A m \in 1..Len(payments) : payments[m].inv <= Len(invoices)
    BY DEF IInv, TypeOK
  <2>2. \A m \in 1..Len(payments') : payments'[m].inv <= Len(invoices')
    BY <1>4, <1>5, <2>1
  <2> QED BY <1>4, <1>5, <2>2 DEF IInv, TypeOK, ControlOK, Locals
<1>7. BooksMatchPayments'
  <2>1. ASSUME NEW m \in Payments PROVE StatusOf(m)' = StatusOf(m)
    <3>1. Len(payments) \in Nat
      BY TypesOfRequests DEF IInv
    <3> QED BY <1>5, <3>1 DEF StatusOf, Payments
  <2>2. ASSUME NEW m \in Payments
        PROVE  ledger'[m] = Booked(StatusOf(m)') /\ outbox'[m] = Told(StatusOf(m)')
    BY <1>4, <2>1 DEF IInv, PaymentsAddUp, BooksMatchPayments
  <2> QED BY <2>2 DEF BooksMatchPayments
<1>8. PaidInvoiceConfirms' /\ Collected'
  BY <1>4, <1>5 DEF IInv, PaymentsAddUp, PaidInvoiceConfirms, Collected
<1> QED BY <1>5, <1>6, <1>7, <1>8 DEF IInv, PaymentsAddUp

\* The two sides of the books are well formed: debit and credit of one amount.
LEMMA EntriesOK ==
  /\ EntryFeeEntries \in Seq(Entry)
  /\ Reversed(EntryFeeEntries) \in Seq(Entry)
  /\ Booked("PAID") = Append(Booked("CREATED"), EntryFeeEntries)
  /\ Booked("REFUNDED") = Append(Booked("PAID"), Reversed(EntryFeeEntries))
  /\ Told("PAID") = Append(Told("CREATED"), "PaymentCompleted")
  /\ Told("REFUNDED") = Append(Told("PAID"), "RefundIssued")
<1>1. EntryFeeEntries \in Seq(Entry)
  BY DEF EntryFeeEntries, Entry
<1>2. Len(EntryFeeEntries) = 2 /\ DOMAIN EntryFeeEntries = 1..2
  BY DEF EntryFeeEntries
<1>3. \A n \in 1..2 : EntryFeeEntries[n] \in Entry
  <2>1. EntryFeeEntries[1] \in Entry /\ EntryFeeEntries[2] \in Entry
    BY DEF EntryFeeEntries, Entry
  <2>2. \A n \in 1..2 : n = 1 \/ n = 2
    OBVIOUS
  <2> QED BY <2>1, <2>2
<1>4. ASSUME NEW e \in Entry
      PROVE  [e EXCEPT !.direction = IF @ = "DEBIT" THEN "CREDIT" ELSE "DEBIT"] \in Entry
  <2>1. CASE e.direction = "DEBIT"
    BY <2>1 DEF Entry
  <2>2. CASE e.direction # "DEBIT"
    BY <2>2 DEF Entry
  <2> QED BY <2>1, <2>2
<1>5. Reversed(EntryFeeEntries) \in [1..2 -> Entry]
  BY <1>2, <1>3, <1>4 DEF Reversed
<1>6. Reversed(EntryFeeEntries) \in Seq(Entry)
  BY <1>5, SeqDef
<1>7. /\ Booked("PAID") = Append(Booked("CREATED"), EntryFeeEntries)
      /\ Told("PAID") = Append(Told("CREATED"), "PaymentCompleted")
  BY DEF Booked, Told, EntryFeeEntries
<1>8. /\ Booked("REFUNDED") = Append(Booked("PAID"), Reversed(EntryFeeEntries))
      /\ Told("REFUNDED") = Append(Told("PAID"), "RefundIssued")
  BY DEF Booked, Told
<1> QED BY <1>1, <1>6, <1>7, <1>8

\* A payment whose status changes from s to t with the entries and the event of that
\* change: the books follow, and those of the other payments stand still.
LEMMA BooksFollow ==
  ASSUME IInv, NEW n \in 1..Len(payments), NEW t, NEW entries \in Seq(Entry),
         NEW event \in {"PaymentCompleted", "RefundIssued"}, Book(n, entries, event),
         Len(payments') = Len(payments),
         \A m \in 1..Len(payments) :
           payments'[m].status = (IF m = n THEN t ELSE payments[m].status),
         Booked(t) = Append(Booked(payments[n].status), entries),
         Told(t) = Append(Told(payments[n].status), event)
  PROVE  /\ BooksMatchPayments'
         /\ ledger' \in [Payments -> Seq(Seq(Entry))]
         /\ outbox' \in [Payments -> Seq({"PaymentCompleted", "RefundIssued"})]
<1>1. Len(payments) \in Nat /\ Len(payments) <= MaxPayments /\ n \in Payments
  BY TypesOfRequests DEF IInv, TypeOK, Payments
<1>2. /\ ledger \in [Payments -> Seq(Seq(Entry))]
      /\ outbox \in [Payments -> Seq({"PaymentCompleted", "RefundIssued"})]
  BY DEF IInv, TypeOK
<1>3. /\ ledger' = [ledger EXCEPT ![n] = Append(ledger[n], entries)]
      /\ outbox' = [outbox EXCEPT ![n] = Append(outbox[n], event)]
  BY DEF Book
<1>4. /\ Append(ledger[n], entries) \in Seq(Seq(Entry))
      /\ Append(outbox[n], event) \in Seq({"PaymentCompleted", "RefundIssued"})
  BY <1>1, <1>2
<1>5. /\ ledger' \in [Payments -> Seq(Seq(Entry))]
      /\ outbox' \in [Payments -> Seq({"PaymentCompleted", "RefundIssued"})]
  BY <1>2, <1>3, <1>4
<1>6. \A m \in Payments : ledger[m] = Booked(StatusOf(m)) /\ outbox[m] = Told(StatusOf(m))
  BY DEF IInv, PaymentsAddUp, BooksMatchPayments
<1>7. ASSUME NEW m \in Payments
      PROVE  ledger'[m] = Booked(StatusOf(m)') /\ outbox'[m] = Told(StatusOf(m)')
  <2>1. CASE m = n
    <3>1. StatusOf(m) = payments[n].status /\ StatusOf(m)' = t
      BY <1>1, <2>1 DEF StatusOf
    <3>2. ledger'[m] = Append(ledger[n], entries) /\ outbox'[m] = Append(outbox[n], event)
      BY <1>1, <1>2, <1>3, <2>1
    <3>3. ledger[n] = Booked(payments[n].status) /\ outbox[n] = Told(payments[n].status)
      BY <1>6, <2>1, <3>1
    <3> QED BY <3>1, <3>2, <3>3
  <2>2. CASE m # n
    <3>1. StatusOf(m)' = StatusOf(m)
      BY <1>1, <2>2 DEF StatusOf, Payments
    <3>2. ledger'[m] = ledger[m] /\ outbox'[m] = outbox[m]
      BY <1>2, <1>3, <2>2
    <3> QED BY <1>6, <3>1, <3>2
  <2> QED BY <2>1, <2>2
<1> QED BY <1>5, <1>7 DEF BooksMatchPayments

\* applyPaymentSuccess: the guarded update finds the payment as it was read, CREATED, so
\* the fee is booked once, and the linked registration is confirmed with its invoice.
LEMMA SucceedKeepsIInv ==
  ASSUME IInv, NEW r \in Requests, Succeed(r)
  PROVE  IInv'
<1> DEFINE n == loc[r].pay
           i == payments[n].inv
           entry == [payments[n] EXCEPT !.status = "PAID"]
<1>1. n \in 1..Len(payments) /\ payments[n].status = "CREATED"
  BY DEF IInv, RefInv, ReferTo, Succeed, At, UnchangedSince
<1>2. payments \in Seq(PaymentRow) /\ payments[n] \in PaymentRow
  BY <1>1 DEF IInv, TypeOK
<1>3. /\ entry \in PaymentRow
      /\ entry.inv = payments[n].inv /\ entry.key = payments[n].key /\ entry.status = "PAID"
  BY <1>2 DEF PaymentRow, Statuses
<1>4. /\ payments' = [payments EXCEPT ![n] = entry] /\ Reply(r)
      /\ invoices' = [invoices EXCEPT ![i] = "PAID"]
      /\ reg' = ConfirmLinked(i)
      /\ Book(n, EntryFeeEntries, "PaymentCompleted") /\ UNCHANGED crashes
  BY DEF Succeed
<1>5. invoices \in Seq(Statuses) /\ i \in 1..Len(invoices)
  <2>1. Len(invoices) \in Nat /\ i <= Len(invoices)
    BY <1>1, TypesOfRequests DEF IInv, TypeOK
  <2> QED BY <1>2, <2>1 DEF PaymentRow, IInv, TypeOK
<1>6. /\ invoices' \in Seq(Statuses) /\ Len(invoices') = Len(invoices)
      /\ \A k \in 1..Len(invoices) : invoices'[k] = (IF k = i THEN "PAID" ELSE invoices[k])
  BY <1>4, <1>5 DEF Statuses
<1>7. /\ ControlOK' /\ RefInv' /\ OnePaymentPerKey'
      /\ payments' \in Seq(PaymentRow) /\ Len(payments') = Len(payments)
      /\ \A m \in 1..Len(payments) :
           payments'[m] = (IF m = n THEN entry ELSE payments[m])
      /\ \A m \in 1..Len(payments) : payments'[m].inv = payments[m].inv
  <2> HIDE DEF n, entry
  <2> QED BY <1>1, <1>3, <1>4, <1>6, RowWritten, Zenon
<1>8. \A m \in 1..Len(payments) :
        payments'[m].status = (IF m = n THEN "PAID" ELSE payments[m].status)
  BY <1>3, <1>7
<1>9. /\ BooksMatchPayments'
      /\ ledger' \in [Payments -> Seq(Seq(Entry))]
      /\ outbox' \in [Payments -> Seq({"PaymentCompleted", "RefundIssued"})]
  <2> HIDE DEF n
  <2> QED BY <1>1, <1>4, <1>7, <1>8, EntriesOK, BooksFollow
<1>10. /\ reg \in [invoice : 1..Len(invoices) \cup {Null}, confirmed : BOOLEAN, withdrawn : BOOLEAN]
       /\ reg' \in [invoice : 1..Len(invoices) \cup {Null}, confirmed : BOOLEAN, withdrawn : BOOLEAN]
       /\ reg'.invoice = reg.invoice
       /\ reg'.confirmed = (reg.confirmed \/ reg.invoice = i)
  BY <1>4 DEF ConfirmLinked, IInv, TypeOK
<1>11. TypeOK'
  <2>1. \A m \in 1..Len(payments') : payments'[m].inv <= Len(invoices')
    BY <1>6, <1>7 DEF IInv, TypeOK
  <2> QED BY <1>4, <1>6, <1>7, <1>9, <1>10, <2>1 DEF IInv, TypeOK, ControlOK, Locals
<1>12. PaidInvoiceConfirms'
  <2>1. CASE reg.invoice = i
    BY <1>10, <2>1 DEF PaidInvoiceConfirms
  <2>2. CASE reg.invoice # i
    BY <1>6, <1>10, <2>2 DEF IInv, PaymentsAddUp, PaidInvoiceConfirms
  <2> QED BY <2>1, <2>2
<1>13. Collected'
  <2>1. ASSUME NEW m \in 1..Len(payments), payments'[m].status # "CREATED"
        PROVE  invoices'[payments'[m].inv] # "CREATED"
    <3>1. payments[m] \in PaymentRow /\ payments[m].inv \in 1..Len(invoices)
      <4>1. Len(invoices) \in Nat /\ payments[m].inv <= Len(invoices) /\ payments[m] \in PaymentRow
        BY <1>2, TypesOfRequests DEF IInv, TypeOK
      <4> QED BY <4>1 DEF PaymentRow
    <3>2. CASE payments[m].inv = i
      BY <1>6, <1>7, <3>1, <3>2
    <3>3. CASE payments[m].inv # i
      <4>1. m # n
        BY <3>3
      <4>2. invoices[payments[m].inv] # "CREATED"
        BY <1>8, <2>1, <4>1 DEF IInv, Collected
      <4> QED BY <1>6, <1>7, <3>1, <3>3, <4>2
    <3> QED BY <3>2, <3>3
  <2> QED BY <1>7, <2>1 DEF Collected
<1> QED BY <1>7, <1>9, <1>11, <1>12, <1>13 DEF IInv, PaymentsAddUp

\* applyRefund: the guarded update finds the payment PAID, so the fee, booked by then, is
\* reversed once; the registration stays as it is.
LEMMA RefundKeepsIInv ==
  ASSUME IInv, NEW r \in Requests, Refund(r)
  PROVE  IInv'
<1> DEFINE n == loc[r].pay
           i == payments[n].inv
           entry == [payments[n] EXCEPT !.status = "REFUNDED"]
<1>1. n \in 1..Len(payments) /\ payments[n].status = "PAID"
  BY DEF IInv, RefInv, ReferTo, Refund, At, UnchangedSince
<1>2. payments \in Seq(PaymentRow) /\ payments[n] \in PaymentRow
  BY <1>1 DEF IInv, TypeOK
<1>3. /\ entry \in PaymentRow
      /\ entry.inv = payments[n].inv /\ entry.key = payments[n].key /\ entry.status = "REFUNDED"
  BY <1>2 DEF PaymentRow, Statuses
<1>4. /\ payments' = [payments EXCEPT ![n] = entry] /\ Reply(r)
      /\ invoices' = [invoices EXCEPT ![i] = "REFUNDED"]
      /\ Book(n, Reversed(EntryFeeEntries), "RefundIssued") /\ UNCHANGED <<reg, crashes>>
  BY DEF Refund, RefundInvoice
<1>5. invoices \in Seq(Statuses) /\ i \in 1..Len(invoices)
  <2>1. Len(invoices) \in Nat /\ i <= Len(invoices)
    BY <1>1, TypesOfRequests DEF IInv, TypeOK
  <2> QED BY <1>2, <2>1 DEF PaymentRow, IInv, TypeOK
<1>6. /\ invoices' \in Seq(Statuses) /\ Len(invoices') = Len(invoices)
      /\ \A k \in 1..Len(invoices) : invoices'[k] = (IF k = i THEN "REFUNDED" ELSE invoices[k])
  BY <1>4, <1>5 DEF Statuses
<1>7. /\ ControlOK' /\ RefInv' /\ OnePaymentPerKey'
      /\ payments' \in Seq(PaymentRow) /\ Len(payments') = Len(payments)
      /\ \A m \in 1..Len(payments) :
           payments'[m] = (IF m = n THEN entry ELSE payments[m])
      /\ \A m \in 1..Len(payments) : payments'[m].inv = payments[m].inv
  <2> HIDE DEF n, entry
  <2> QED BY <1>1, <1>3, <1>4, <1>6, RowWritten, Zenon
<1>8. \A m \in 1..Len(payments) :
        payments'[m].status = (IF m = n THEN "REFUNDED" ELSE payments[m].status)
  BY <1>3, <1>7
<1>9. /\ BooksMatchPayments'
      /\ ledger' \in [Payments -> Seq(Seq(Entry))]
      /\ outbox' \in [Payments -> Seq({"PaymentCompleted", "RefundIssued"})]
  <2> HIDE DEF n
  <2> QED BY <1>1, <1>4, <1>7, <1>8, EntriesOK, BooksFollow
<1>10. TypeOK'
  <2>1. \A m \in 1..Len(payments') : payments'[m].inv <= Len(invoices')
    BY <1>6, <1>7 DEF IInv, TypeOK
  <2> QED BY <1>4, <1>6, <1>7, <1>9, <2>1 DEF IInv, TypeOK, ControlOK, Locals
<1>11. PaidInvoiceConfirms'
  <2>1. reg.invoice \in 1..Len(invoices) \cup {Null}
    BY DEF IInv, TypeOK
  <2>2. CASE reg.invoice = i
    <3>1. invoices[i] # "CREATED" /\ reg.invoice # Null
      BY <1>1, <1>5, <2>2 DEF IInv, Collected
    <3>2. reg.confirmed
      BY <1>5, <2>2, <3>1 DEF IInv, PaymentsAddUp, PaidInvoiceConfirms, Statuses
    <3> QED BY <1>4, <3>2 DEF PaidInvoiceConfirms
  <2>3. CASE reg.invoice # i
    BY <1>4, <1>6, <2>1, <2>3 DEF IInv, PaymentsAddUp, PaidInvoiceConfirms
  <2> QED BY <2>2, <2>3
<1>12. Collected'
  <2>1. ASSUME NEW m \in 1..Len(payments), payments'[m].status # "CREATED"
        PROVE  invoices'[payments'[m].inv] # "CREATED"
    <3>1. payments[m].inv \in 1..Len(invoices)
      <4>1. Len(invoices) \in Nat /\ payments[m].inv <= Len(invoices) /\ payments[m] \in PaymentRow
        BY <1>2, TypesOfRequests DEF IInv, TypeOK
      <4> QED BY <4>1 DEF PaymentRow
    <3>2. CASE payments[m].inv = i
      BY <1>6, <1>7, <3>1, <3>2
    <3>3. CASE payments[m].inv # i
      <4>1. invoices[payments[m].inv] # "CREATED"
        BY <1>8, <2>1, <3>3 DEF IInv, Collected
      <4> QED BY <1>6, <1>7, <3>1, <3>3, <4>1
    <3> QED BY <3>2, <3>3
  <2> QED BY <1>7, <2>1 DEF Collected
<1> QED BY <1>7, <1>9, <1>10, <1>11, <1>12 DEF IInv, PaymentsAddUp

\* The player withdraws; the invoice and what was paid on it stay.
LEMMA WithdrawKeepsIInv ==
  ASSUME IInv, Withdraw
  PROVE  IInv'
<1>1. /\ reg' \in [invoice : 1..Len(invoices) \cup {Null}, confirmed : BOOLEAN, withdrawn : BOOLEAN]
      /\ reg'.invoice = reg.invoice /\ reg'.confirmed = reg.confirmed
  BY DEF Withdraw, IInv, TypeOK
<1>2. UNCHANGED <<invoices, payments, ledger, outbox, pc, loc, crashes>>
  BY DEF Withdraw
<1>3. TypeOK' /\ RefInv'
  BY <1>1, <1>2 DEF IInv, TypeOK, RefInv
<1>4. BooksMatchPayments' /\ OnePaymentPerKey' /\ Collected'
  BY <1>2 DEF IInv, PaymentsAddUp, BooksMatchPayments, OnePaymentPerKey, Collected,
              Booked, Told, StatusOf
<1>5. PaidInvoiceConfirms'
  BY <1>1, <1>2 DEF IInv, PaymentsAddUp, PaidInvoiceConfirms
<1> QED BY <1>3, <1>4, <1>5 DEF IInv, PaymentsAddUp

\* A request that dies lets go of everything; its open transaction leaves no trace.
LEMMA CrashKeepsIInv ==
  ASSUME IInv, NEW r \in Requests, Crash(r)
  PROVE  IInv'
<1> DEFINE ni == Len(invoices)
           np == Len(payments)
<1>1. ControlOK /\ ni \in Nat /\ np \in Nat
  BY TypesOfRequests DEF IInv
<1>2. UNCHANGED <<reg, invoices, payments, ledger, outbox>> /\ crashes' \in Nat /\ Reply(r)
  BY DEF Crash, tables, IInv, TypeOK
<1>3. ControlOK'
  BY <1>1, <1>2, GotoControl, BlankOK DEF Reply
<1>4. RefInv'
  <2>1. \A s \in Requests : ReferTo(pc[s], loc[s], ni, np)
    BY DEF IInv, RefInv
  <2>2. Goto(r, "idle", Blank) /\ ReferTo("idle", Blank, ni, np)
    BY <1>2, BlankRefers DEF Reply
  <2>3. ni <= ni /\ np <= np
    BY <1>1
  <2>4. \A s \in Requests : ReferTo(pc'[s], loc'[s], ni, np)
    <3> HIDE DEF ni, np
    <3> QED BY <1>1, <2>1, <2>2, <2>3, GotoRefer
  <2> QED BY <1>2, <2>4 DEF RefInv
<1>5. TypeOK'
  BY <1>2, <1>3 DEF IInv, TypeOK, ControlOK, Locals
<1>6. PaymentsAddUp' /\ Collected'
  BY <1>2 DEF IInv, PaymentsAddUp, BooksMatchPayments, OnePaymentPerKey, PaidInvoiceConfirms,
              Collected, Booked, Told, StatusOf
<1> QED BY <1>4, <1>5, <1>6 DEF IInv

-----------------------------------------------------------------------------
(* The theorems. *)

LEMMA InitIInv == Init => IInv
<1> SUFFICES ASSUME Init PROVE IInv
  OBVIOUS
<1>1. /\ reg = [invoice |-> Null, confirmed |-> FALSE, withdrawn |-> FALSE]
      /\ invoices = <<>> /\ payments = <<>> /\ crashes = 0
      /\ ledger = [n \in Payments |-> <<>>] /\ outbox = [n \in Payments |-> <<>>]
      /\ pc = [r \in Requests |-> "idle"] /\ loc = [r \in Requests |-> Blank]
  BY DEF Init, Unbilled
<1>2. TypeOK
  <2>1. reg \in [invoice : 1..Len(invoices) \cup {Null}, confirmed : BOOLEAN, withdrawn : BOOLEAN]
    BY <1>1
  <2>2. /\ invoices \in Seq(Statuses) /\ payments \in Seq(PaymentRow) /\ crashes \in Nat
        /\ Len(payments) <= MaxPayments
        /\ \A n \in 1..Len(payments) : payments[n].inv <= Len(invoices)
    BY <1>1
  <2>3. /\ ledger \in [Payments -> Seq(Seq(Entry))]
        /\ outbox \in [Payments -> Seq({"PaymentCompleted", "RefundIssued"})]
    BY <1>1
  <2>4. pc \in [Requests -> Labels] /\ loc \in [Requests -> Locals]
    BY <1>1, BlankOK
  <2> QED BY <2>1, <2>2, <2>3, <2>4 DEF TypeOK, Locals
<1>3. RefInv
  BY <1>1, BlankRefers DEF RefInv
<1>4. PaymentsAddUp
  <2>1. \A n \in Payments : StatusOf(n) = "CREATED"
    BY <1>1 DEF StatusOf, Payments
  <2>2. BooksMatchPayments
    BY <1>1, <2>1 DEF BooksMatchPayments, Booked, Told
  <2>3. OnePaymentPerKey /\ PaidInvoiceConfirms
    BY <1>1 DEF OnePaymentPerKey, PaidInvoiceConfirms
  <2> QED BY <2>2, <2>3 DEF PaymentsAddUp
<1>5. Collected
  BY <1>1 DEF Collected
<1> QED BY <1>2, <1>3, <1>4, <1>5 DEF IInv

LEMMA NextIInv == IInv /\ [Next]_vars => IInv'
<1> SUFFICES ASSUME IInv, [Next]_vars PROVE IInv'
  OBVIOUS
<1>1. ASSUME NEW r \in Requests,
             \/ BeginInvoice(r) \/ ViewRegistration(r) \/ CheckExisting(r)
             \/ ReadNumber(r) \/ NumberTaken(r)
             \/ BeginPay(r) \/ ReadInvoice(r) \/ LookupKey(r) \/ KeyTaken(r)
             \/ BeginConfirm(r) \/ ReadForSuccess(r)
             \/ BeginRefund(r) \/ ReadForRefund(r) \/ CasLost(r)
      PROVE  IInv'
  BY <1>1, ReadersKeepIInv
<1>2. ASSUME NEW r \in Requests,
             \/ InsertInvoice(r) \/ CreatePayment(r) \/ SetCheckout(r)
             \/ Succeed(r) \/ Refund(r) \/ Crash(r)
      PROVE  IInv'
  BY <1>2, InsertKeepsIInv, CreateKeepsIInv, CheckoutKeepsIInv, SucceedKeepsIInv,
     RefundKeepsIInv, CrashKeepsIInv
<1>3. CASE Withdraw
  BY <1>3, WithdrawKeepsIInv
<1>4. CASE UNCHANGED vars
  <2>1. UNCHANGED <<reg, invoices, payments, ledger, outbox, pc, loc, crashes>>
    BY <1>4 DEF vars
  <2>2. TypeOK' /\ RefInv'
    BY <2>1 DEF IInv, TypeOK, RefInv
  <2>3. PaymentsAddUp' /\ Collected'
    BY <2>1 DEF IInv, PaymentsAddUp, BooksMatchPayments, OnePaymentPerKey, PaidInvoiceConfirms,
                Collected, Booked, Told, StatusOf
  <2> QED BY <2>2, <2>3 DEF IInv
<1> QED BY <1>1, <1>2, <1>3, <1>4 DEF Next

\* However many requests overlap or die, the rows of billing and what every request holds
\* stay well formed: a reference always leads to a row.
THEOREM TypesHold == Spec => []TypeOK
<1>1. IInv => TypeOK
  BY DEF IInv
<1> QED BY InitIInv, NextIInv, <1>1, PTL DEF Spec

\* What payments leave behind adds up: the books and the outbox of every payment are those
\* of its status, exactly once (applyPaymentSuccess, applyRefund), one payment answers for
\* one idempotency key (createPaymentIdempotent), and money taken on the invoice of a
\* registration has confirmed it.
THEOREM PaymentsAlwaysAddUp == Spec => []PaymentsAddUp
<1>1. IInv => PaymentsAddUp
  BY DEF IInv
<1> QED BY InitIInv, NextIInv, <1>1, PTL DEF Spec

-----------------------------------------------------------------------------
(* Roles, one administrative request at a time.  The last super-administrator  *)
(* stays because whoever is counted beside him is still there when the row is  *)
(* written; the cache is late by expiry only because every write is followed   *)
(* by the invalidation of the user it was about.                               *)

RoleNames == {"SUPER_ADMIN", "ARBITER"}
RoleScopes == {Null, "TOURNAMENT"}
RoleRows == [id : Nat, user : Accounts, role : RoleNames, scope : RoleScopes, until : {"never", "later", "past"}]
RoleViews == [id : Nat, role : RoleNames, scope : RoleScopes]
RoleLocals ==
  [kind : {"none", "visit", "grant", "revoke", "status"}, actor : Accounts \cup {Null}, own : SUBSET RoleViews,
   user : Accounts \cup {Null}, row : Nat, role : RoleNames \cup {Null}, scope : RoleScopes,
   until : {"never", "later"}, governs : BOOLEAN, to : {Null, "ACTIVE", "SUSPENDED"}]

RoleTypes ==
  /\ rows \subseteq RoleRows /\ IsFiniteSet(rows) /\ granted \in Nat
  /\ \A x \in rows : x.id \in 1..granted
  /\ status \in [Accounts -> {"ACTIVE", "SUSPENDED"}]
  /\ cache \in [Accounts -> {Null} \cup SUBSET RoleViews]
  /\ smooth \in BOOLEAN
  /\ pc \in [Requests -> {"idle", "miss", "fill", "act", "count", "write", "forget"}]
  /\ loc \in [Requests -> RoleLocals]

\* A row is known by its id, and by what it gives to whom; super-administrators are so for good.
RowsApart ==
  /\ \A x, y \in rows : x.id = y.id => x = y
  /\ \A x, y \in rows : x.user = y.user /\ x.role = y.role /\ x.scope = y.scope => x = y
  /\ \A x \in rows : x.role = "SUPER_ADMIN" => x.scope = Null /\ x.until = "never"

Governor(x, standing) == x.role = "SUPER_ADMIN" /\ standing[x.user] = "ACTIVE"
Governed == \E x \in rows : Governor(x, status)

\* What is kept of u's roles, of those in a table: all in force, and none that is not there.
Kept(some, u, own) ==
  /\ Admin!View({x \in some : x.user = u /\ x.until # "past"}) \subseteq own
  /\ own \subseteq Admin!View({x \in some : x.user = u})

\* A request under way, in a table of roles and the standing of the users: the row it will write
\* is as it read it, and it does not take the last super-administrator away.
GrantOK(label, l, some) ==
  l.kind = "grant" =>
    /\ l.user \in Accounts /\ l.role \in RoleNames /\ label # "count"
    /\ l.role = "SUPER_ADMIN" => l.scope = Null /\ l.until = "never"
    /\ label = "write" => \A x \in some : ~(x.user = l.user /\ x.role = l.role /\ x.scope = l.scope)
RevokeOK(label, l, some, standing) ==
  l.kind = "revoke" /\ label \in {"count", "write"} =>
    /\ \E x \in some : x.id = l.row /\ x.user = l.user /\ x.role = l.role /\ x.scope = l.scope
    /\ label = "write" /\ l.role = "SUPER_ADMIN" => \E x \in some : x.id # l.row /\ Governor(x, standing)
StatusOK(label, l, some, standing) ==
  l.kind = "status" =>
    /\ l.user \in Accounts /\ l.to \in {"ACTIVE", "SUSPENDED"}
    /\ label \in {"count", "write"} => (l.governs <=> \E x \in some : x.user = l.user /\ x.role = "SUPER_ADMIN")
    /\ label = "write" /\ l.to = "SUSPENDED" => \E x \in some : x.user # l.user /\ Governor(x, standing)

RoleRequestOK(label, l, some, standing) ==
  label # "idle" =>
    /\ l.actor \in Accounts /\ l.kind # "none"
    /\ GrantOK(label, l, some) /\ RevokeOK(label, l, some, standing) /\ StatusOK(label, l, some, standing)
    /\ label = "fill" => Kept(some, l.actor, l.own)
    /\ label = "forget" => l.user \in Accounts
    /\ label \in {"count", "write", "forget"} => l.kind # "visit"

AloneInRoles == \A q, r \in Requests : pc[q] # "idle" /\ pc[r] # "idle" => q = r

CacheFresh ==
  smooth => \A k \in Accounts :
    cache[k] = Null \/ Kept(rows, k, cache[k]) \/ \E r \in Requests : pc[r] = "forget" /\ loc[r].user = k

RoleInv ==
  /\ RoleTypes /\ RowsApart /\ Governed /\ AloneInRoles /\ CacheFresh
  /\ \A r \in Requests : RoleRequestOK(pc[r], loc[r], rows, status)

-----------------------------------------------------------------------------

RoleLabels == {"idle", "miss", "fill", "act", "count", "write", "forget"}

LEMMA RoleBlank == Admin!Blank \in RoleLocals
  BY DEF Admin!Blank, RoleLocals, RoleNames, RoleScopes

LEMMA RoleGoto ==
  ASSUME RoleTypes, NEW r \in Requests, NEW label \in RoleLabels, NEW l \in RoleLocals, Admin!Goto(r, label, l)
  PROVE  /\ pc' \in [Requests -> RoleLabels] /\ loc' \in [Requests -> RoleLocals]
         /\ pc'[r] = label /\ loc'[r] = l
         /\ \A q \in Requests \ {r} : pc'[q] = pc[q] /\ loc'[q] = loc[q]
<1>1. pc \in [Requests -> RoleLabels] /\ loc \in [Requests -> RoleLocals]
  BY DEF RoleTypes, RoleLabels
<1>2. pc' = [pc EXCEPT ![r] = label] /\ loc' = [loc EXCEPT ![r] = l]
  BY DEF Admin!Goto
<1> HIDE DEF RoleLabels, RoleLocals
<1> QED BY <1>1, <1>2

\* A request that moves on by itself leaves the others idle; it is enough that what it holds is sound.
LEMMA RoleMoves ==
  ASSUME RoleInv, NEW r \in Requests, \A q \in Requests \ {r} : pc[q] = "idle",
         NEW label \in RoleLabels, NEW l \in RoleLocals, Admin!Goto(r, label, l),
         RoleRequestOK(label, l, rows', status'),
         rows' \subseteq RoleRows, IsFiniteSet(rows'), granted' \in Nat, \A x \in rows' : x.id \in 1..granted',
         status' \in [Accounts -> {"ACTIVE", "SUSPENDED"}], cache' \in [Accounts -> {Null} \cup SUBSET RoleViews],
         smooth' \in BOOLEAN, RowsApart', Governed',
         smooth' => \A k \in Accounts :
           cache'[k] = Null \/ Kept(rows', k, cache'[k]) \/ (label = "forget" /\ l.user = k)
  PROVE  RoleInv'
<1>1. RoleTypes
  BY DEF RoleInv
<1>2. /\ pc' \in [Requests -> RoleLabels] /\ loc' \in [Requests -> RoleLocals]
      /\ pc'[r] = label /\ loc'[r] = l
      /\ \A q \in Requests \ {r} : pc'[q] = "idle"
  BY <1>1, RoleGoto
<1>3. RoleTypes'
  BY <1>2 DEF RoleTypes, RoleLabels
<1>4. AloneInRoles'
  BY <1>2 DEF AloneInRoles
<1>5. CacheFresh'
  BY <1>2 DEF CacheFresh
<1>6. \A q \in Requests : RoleRequestOK(pc'[q], loc'[q], rows', status')
  BY <1>2 DEF RoleRequestOK
<1> QED BY <1>3, <1>4, <1>5, <1>6 DEF RoleInv

\* Unless it is about to invalidate, what is kept is as the table has it.
LEMMA CacheNow ==
  ASSUME RoleInv, smooth, NEW r \in Requests, \A q \in Requests \ {r} : pc[q] = "idle", pc[r] # "forget",
         NEW k \in Accounts
  PROVE  cache[k] = Null \/ Kept(rows, k, cache[k])
  BY DEF RoleInv, CacheFresh

\* It moves on and writes nothing but the cache.
LEMMA RoleReads ==
  ASSUME RoleInv, NEW r \in Requests, \A q \in Requests \ {r} : pc[q] = "idle",
         NEW label \in RoleLabels, NEW l \in RoleLocals, Admin!Goto(r, label, l),
         RoleRequestOK(label, l, rows, status), UNCHANGED <<rows, status, granted>>,
         cache' \in [Accounts -> {Null} \cup SUBSET RoleViews], smooth' \in BOOLEAN,
         smooth' => \A k \in Accounts : cache'[k] = Null \/ Kept(rows, k, cache'[k])
  PROVE  RoleInv'
<1>1. /\ rows' \subseteq RoleRows /\ IsFiniteSet(rows') /\ granted' \in Nat /\ \A x \in rows' : x.id \in 1..granted'
      /\ status' \in [Accounts -> {"ACTIVE", "SUSPENDED"}] /\ RowsApart' /\ Governed'
  BY DEF RoleInv, RoleTypes, RowsApart, Governed, Governor
<1>2. RoleRequestOK(label, l, rows', status')
  OBVIOUS
<1>3. smooth' => \A k \in Accounts :
        cache'[k] = Null \/ Kept(rows', k, cache'[k]) \/ (label = "forget" /\ l.user = k)
  OBVIOUS
<1> QED BY <1>1, <1>2, <1>3, RoleMoves

\* ... nor the cache.
LEMMA RoleThinks ==
  ASSUME RoleInv, NEW r \in Requests, \A q \in Requests \ {r} : pc[q] = "idle", pc[r] # "forget",
         NEW label \in RoleLabels, NEW l \in RoleLocals, Admin!Goto(r, label, l),
         RoleRequestOK(label, l, rows, status), UNCHANGED <<rows, status, granted, cache, smooth>>
  PROVE  RoleInv'
<1>1. cache' \in [Accounts -> {Null} \cup SUBSET RoleViews] /\ smooth' \in BOOLEAN
  BY DEF RoleInv, RoleTypes
<1>2. smooth' => \A k \in Accounts : cache'[k] = Null \/ Kept(rows, k, cache'[k])
  BY CacheNow
<1> QED BY <1>1, <1>2, RoleReads

LEMMA RoleReplies ==
  ASSUME RoleInv, NEW r \in Requests, \A q \in Requests \ {r} : pc[q] = "idle", pc[r] # "forget",
         Admin!Reply(r), UNCHANGED <<rows, status, granted, cache, smooth>>
  PROVE  RoleInv'
<1>1. Admin!Goto(r, "idle", Admin!Blank) /\ "idle" \in RoleLabels
  BY DEF Admin!Reply, RoleLabels
<1>2. RoleRequestOK("idle", Admin!Blank, rows, status)
  BY DEF RoleRequestOK
<1> QED BY <1>1, <1>2, RoleBlank, RoleThinks

LEMMA ViewsOfRows == \A some \in SUBSET RoleRows : Admin!View(some) \subseteq RoleViews
  BY DEF Admin!View, RoleRows, RoleViews

-----------------------------------------------------------------------------

\* A request comes in, with its actor's roles or without.
LEMMA ArriveStep ==
  ASSUME RoleInv, NEW r \in Requests, \A q \in Requests \ {r} : pc[q] = "idle", pc[r] = "idle",
         UNCHANGED <<rows, status, cache, granted, smooth>>,
         NEW l \in RoleLocals, l.actor \in Accounts, l.kind # "none", Admin!Arrive(r, l),
         l.kind = "grant" => /\ l.user \in Accounts /\ l.role \in RoleNames
                             /\ (l.role = "SUPER_ADMIN" => l.scope = Null /\ l.until = "never"),
         l.kind = "status" => l.user \in Accounts /\ l.to \in {"ACTIVE", "SUSPENDED"}
  PROVE  RoleInv'
<1> DEFINE k == l.actor
<1>1. ASSUME NEW m \in RoleLocals, NEW label \in {"act", "miss"}, m.actor = l.actor, m.kind = l.kind, m.user = l.user,
             m.role = l.role, m.scope = l.scope, m.until = l.until, m.to = l.to
      PROVE  RoleRequestOK(label, m, rows, status)
  BY <1>1 DEF RoleRequestOK, GrantOK, RevokeOK, StatusOK
<1>2. CASE cache[k] # Null
  <2> DEFINE m == [l EXCEPT !.own = cache[k]]
  <2>1. cache[k] \in SUBSET RoleViews
    BY <1>2 DEF RoleInv, RoleTypes
  <2>2. /\ m \in RoleLocals /\ m.actor = l.actor /\ m.kind = l.kind /\ m.user = l.user
        /\ m.role = l.role /\ m.scope = l.scope /\ m.until = l.until /\ m.to = l.to
    BY <2>1 DEF RoleLocals
  <2>3. Admin!Goto(r, "act", m)
    BY <1>2 DEF Admin!Arrive
  <2> HIDE DEF m
  <2>4. RoleRequestOK("act", m, rows, status)
    BY <2>2, <1>1
  <2> QED BY <2>2, <2>3, <2>4, RoleThinks DEF RoleLabels
<1>3. CASE cache[k] = Null
  <2>1. Admin!Goto(r, "miss", l)
    BY <1>3 DEF Admin!Arrive
  <2>2. RoleRequestOK("miss", l, rows, status)
    BY <1>1
  <2> QED BY <2>1, <2>2, RoleThinks DEF RoleLabels
<1> QED BY <1>2, <1>3

LEMMA BeginRoleStep ==
  ASSUME RoleInv, NEW r \in Requests, \A q \in Requests \ {r} : pc[q] = "idle", Admin!BeginRequest(r)
  PROVE  RoleInv'
<1>1. pc[r] = "idle" /\ UNCHANGED <<rows, status, cache, granted, smooth>> /\ granted \in Nat
  BY DEF Admin!BeginRequest, RoleInv, RoleTypes
<1>2. PICK k \in Accounts :
        LET by == [Admin!Blank EXCEPT !.actor = k] IN
        \/ Admin!Arrive(r, [by EXCEPT !.kind = "visit"])
        \/ \E v \in Accounts,
              g \in {[role |-> "SUPER_ADMIN", scope |-> Null], [role |-> "ARBITER", scope |-> "TOURNAMENT"]},
              until \in {"never", "later"} :
             /\ until = "later" => g \in {[role |-> "ARBITER", scope |-> "TOURNAMENT"]}
             /\ Admin!Arrive(r, [by EXCEPT !.kind = "grant", !.user = v, !.role = g.role, !.scope = g.scope,
                                           !.until = until])
        \/ \E id \in 1..granted : Admin!Arrive(r, [by EXCEPT !.kind = "revoke", !.row = id])
        \/ \E v \in Accounts, to \in {"ACTIVE", "SUSPENDED"} :
             Admin!Arrive(r, [by EXCEPT !.kind = "status", !.user = v, !.to = to])
  BY DEF Admin!BeginRequest
<1> DEFINE by == [Admin!Blank EXCEPT !.actor = k]
<1>3. ASSUME Admin!Arrive(r, [by EXCEPT !.kind = "visit"]) PROVE RoleInv'
  <2> DEFINE l == [by EXCEPT !.kind = "visit"]
  <2>1. l \in RoleLocals /\ l.actor = k /\ l.kind = "visit"
    BY DEF Admin!Blank, RoleLocals, RoleNames, RoleScopes
  <2>2. Admin!Arrive(r, l)
    BY <1>3
  <2> HIDE DEF l
  <2> QED BY <1>1, <2>1, <2>2, ArriveStep
<1>4. ASSUME NEW v \in Accounts,
             NEW g \in {[role |-> "SUPER_ADMIN", scope |-> Null], [role |-> "ARBITER", scope |-> "TOURNAMENT"]},
             NEW until \in {"never", "later"}, until = "later" => g \in {[role |-> "ARBITER", scope |-> "TOURNAMENT"]},
             Admin!Arrive(r, [by EXCEPT !.kind = "grant", !.user = v, !.role = g.role, !.scope = g.scope,
                                        !.until = until])
      PROVE  RoleInv'
  <2> DEFINE l == [by EXCEPT !.kind = "grant", !.user = v, !.role = g.role, !.scope = g.scope, !.until = until]
  <2>1. g.role \in RoleNames /\ g.scope \in RoleScopes /\ (g.role = "SUPER_ADMIN" => g.scope = Null /\ until = "never")
    BY <1>4 DEF RoleNames, RoleScopes
  <2>2. /\ l \in RoleLocals /\ l.actor = k /\ l.kind = "grant" /\ l.user = v
        /\ l.role = g.role /\ l.scope = g.scope /\ l.until = until
    BY <2>1 DEF Admin!Blank, RoleLocals
  <2>3. Admin!Arrive(r, l)
    BY <1>4
  <2> HIDE DEF l
  <2> QED BY <1>1, <2>1, <2>2, <2>3, ArriveStep
<1>5. ASSUME NEW id \in 1..granted, Admin!Arrive(r, [by EXCEPT !.kind = "revoke", !.row = id]) PROVE RoleInv'
  <2> DEFINE l == [by EXCEPT !.kind = "revoke", !.row = id]
  <2>1. id \in Nat
    BY <1>1
  <2>2. l \in RoleLocals /\ l.actor = k /\ l.kind = "revoke"
    BY <2>1 DEF Admin!Blank, RoleLocals, RoleNames, RoleScopes
  <2>3. Admin!Arrive(r, l)
    BY <1>5
  <2> HIDE DEF l
  <2> QED BY <1>1, <2>2, <2>3, ArriveStep
<1>6. ASSUME NEW v \in Accounts, NEW to \in {"ACTIVE", "SUSPENDED"},
             Admin!Arrive(r, [by EXCEPT !.kind = "status", !.user = v, !.to = to])
      PROVE  RoleInv'
  <2> DEFINE l == [by EXCEPT !.kind = "status", !.user = v, !.to = to]
  <2>1. l \in RoleLocals /\ l.actor = k /\ l.kind = "status" /\ l.user = v /\ l.to = to
    BY DEF Admin!Blank, RoleLocals, RoleNames, RoleScopes
  <2>2. Admin!Arrive(r, l)
    BY <1>6
  <2> HIDE DEF l
  <2> QED BY <1>1, <2>1, <2>2, ArriveStep
<1> HIDE DEF by
<1> QED BY <1>2, <1>3, <1>4, <1>5, <1>6 DEF by

LEMMA RoleState ==
  ASSUME RoleInv, NEW r \in Requests, pc[r] # "idle"
  PROVE  loc[r] \in RoleLocals /\ RoleRequestOK(pc[r], loc[r], rows, status) /\ loc[r].actor \in Accounts
  BY DEF RoleInv, RoleTypes, RoleRequestOK

LEMMA ReadRowsStep ==
  ASSUME RoleInv, NEW r \in Requests, \A q \in Requests \ {r} : pc[q] = "idle", Admin!ReadRows(r)
  PROVE  RoleInv'
<1> DEFINE l == loc[r]
           own == Admin!View(Admin!ActiveRows(l.actor))
           m == [l EXCEPT !.own = own]
<1>1. pc[r] = "miss" /\ UNCHANGED <<rows, status, cache, granted, smooth>> /\ Admin!Goto(r, "fill", m)
  BY DEF Admin!ReadRows
<1>2. l \in RoleLocals /\ RoleRequestOK("miss", l, rows, status)
  BY <1>1, RoleState
<1>3. Kept(rows, l.actor, own)
  BY DEF Kept, Admin!View, Admin!ActiveRows
<1>4. own \in SUBSET RoleViews
  <2>1. Admin!ActiveRows(l.actor) \in SUBSET RoleRows
    BY DEF RoleInv, RoleTypes, Admin!ActiveRows
  <2> QED BY <2>1, ViewsOfRows
<1> HIDE DEF own
<1>5. /\ m \in RoleLocals /\ m.own = own /\ m.actor = l.actor /\ m.kind = l.kind /\ m.user = l.user
      /\ m.role = l.role /\ m.scope = l.scope /\ m.until = l.until /\ m.to = l.to
  BY <1>2, <1>4 DEF RoleLocals
<1> HIDE DEF m
<1>6. RoleRequestOK("fill", m, rows, status)
  BY <1>2, <1>3, <1>5 DEF RoleRequestOK, GrantOK, RevokeOK, StatusOK
<1> QED BY <1>1, <1>5, <1>6, RoleThinks DEF RoleLabels

LEMMA FillCacheStep ==
  ASSUME RoleInv, NEW r \in Requests, \A q \in Requests \ {r} : pc[q] = "idle", Admin!FillCache(r)
  PROVE  RoleInv'
<1> DEFINE l == loc[r]
<1>1. /\ pc[r] = "fill" /\ UNCHANGED <<rows, status, granted, smooth>> /\ Admin!Goto(r, "act", l)
      /\ cache' = [cache EXCEPT ![l.actor] = l.own]
  BY DEF Admin!FillCache
<1>2. l \in RoleLocals /\ RoleRequestOK("fill", l, rows, status) /\ l.actor \in Accounts
  BY <1>1, RoleState
<1>3. RoleRequestOK("act", l, rows, status)
  BY <1>2 DEF RoleRequestOK, GrantOK, RevokeOK, StatusOK
<1>4. cache \in [Accounts -> {Null} \cup SUBSET RoleViews] /\ l.own \in SUBSET RoleViews /\ smooth' \in BOOLEAN
  BY <1>1, <1>2 DEF RoleInv, RoleTypes, RoleLocals
<1>5. cache' \in [Accounts -> {Null} \cup SUBSET RoleViews]
  BY <1>1, <1>4
<1>6. smooth' => \A k \in Accounts : cache'[k] = Null \/ Kept(rows, k, cache'[k])
  <2> SUFFICES ASSUME smooth, NEW k \in Accounts PROVE cache'[k] = Null \/ Kept(rows, k, cache'[k])
    BY <1>1
  <2>1. CASE k = l.actor
    <3>1. cache'[k] = l.own
      BY <2>1, <1>1, <1>4
    <3>2. Kept(rows, k, l.own)
      BY <2>1, <1>2 DEF RoleRequestOK
    <3> QED BY <3>1, <3>2
  <2>2. CASE k # l.actor
    BY <2>2, <1>1, <1>4, CacheNow
  <2> QED BY <2>1, <2>2
<1> HIDE DEF l
<1> QED BY <1>1, <1>2, <1>3, <1>5, <1>4, <1>6, RoleReads DEF RoleLabels

LEMMA ReadTargetStep ==
  ASSUME RoleInv, NEW r \in Requests, \A q \in Requests \ {r} : pc[q] = "idle", Admin!ReadTarget(r)
  PROVE  RoleInv'
<1> DEFINE l == loc[r]
<1>1. pc[r] = "act" /\ UNCHANGED <<rows, status, cache, granted, smooth>>
  BY DEF Admin!ReadTarget
<1>2. l \in RoleLocals /\ RoleRequestOK("act", l, rows, status) /\ l.actor \in Accounts
  BY <1>1, RoleState
<1>3. CASE Admin!Reply(r)
  BY <1>1, <1>3, RoleReplies
<1>4. CASE ~Admin!Reply(r) /\ l.kind = "grant"
  <2>1. Admin!Goto(r, "write", l) /\ \A x \in rows : ~(x.user = l.user /\ x.role = l.role /\ x.scope = l.scope)
    BY <1>4 DEF Admin!ReadTarget
  <2>2. RoleRequestOK("write", l, rows, status)
    BY <2>1, <1>2, <1>4 DEF RoleRequestOK, GrantOK, RevokeOK, StatusOK
  <2> QED BY <1>1, <1>2, <2>1, <2>2, RoleThinks DEF RoleLabels
<1>5. CASE ~Admin!Reply(r) /\ l.kind = "revoke"
  <2> DEFINE x == CHOOSE y \in rows : y.id = l.row
             m == [l EXCEPT !.user = x.user, !.role = x.role, !.scope = x.scope]
  <2>1. Admin!Goto(r, "count", m) /\ \E y \in rows : y.id = l.row
    BY <1>5 DEF Admin!ReadTarget
  <2>2. x \in rows /\ x.id = l.row
    BY <2>1
  <2> HIDE DEF x
  <2>3. x \in RoleRows
    BY <2>2 DEF RoleInv, RoleTypes
  <2>4. /\ m \in RoleLocals /\ m.kind = "revoke" /\ m.actor = l.actor /\ m.row = l.row
        /\ m.user = x.user /\ m.role = x.role /\ m.scope = x.scope
    BY <1>2, <1>5, <2>3 DEF RoleLocals, RoleRows
  <2> HIDE DEF m
  <2>5. RoleRequestOK("count", m, rows, status)
    BY <1>2, <2>2, <2>4 DEF RoleRequestOK, GrantOK, RevokeOK, StatusOK
  <2> QED BY <1>1, <2>1, <2>4, <2>5, RoleThinks DEF RoleLabels
<1>6. CASE ~Admin!Reply(r) /\ l.kind \notin {"grant", "revoke"}
  <2> DEFINE governs == Admin!Governing({x \in rows : x.user = l.user}) # {}
             m == [l EXCEPT !.governs = governs]
  <2>1. Admin!Goto(r, "count", m) /\ l.kind # "visit"
    BY <1>6 DEF Admin!ReadTarget
  <2>2. governs <=> \E x \in rows : x.user = l.user /\ x.role = "SUPER_ADMIN"
    BY DEF Admin!Governing, RoleInv, RowsApart
  <2>3. governs \in BOOLEAN /\ l.kind = "status"
    BY <1>2, <1>6, <2>1 DEF RoleLocals, RoleRequestOK
  <2> HIDE DEF governs
  <2>4. /\ m \in RoleLocals /\ m.kind = l.kind /\ m.actor = l.actor /\ m.user = l.user /\ m.to = l.to
        /\ m.governs = governs
    BY <1>2, <2>3 DEF RoleLocals
  <2> HIDE DEF m
  <2>5. RoleRequestOK("count", m, rows, status)
    BY <1>2, <2>2, <2>3, <2>4 DEF RoleRequestOK, GrantOK, RevokeOK, StatusOK
  <2> QED BY <1>1, <2>1, <2>4, <2>5, RoleThinks DEF RoleLabels
<1> QED BY <1>3, <1>4, <1>5, <1>6

\* More than one of a finite set: another one for each.
LEMMA Another ==
  ASSUME NEW S, IsFiniteSet(S), ~(Cardinality(S) <= 1), NEW P, NEW x \in S
  PROVE  \E y \in S : y # x
<1> SUFFICES ASSUME \A y \in S : y = x PROVE FALSE
  OBVIOUS
<1>1. S = {x}
  OBVIOUS
<1> QED BY <1>1, FS_Singleton

LEMMA AdminCardinality == ASSUME NEW S PROVE Admin!Cardinality(S) = Cardinality(S)
  BY DEF Admin!Cardinality, Cardinality

\* Those who are counted.
LEMMA Counted ==
  ASSUME RoleInv, ~(Admin!CountGlobalSuperAdmins <= 1)
  PROVE  /\ \A n \in Nat : \E y \in rows : y.id # n /\ Governor(y, status)
         /\ \A k \in Accounts : \E y \in rows : y.user # k /\ Governor(y, status)
<1> DEFINE S == {x \in rows : Governor(x, status)}
<1>1. {x \in Admin!Governing(rows) : status[x.user] = "ACTIVE"} = S
  BY DEF RoleInv, RowsApart, Admin!Governing, Governor
<1>2. ~(Cardinality(S) <= 1)
  BY <1>1, AdminCardinality DEF Admin!CountGlobalSuperAdmins
<1>3. S \subseteq rows /\ IsFiniteSet(rows)
  BY DEF RoleInv, RoleTypes
<1>4. IsFiniteSet(S)
  BY <1>3, FS_Subset
<1>5. PICK x \in S : TRUE
  BY DEF RoleInv, Governed
<1>6. PICK y \in S : y # x
  <2> HIDE DEF S
  <2> QED BY <1>2, <1>4, Another
<1>7. x \in rows /\ y \in rows /\ Governor(x, status) /\ Governor(y, status)
  OBVIOUS
<1>8. x.id # y.id
  BY <1>6, <1>7 DEF RoleInv, RowsApart
<1>9. x.user # y.user
  BY <1>6, <1>7 DEF RoleInv, RowsApart, Governor
<1> HIDE DEF S
<1> QED BY <1>7, <1>8, <1>9

LEMMA DecideStep ==
  ASSUME RoleInv, NEW r \in Requests, \A q \in Requests \ {r} : pc[q] = "idle", Admin!Decide(r)
  PROVE  RoleInv'
<1> DEFINE l == loc[r]
<1>1. pc[r] = "count" /\ UNCHANGED <<rows, status, cache, granted, smooth>>
  BY DEF Admin!Decide
<1>2. l \in RoleLocals /\ RoleRequestOK("count", l, rows, status) /\ l.actor \in Accounts
  BY <1>1, RoleState
<1>3. CASE Admin!Reply(r)
  BY <1>1, <1>3, RoleReplies
<1>4. CASE ~Admin!Reply(r)
  <2>1. Admin!Goto(r, "write", l)
    BY <1>4 DEF Admin!Decide
  <2>2. l.kind \in {"revoke", "status"}
    BY <1>2 DEF RoleRequestOK, GrantOK, RoleLocals
  <2>3. ASSUME l.kind = "revoke", l.role = "SUPER_ADMIN" PROVE \E x \in rows : x.id # l.row /\ Governor(x, status)
    <3>1. l.scope = Null
      BY <1>2, <2>3 DEF RoleRequestOK, RevokeOK, RoleInv, RowsApart
    <3>2. ~(Admin!CountGlobalSuperAdmins <= 1)
      BY <3>1, <2>3, <1>4 DEF Admin!Decide, Admin!CanRevoke, Admin!IsLast
    <3>3. l.row \in Nat
      BY <1>2 DEF RoleLocals
    <3> QED BY <3>2, <3>3, Counted
  <2>4. ASSUME l.kind = "status", l.to = "SUSPENDED" PROVE \E x \in rows : x.user # l.user /\ Governor(x, status)
    <3>1. l.user \in Accounts /\ (l.governs <=> \E x \in rows : x.user = l.user /\ x.role = "SUPER_ADMIN")
      BY <1>2, <2>4 DEF RoleRequestOK, StatusOK
    <3>2. ~(l.governs /\ Admin!CountGlobalSuperAdmins <= 1)
      BY <2>4, <1>4 DEF Admin!Decide, Admin!CanChangeStatus
    <3>3. CASE ~l.governs
      BY <3>1, <3>3 DEF RoleInv, Governed, Governor
    <3>4. CASE ~(Admin!CountGlobalSuperAdmins <= 1)
      BY <3>1, <3>4, Counted
    <3> QED BY <3>2, <3>3, <3>4
  <2>5. GrantOK("write", l, rows)
    BY <2>2 DEF GrantOK
  <2>6. RevokeOK("write", l, rows, status)
    BY <1>2, <2>3 DEF RoleRequestOK, RevokeOK
  <2>7. StatusOK("write", l, rows, status)
    BY <1>2, <2>4 DEF RoleRequestOK, StatusOK
  <2>8. RoleRequestOK("write", l, rows, status)
    BY <1>2, <2>2, <2>5, <2>6, <2>7 DEF RoleRequestOK
  <2> QED BY <1>1, <1>2, <2>1, <2>8, RoleThinks DEF RoleLabels
<1> QED BY <1>3, <1>4

\* What is kept of those a write is not about.
LEMMA OthersKept ==
  ASSUME NEW some, NEW more, NEW k, NEW own, Kept(some, k, own),
         \A x : (x \in some /\ x.user = k) <=> (x \in more /\ x.user = k)
  PROVE  Kept(more, k, own)
<1>1. {x \in some : x.user = k} = {x \in more : x.user = k}
  OBVIOUS
<1>2. {x \in some : x.user = k /\ x.until # "past"} = {x \in more : x.user = k /\ x.until # "past"}
  OBVIOUS
<1> QED BY <1>1, <1>2 DEF Kept

\* A write moves its request on to the invalidation.
LEMMA RoleWrites ==
  ASSUME RoleInv, NEW r \in Requests, \A q \in Requests \ {r} : pc[q] = "idle", pc[r] = "write",
         NEW l, l = loc[r], Admin!Goto(r, "forget", l), l.user \in Accounts, UNCHANGED <<cache, smooth>>,
         rows' \subseteq RoleRows, IsFiniteSet(rows'), granted' \in Nat, \A x \in rows' : x.id \in 1..granted',
         status' \in [Accounts -> {"ACTIVE", "SUSPENDED"}], RowsApart', Governed',
         \A x : x.user # l.user => (x \in rows <=> x \in rows')
  PROVE  RoleInv'
<1>1. l \in RoleLocals /\ RoleRequestOK("write", l, rows, status)
  BY RoleState
<1>2. RoleRequestOK("forget", l, rows', status')
  BY <1>1 DEF RoleRequestOK, GrantOK, RevokeOK, StatusOK
<1>3. cache' \in [Accounts -> {Null} \cup SUBSET RoleViews] /\ smooth' \in BOOLEAN
  BY DEF RoleInv, RoleTypes
<1>4. smooth' => \A k \in Accounts :
        cache'[k] = Null \/ Kept(rows', k, cache'[k]) \/ ("forget" = "forget" /\ l.user = k)
  <2> SUFFICES ASSUME smooth, NEW k \in Accounts, k # l.user, cache[k] # Null PROVE Kept(rows', k, cache[k])
    OBVIOUS
  <2>1. Kept(rows, k, cache[k])
    BY CacheNow
  <2>2. \A x : (x \in rows /\ x.user = k) <=> (x \in rows' /\ x.user = k)
    OBVIOUS
  <2> QED BY <2>1, <2>2, OthersKept
<1> QED BY <1>1, <1>2, <1>3, <1>4, RoleMoves DEF RoleLabels

LEMMA InsertRoleStep ==
  ASSUME RoleInv, NEW r \in Requests, \A q \in Requests \ {r} : pc[q] = "idle", Admin!Insert(r)
  PROVE  RoleInv'
<1> DEFINE l == loc[r]
<1>1. pc[r] = "write" /\ l.kind = "grant" /\ UNCHANGED <<status, cache, smooth>>
  BY DEF Admin!Insert
<1>2. l \in RoleLocals /\ RoleRequestOK("write", l, rows, status) /\ l.actor \in Accounts
  BY <1>1, RoleState
<1>3. /\ l.user \in Accounts /\ l.role \in RoleNames
      /\ l.role = "SUPER_ADMIN" => l.scope = Null /\ l.until = "never"
      /\ \A x \in rows : ~(x.user = l.user /\ x.role = l.role /\ x.scope = l.scope)
  BY <1>1, <1>2 DEF RoleRequestOK, GrantOK
<1> DEFINE new == [id |-> granted + 1, user |-> l.user, role |-> l.role, scope |-> l.scope, until |-> l.until]
<1>4. granted' = granted + 1 /\ rows' = rows \cup {new} /\ Admin!Goto(r, "forget", l)
  BY <1>3 DEF Admin!Insert
<1>5. rows \subseteq RoleRows /\ IsFiniteSet(rows) /\ granted \in Nat /\ \A x \in rows : x.id \in 1..granted
  BY DEF RoleInv, RoleTypes
<1>6. /\ new \in RoleRows /\ new.id = granted + 1 /\ new.user = l.user /\ new.role = l.role
      /\ new.scope = l.scope /\ new.until = l.until
  BY <1>2, <1>3, <1>5 DEF RoleLocals, RoleRows
<1> HIDE DEF new
<1>7. rows' \subseteq RoleRows /\ IsFiniteSet(rows') /\ granted' \in Nat /\ \A x \in rows' : x.id \in 1..granted'
  BY <1>4, <1>5, <1>6, FS_AddElement
<1>8. \A x \in rows : x.id # new.id
  BY <1>5, <1>6
<1>9. RowsApart'
  BY <1>3, <1>4, <1>6, <1>8 DEF RoleInv, RowsApart
<1>10. Governed' /\ status' \in [Accounts -> {"ACTIVE", "SUSPENDED"}]
  BY <1>1, <1>4 DEF RoleInv, RoleTypes, Governed
<1>11. \A x : x.user # l.user => (x \in rows <=> x \in rows')
  BY <1>4, <1>6
<1> QED BY <1>1, <1>3, <1>4, <1>7, <1>9, <1>10, <1>11, RoleWrites

LEMMA DeleteRoleStep ==
  ASSUME RoleInv, NEW r \in Requests, \A q \in Requests \ {r} : pc[q] = "idle", Admin!Delete(r)
  PROVE  RoleInv'
<1> DEFINE l == loc[r]
<1>1. pc[r] = "write" /\ l.kind = "revoke" /\ UNCHANGED <<status, cache, granted, smooth>>
  BY DEF Admin!Delete
<1>2. l \in RoleLocals /\ RoleRequestOK("write", l, rows, status) /\ l.actor \in Accounts
  BY <1>1, RoleState
<1>3. PICK x \in rows : x.id = l.row /\ x.user = l.user /\ x.role = l.role /\ x.scope = l.scope
  BY <1>1, <1>2 DEF RoleRequestOK, RevokeOK
<1>4. l.role = "SUPER_ADMIN" => \E y \in rows : y.id # l.row /\ Governor(y, status)
  BY <1>1, <1>2 DEF RoleRequestOK, RevokeOK
<1>5. rows' = {y \in rows : y.id # l.row} /\ Admin!Goto(r, "forget", l)
  BY <1>3 DEF Admin!Delete
<1>6. rows' \subseteq RoleRows /\ IsFiniteSet(rows') /\ granted' \in Nat /\ \A y \in rows' : y.id \in 1..granted'
  <2>1. rows' \subseteq rows /\ rows \subseteq RoleRows /\ IsFiniteSet(rows) /\ granted \in Nat /\ \A y \in rows : y.id \in 1..granted
    BY <1>5 DEF RoleInv, RoleTypes
  <2> QED BY <1>1, <2>1, FS_Subset
<1>7. RowsApart'
  BY <1>5 DEF RoleInv, RowsApart
<1>8. Governed'
  <2>1. CASE l.role = "SUPER_ADMIN"
    BY <2>1, <1>1, <1>4, <1>5 DEF Governed
  <2>2. CASE l.role # "SUPER_ADMIN"
    <3>1. PICK y \in rows : Governor(y, status)
      BY DEF RoleInv, Governed
    <3>2. y.id # l.row
      BY <3>1, <2>2, <1>3 DEF RoleInv, RowsApart, Governor
    <3> QED BY <3>1, <3>2, <1>1, <1>5 DEF Governed
  <2> QED BY <2>1, <2>2
<1>9. l.user \in Accounts /\ status' \in [Accounts -> {"ACTIVE", "SUSPENDED"}]
  BY <1>1, <1>3 DEF RoleInv, RoleTypes, RoleRows
<1>10. \A y : y.user # l.user => (y \in rows <=> y \in rows')
  BY <1>3, <1>5 DEF RoleInv, RowsApart
<1> QED BY <1>1, <1>5, <1>6, <1>7, <1>8, <1>9, <1>10, RoleWrites

LEMMA SetStatusStep ==
  ASSUME RoleInv, NEW r \in Requests, \A q \in Requests \ {r} : pc[q] = "idle", Admin!SetStatus(r)
  PROVE  RoleInv'
<1> DEFINE l == loc[r]
<1>1. pc[r] = "write" /\ l.kind = "status" /\ UNCHANGED <<rows, cache, granted, smooth>>
      /\ status' = [status EXCEPT ![l.user] = l.to] /\ Admin!Goto(r, "forget", l)
  BY DEF Admin!SetStatus
<1>2. l \in RoleLocals /\ RoleRequestOK("write", l, rows, status) /\ l.actor \in Accounts
  BY <1>1, RoleState
<1>3. /\ l.user \in Accounts /\ l.to \in {"ACTIVE", "SUSPENDED"}
      /\ l.to = "SUSPENDED" => \E x \in rows : x.user # l.user /\ Governor(x, status)
  BY <1>1, <1>2 DEF RoleRequestOK, StatusOK
<1>4. /\ rows \subseteq RoleRows /\ IsFiniteSet(rows) /\ granted \in Nat /\ \A x \in rows : x.id \in 1..granted
      /\ status \in [Accounts -> {"ACTIVE", "SUSPENDED"}]
  BY DEF RoleInv, RoleTypes
<1>5. status' \in [Accounts -> {"ACTIVE", "SUSPENDED"}] /\ RowsApart'
  BY <1>1, <1>3, <1>4 DEF RoleInv, RowsApart
<1>6. \A x \in rows : x.user \in Accounts /\ (status'[x.user] = IF x.user = l.user THEN l.to ELSE status[x.user])
  BY <1>1, <1>4 DEF RoleRows
<1>7. Governed'
  <2>1. CASE l.to = "SUSPENDED"
    BY <2>1, <1>1, <1>3, <1>6 DEF Governed, Governor
  <2>2. CASE l.to = "ACTIVE"
    BY <2>2, <1>1, <1>6 DEF RoleInv, Governed, Governor
  <2> QED BY <2>1, <2>2, <1>3
<1> QED BY <1>1, <1>3, <1>4, <1>5, <1>7, RoleWrites

LEMMA InvalidateStep ==
  ASSUME RoleInv, NEW r \in Requests, \A q \in Requests \ {r} : pc[q] = "idle", Admin!Invalidate(r)
  PROVE  RoleInv'
<1> DEFINE k == loc[r].user
<1>1. /\ pc[r] = "forget" /\ UNCHANGED <<rows, status, granted, smooth>>
      /\ cache' = [cache EXCEPT ![k] = Null] /\ Admin!Goto(r, "idle", Admin!Blank)
  BY DEF Admin!Invalidate, Admin!CacheWithout, Admin!Reply
<1>2. cache \in [Accounts -> {Null} \cup SUBSET RoleViews] /\ smooth' \in BOOLEAN
  BY <1>1 DEF RoleInv, RoleTypes
<1>3. cache' \in [Accounts -> {Null} \cup SUBSET RoleViews]
  BY <1>1, <1>2
<1>4. smooth' => \A j \in Accounts : cache'[j] = Null \/ Kept(rows, j, cache'[j])
  <2> SUFFICES ASSUME smooth, NEW j \in Accounts, cache'[j] # Null PROVE Kept(rows, j, cache'[j])
    BY <1>1
  <2>1. j # k /\ cache'[j] = cache[j]
    BY <1>1, <1>2
  <2> QED BY <2>1 DEF RoleInv, CacheFresh
<1>5. RoleRequestOK("idle", Admin!Blank, rows, status)
  BY DEF RoleRequestOK
<1> QED BY <1>1, <1>2, <1>3, <1>4, <1>5, RoleBlank, RoleReads DEF RoleLabels

LEMMA CrashRoleStep ==
  ASSUME RoleInv, NEW r \in Requests, \A q \in Requests \ {r} : pc[q] = "idle", Admin!Crash(r)
  PROVE  RoleInv'
<1>1. /\ Admin!Goto(r, "idle", Admin!Blank) /\ smooth' = FALSE /\ UNCHANGED <<rows, status, cache, granted>>
  BY DEF Admin!Crash, Admin!Reply
<1>2. cache' \in [Accounts -> {Null} \cup SUBSET RoleViews] /\ smooth' \in BOOLEAN /\ ~smooth'
  BY <1>1 DEF RoleInv, RoleTypes
<1>3. RoleRequestOK("idle", Admin!Blank, rows, status)
  BY DEF RoleRequestOK
<1> QED BY <1>1, <1>2, <1>3, RoleBlank, RoleReads DEF RoleLabels

LEMMA CacheExpiresStep ==
  ASSUME RoleInv, Admin!CacheExpires
  PROVE  RoleInv'
<1>1. PICK k \in Accounts : cache' = [cache EXCEPT ![k] = Null]
  BY DEF Admin!CacheExpires, Admin!CacheWithout
<1>2. UNCHANGED <<rows, status, granted, smooth, pc, loc>>
  BY DEF Admin!CacheExpires
<1>3. cache \in [Accounts -> {Null} \cup SUBSET RoleViews]
  BY DEF RoleInv, RoleTypes
<1>4. cache' \in [Accounts -> {Null} \cup SUBSET RoleViews] /\ \A j \in Accounts : cache'[j] = Null \/ cache'[j] = cache[j]
  BY <1>1, <1>3
<1>5. RoleTypes' /\ RowsApart' /\ Governed' /\ AloneInRoles'
  BY <1>2, <1>4 DEF RoleInv, RoleTypes, RowsApart, Governed, Governor, AloneInRoles
<1>6. CacheFresh'
  BY <1>2, <1>4 DEF RoleInv, CacheFresh
<1>7. \A r \in Requests : RoleRequestOK(pc'[r], loc'[r], rows', status')
  BY <1>2 DEF RoleInv
<1> QED BY <1>5, <1>6, <1>7 DEF RoleInv

\* A date passes: the row stays, and is in force no longer.
LEMMA ExpireStep ==
  ASSUME RoleInv, Admin!Expire
  PROVE  RoleInv'
<1>1. PICK x \in rows : x.until = "later" /\ rows' = (rows \ {x}) \cup {[x EXCEPT !.until = "past"]}
  BY DEF Admin!Expire
<1>2. UNCHANGED <<status, cache, granted, smooth, pc, loc>>
  BY DEF Admin!Expire
<1> DEFINE y == [x EXCEPT !.until = "past"]
<1>3. rows \subseteq RoleRows /\ IsFiniteSet(rows) /\ \A z \in rows : z.id \in 1..granted
  BY DEF RoleInv, RoleTypes
<1>4. y \in RoleRows /\ y.id = x.id /\ y.user = x.user /\ y.role = x.role /\ y.scope = x.scope /\ y.until = "past"
  BY <1>3 DEF RoleRows
<1>5. rows' = (rows \ {x}) \cup {y}
  BY <1>1
<1> HIDE DEF y
<1>6. x.role # "SUPER_ADMIN"
  BY <1>1 DEF RoleInv, RowsApart
<1>7. IsFiniteSet(rows') /\ rows' \subseteq RoleRows /\ \A z \in rows' : z.id \in 1..granted
  <2>1. IsFiniteSet(rows \ {x})
    BY <1>3, FS_Subset
  <2> QED BY <2>1, <1>3, <1>4, <1>5, FS_AddElement
<1>8. RoleTypes' /\ AloneInRoles'
  BY <1>2, <1>7 DEF RoleInv, RoleTypes, AloneInRoles
<1>9. RowsApart'
  BY <1>4, <1>5, <1>6 DEF RoleInv, RowsApart
<1>10. \A z : (z \in rows /\ z.role = "SUPER_ADMIN") <=> (z \in rows' /\ z.role = "SUPER_ADMIN")
  BY <1>4, <1>5, <1>6
<1>11. Governed'
  BY <1>2, <1>10 DEF RoleInv, Governed, Governor
<1>12. ASSUME NEW k, NEW own, Kept(rows, k, own) PROVE Kept(rows', k, own)
  <2>1. Admin!View({z \in rows' : z.user = k}) = Admin!View({z \in rows : z.user = k})
    BY <1>4, <1>5 DEF Admin!View
  <2>2. {z \in rows' : z.user = k /\ z.until # "past"} \subseteq {z \in rows : z.user = k /\ z.until # "past"}
    BY <1>4, <1>5
  <2>3. Admin!View({z \in rows' : z.user = k /\ z.until # "past"}) \subseteq Admin!View({z \in rows : z.user = k /\ z.until # "past"})
    BY <2>2 DEF Admin!View
  <2> QED BY <1>12, <2>1, <2>3 DEF Kept
<1>13. CacheFresh'
  BY <1>2, <1>12 DEF RoleInv, CacheFresh
<1>14. ASSUME NEW label, NEW l, RoleRequestOK(label, l, rows, status) PROVE RoleRequestOK(label, l, rows', status)
  <2> SUFFICES ASSUME label # "idle" PROVE RoleRequestOK(label, l, rows', status)
    BY DEF RoleRequestOK
  <2>0. /\ l.actor \in Accounts /\ l.kind # "none"
        /\ GrantOK(label, l, rows) /\ RevokeOK(label, l, rows, status) /\ StatusOK(label, l, rows, status)
        /\ (label = "fill" => Kept(rows, l.actor, l.own))
        /\ (label = "forget" => l.user \in Accounts)
        /\ (label \in {"count", "write", "forget"} => l.kind # "visit")
    BY <1>14 DEF RoleRequestOK
  <2>1. GrantOK(label, l, rows')
    <3>1. \A z \in rows' : \E w \in rows : w.user = z.user /\ w.role = z.role /\ w.scope = z.scope
      BY <1>4, <1>5
    <3>2. (\A w \in rows : ~(w.user = l.user /\ w.role = l.role /\ w.scope = l.scope))
          => (\A z \in rows' : ~(z.user = l.user /\ z.role = l.role /\ z.scope = l.scope))
      BY <3>1
    <3> QED BY <2>0, <3>2, Zenon DEF GrantOK
  <2>2. RevokeOK(label, l, rows', status)
    <3>1. \A z \in rows : \E w \in rows' : w.id = z.id /\ w.user = z.user /\ w.role = z.role /\ w.scope = z.scope
      BY <1>4, <1>5
    <3> QED BY <1>10, <3>1, <2>0 DEF RevokeOK, Governor
  <2>3. StatusOK(label, l, rows', status)
    <3>1. (\E z \in rows : z.user = l.user /\ z.role = "SUPER_ADMIN")
          <=> (\E z \in rows' : z.user = l.user /\ z.role = "SUPER_ADMIN")
      BY <1>10
    <3>2. (\E z \in rows : z.user # l.user /\ Governor(z, status))
          => (\E z \in rows' : z.user # l.user /\ Governor(z, status))
      BY <1>10 DEF Governor
    <3> QED BY <2>0, <3>1, <3>2, Zenon DEF StatusOK
  <2>4. label = "fill" => Kept(rows', l.actor, l.own)
    BY <2>0, <1>12
  <2> QED BY <2>0, <2>1, <2>2, <2>3, <2>4 DEF RoleRequestOK
<1>15. \A r \in Requests : RoleRequestOK(pc'[r], loc'[r], rows', status')
  BY <1>2, <1>14 DEF RoleInv
<1> QED BY <1>8, <1>9, <1>11, <1>13, <1>15 DEF RoleInv

-----------------------------------------------------------------------------

LEMMA RoleStart == ASSUME Admin!Init PROVE RoleInv
<1> DEFINE seed == [id |-> 1, user |-> a, role |-> "SUPER_ADMIN", scope |-> Null, until |-> "never"]
<1>1. a \in Accounts
  BY RolesAssumption
<1>2. /\ rows = {seed} /\ status = [k \in Accounts |-> "ACTIVE"] /\ cache = [k \in Accounts |-> Null]
      /\ granted = 1 /\ smooth = TRUE
      /\ pc = [r \in Requests |-> "idle"] /\ loc = [r \in Requests |-> Admin!Blank]
  BY DEF Admin!Init
<1>3. /\ seed \in RoleRows /\ seed.id = 1 /\ seed.user = a /\ seed.role = "SUPER_ADMIN"
      /\ seed.scope = Null /\ seed.until = "never"
  BY <1>1 DEF RoleRows, RoleNames, RoleScopes
<1> HIDE DEF seed
<1>4. IsFiniteSet(rows)
  BY <1>2, FS_Singleton
<1>5. pc \in [Requests -> {"idle", "miss", "fill", "act", "count", "write", "forget"}] /\ loc \in [Requests -> RoleLocals]
  BY <1>2, RoleBlank
<1>6. RoleTypes
  BY <1>2, <1>3, <1>4, <1>5 DEF RoleTypes
<1>7. RowsApart
  BY <1>2, <1>3 DEF RowsApart
<1>8. Governed
  BY <1>1, <1>2, <1>3 DEF Governed, Governor
<1>9. AloneInRoles
  BY <1>2 DEF AloneInRoles
<1>10. CacheFresh
  BY <1>2 DEF CacheFresh
<1>11. \A r \in Requests : RoleRequestOK(pc[r], loc[r], rows, status)
  BY <1>2 DEF RoleRequestOK
<1> QED BY <1>6, <1>7, <1>8, <1>9, <1>10, <1>11 DEF RoleInv

LEMMA RoleStep == ASSUME RoleInv, RoleNext PROVE RoleInv'
<1>1. ASSUME NEW r \in Requests, Alone(r), Admin!Step(r) PROVE RoleInv'
  <2>1. \A q \in Requests \ {r} : pc[q] = "idle"
    BY <1>1 DEF Alone
  <2>2. CASE Admin!BeginRequest(r)
    BY <2>1, <2>2, BeginRoleStep
  <2>3. CASE Admin!ReadRows(r)
    BY <2>1, <2>3, ReadRowsStep
  <2>4. CASE Admin!FillCache(r)
    BY <2>1, <2>4, FillCacheStep
  <2>5. CASE Admin!ReadTarget(r)
    BY <2>1, <2>5, ReadTargetStep
  <2>6. CASE Admin!Decide(r)
    BY <2>1, <2>6, DecideStep
  <2>7. CASE Admin!Insert(r)
    BY <2>1, <2>7, InsertRoleStep
  <2>8. CASE Admin!Delete(r)
    BY <2>1, <2>8, DeleteRoleStep
  <2>9. CASE Admin!SetStatus(r)
    BY <2>1, <2>9, SetStatusStep
  <2>10. CASE Admin!Invalidate(r)
    BY <2>1, <2>10, InvalidateStep
  <2>11. CASE Admin!Crash(r)
    BY <2>1, <2>11, CrashRoleStep
  <2> QED BY <1>1, <2>2, <2>3, <2>4, <2>5, <2>6, <2>7, <2>8, <2>9, <2>10, <2>11 DEF Admin!Step
<1> QED BY <1>1, ExpireStep, CacheExpiresStep DEF RoleNext

LEMMA RoleSound == ASSUME RoleInv PROVE Admin!TypeOK /\ Admin!SomebodyGoverns /\ Admin!CacheLateByExpiryOnly
<1>1. Admin!TypeOK
  BY DEF RoleInv, RoleTypes, RowsApart, RoleRows, Admin!TypeOK
<1>2. Admin!SomebodyGoverns
  <2>1. PICK x \in rows : x.role = "SUPER_ADMIN" /\ status[x.user] = "ACTIVE"
    BY DEF RoleInv, Governed, Governor
  <2>2. x.scope = Null /\ x.until = "never"
    BY <2>1 DEF RoleInv, RowsApart
  <2> QED BY <2>1, <2>2 DEF Admin!SomebodyGoverns, Admin!Governing
<1>3. Admin!CacheLateByExpiryOnly
  <2>1. ASSUME smooth, \A r \in Requests : pc[r] = "idle", NEW k \in Accounts, cache[k] # Null
        PROVE  /\ Admin!View(Admin!ActiveRows(k)) \subseteq cache[k]
               /\ cache[k] \subseteq Admin!View({x \in rows : x.user = k})
    <3>1. Kept(rows, k, cache[k])
      BY <2>1 DEF RoleInv, CacheFresh
    <3> QED BY <3>1 DEF Kept, Admin!ActiveRows
  <2> QED BY <2>1 DEF Admin!CacheLateByExpiryOnly
<1> QED BY <1>1, <1>2, <1>3

-----------------------------------------------------------------------------
(* The cases of the access checks. *)

\* An assignment is global, one's own, or of a unit that has a name.
Assigned(y) == y.scope.kind \in {"global", "own"} \/ (y.scope.kind \in Admin!Units /\ y.scope.id # Null)

LEMMA AccessSound ==
  ASSUME NEW user, NEW some, NEW resource, user # Null,
         \A y \in some : Assigned(y)
  PROVE  Admin!AccessIsSound(user, some, resource)
<1>1. ASSUME NEW action \in Admin!CRUD, Admin!Can(user, some, action, resource)
      PROVE  Admin!HasCapability(some, action, resource.type)
  BY <1>1 DEF Admin!Can, Admin!HasCapability
<1>2. Admin!Can(user, some, "update", resource) <=> Admin!WritableFields(user, some, resource) # {}
  <2> DEFINE covering == {y \in some : Admin!ScopeCovers(y.scope, user, resource)}
  <2> DEFINE grants == UNION {Admin!GrantsFor(y, "update", resource.type) : y \in covering}
  <2>1. Admin!Can(user, some, "update", resource) <=> \E y \in covering : Admin!GrantsFor(y, "update", resource.type) # {}
    BY DEF Admin!Can
  <2>2. (\E y \in covering : Admin!GrantsFor(y, "update", resource.type) # {}) <=> grants # {}
    <3> HIDE DEF covering
    <3> QED OBVIOUS
  <2>3. Admin!WritableFields(user, some, resource) =
          IF \E g \in grants : g.fields = {} THEN Admin!All ELSE UNION {g.fields : g \in grants}
    BY DEF Admin!WritableFields
  <2>4. grants # {} <=> Admin!WritableFields(user, some, resource) # {}
    <3> HIDE DEF grants
    <3>1. CASE \E g \in grants : g.fields = {}
      BY <2>3, <3>1 DEF Admin!All
    <3>2. CASE ~\E g \in grants : g.fields = {}
      <4>1. Admin!WritableFields(user, some, resource) = UNION {g.fields : g \in grants}
        BY <2>3, <3>2
      <4>2. ASSUME NEW g \in grants PROVE UNION {h.fields : h \in grants} # {}
        <5>1. PICK f : f \in g.fields
          BY <3>2
        <5> QED BY <5>1
      <4> QED BY <4>1, <4>2
    <3> QED BY <3>1, <3>2
  <2> QED BY <2>1, <2>2, <2>4
<1>3. ASSUME \A u \in Admin!Units : resource.units[u] = Null, resource.owner = Null,
             NEW action \in Admin!CRUD \ {"read"}, Admin!Can(user, some, action, resource)
      PROVE  \E y \in some : y.scope.kind = "global"
  <2>1. PICK y \in some : Admin!ScopeCovers(y.scope, user, resource)
    BY <1>3 DEF Admin!Can
  <2> QED BY <1>3, <2>1 DEF Assigned, Admin!ScopeCovers, Admin!Units
<1> QED BY <1>1, <1>2, <1>3 DEF Admin!AccessIsSound

LEMMA AccessCases == AccessCase => \A y \in loc.assignments : Assigned(y)
<1> SUFFICES ASSUME AccessCase PROVE \A y \in loc.assignments : Assigned(y)
  OBVIOUS
<1>1. "u1" # Null /\ "u2" # Null
  BY RolesAssumption
<1>2. PICK x \in Assignment, more \in Seconds : loc.assignments = {x} \cup more
  BY DEF AccessCase
<1>3. Assigned(x)
  <2>1. x.scope \in Narrow \/ x.scope = [kind |-> "global", id |-> Null]
    BY <1>2 DEF Assignment
  <2> QED BY <1>1, <2>1 DEF Assigned, Narrow, Admin!Units
<1>4. \A y \in more : Assigned(y)
  BY <1>1, <1>2 DEF Seconds, Assigned, Admin!Units
<1> QED BY <1>2, <1>3, <1>4

RolesInv ==
  /\ focus = "roles" => RoleInv
  /\ focus = "access" => \A y \in loc.assignments : Assigned(y)

LEMMA RolesOfPeople ==
  ASSUME RolesInv, [MCNext]_everywhere
  PROVE  RolesInv'
<1>1. focus' = focus
  BY DEF MCNext, everywhere
<1>2. ASSUME focus = "roles" PROVE RoleInv'
  <2>1. RoleNext \/ UNCHANGED <<rows, status, cache, granted, smooth, pc, loc>>
    BY <1>2 DEF MCNext, ServerNext, PageNext, everywhere, vars, roles
  <2>2. CASE UNCHANGED <<rows, status, cache, granted, smooth, pc, loc>>
    BY <1>2, <2>2 DEF RolesInv, RoleInv, RoleTypes, RowsApart, Governed, Governor, AloneInRoles, CacheFresh
  <2> QED BY <2>1, <2>2, <1>2, RoleStep DEF RolesInv
<1>3. ASSUME focus = "access" PROVE loc' = loc
  BY <1>3 DEF MCNext, ServerNext, PageNext, everywhere, vars
<1> QED BY <1>1, <1>2, <1>3 DEF RolesInv

\* One request at a time, there is always an active super-administrator, and between requests
\* the cache of a user's roles is late by expiry only (role-grant.rules, authz.service), for
\* any users; and the answers of the access checks agree.
THEOREM RolesAlwaysStand == MCSpec => []RolesStand
<1>1. MCInit => RolesInv
  BY RoleStart, AccessCases DEF MCInit, ServerInit, PageInit, RolesInv
<1>2. RolesInv => RolesStand
  <2> SUFFICES ASSUME RolesInv PROVE RolesStand
    OBVIOUS
  <2>1. focus = "access" => Admin!AccessIsSound(a, loc.assignments, loc.resource)
    <3>1. a # Null
      BY RolesAssumption
    <3> QED BY <3>1, AccessSound DEF RolesInv
  <2> QED BY <2>1, RoleSound DEF RolesInv, RolesStand
<1> QED BY <1>1, <1>2, RolesOfPeople, PTL DEF MCSpec

-----------------------------------------------------------------------------
USE LoginAssumption

(* The windows of the logins.  A window lets through no more than its limit  *)
(* because nothing young enough leaves it but what is withdrawn; a failure  *)
(* stays in the window of its address because only its own attempt, and    *)
(* only before its password was seen, takes an entry back there.           *)

LoginLabels == {"idle", "address", "account", "answer", "reset", "refund"}
LoginLocals ==
  [id : Nat, account : Accounts \cup {Null}, at : Nat, right : BOOLEAN, refused : SUBSET Login!Limited]

LoginTypes ==
  /\ now \in Nat /\ attempts \in Nat
  /\ windows \in [Login!Limited -> SUBSET [id : Nat, at : Nat]]
  /\ \A k \in Login!Limited : IsFiniteSet(windows[k])
  /\ failed \subseteq [id : Nat, account : Accounts, at : Nat]
  /\ let \subseteq [key : Login!Limited, id : Nat, at : Nat]
  /\ pc \in [Requests -> LoginLabels] /\ loc \in [Requests -> LoginLocals]

\* Every entry, and every line of the history, is of an attempt that was begun.
OfAttempts ==
  /\ \A e \in let : e.id \in 1..attempts
  /\ \A f \in failed : f.id \in 1..attempts

\* What was let through and is young enough is still in its window.
LetStands == \A e \in let : e.at > now - Window => [id |-> e.id, at |-> e.at] \in windows[e.key]

LetOf(k) == {[id |-> e.id, at |-> e.at] : e \in {x \in let : x.key = k}}
LetWithinLimit == \A k \in Login!Limited : Cardinality(Login!Within(LetOf(k))) <= LimitOf[k]

FailedStands == \A f \in failed : f.at > now - Window => [id |-> f.id, at |-> f.at] \in windows[ip]

\* An attempt under way: where it has entered already, and what was let through of it.
AttemptOK(label, l) ==
  label # "idle" =>
    /\ l.id \in 1..attempts /\ l.account \in Accounts /\ l.refused \subseteq {ip, l.account}
    /\ \A f \in failed : f.id # l.id
    /\ \A e \in let : e.id = l.id =>
         label # "address" /\ e.key \notin l.refused /\ (e.key = ip => e.at = l.at)
    /\ label = "address" => l.refused = {} /\ \A k \in Login!Limited : \A e \in windows[k] : e.id # l.id
    /\ label = "account" =>
         /\ l.at = now /\ l.refused \subseteq {ip}
         /\ \A e \in windows[l.account] : e.id # l.id
         /\ \A e \in let : e.id = l.id => e.key # l.account
    /\ label \in {"reset", "refund"} => l.refused = {}
    /\ label # "address" /\ l.refused = {} /\ l.at > now - Window => Login!Entry(l) \in windows[ip]

OneEach == \A q, r \in Requests : pc[q] # "idle" /\ pc[r] # "idle" /\ loc[q].id = loc[r].id => q = r

LoginInv ==
  /\ LoginTypes /\ Login!TypeOK /\ OfAttempts /\ LetStands /\ LetWithinLimit /\ FailedStands /\ OneEach
  /\ \A r \in Requests : AttemptOK(pc[r], loc[r])


\* What an attempt n changes leaves what is known of every other one.
LEMMA OtherAttempts ==
  ASSUME LoginInv, NEW n \in Nat, NEW s \in Requests, pc[s] # "idle" => loc[s].id # n,
         attempts' \in Nat, attempts <= attempts', now' = now,
         \A f \in failed' : f \in failed \/ f.id = n,
         \A e \in let' : e \in let \/ e.id = n,
         \A k \in Login!Limited : \A e \in windows'[k] : e \in windows[k] \/ e.id = n,
         \A e \in windows[ip] : e.at > now - Window /\ e.id # n => e \in windows'[ip],
         NEW label, NEW l, label = pc[s], l = loc[s]
  PROVE  AttemptOK(label, l)'
<1>1. AttemptOK(label, l)
  BY DEF LoginInv
<1> SUFFICES ASSUME label # "idle" PROVE AttemptOK(label, l)'
  BY DEF AttemptOK
<1>2. l \in LoginLocals /\ l.id # n /\ l.id \in 1..attempts /\ l.account \in Login!Limited /\ l.refused \subseteq {ip, l.account}
  BY <1>1 DEF LoginInv, LoginTypes, AttemptOK, Login!Limited
<1>3. l.id \in 1..attempts'
  BY <1>2 DEF LoginInv, LoginTypes
<1>4. \A f \in failed' : f.id # l.id
  BY <1>1, <1>2 DEF AttemptOK
<1>5. \A e \in let' : e.id = l.id =>
         label # "address" /\ e.key \notin l.refused /\ (e.key = ip => e.at = l.at)
  BY <1>1, <1>2 DEF AttemptOK
<1>6. label = "address" => l.refused = {} /\ \A k \in Login!Limited : \A e \in windows'[k] : e.id # l.id
  BY <1>1, <1>2 DEF AttemptOK
<1>7. label = "account" =>
         /\ l.at = now' /\ l.refused \subseteq {ip}
         /\ \A e \in windows'[l.account] : e.id # l.id
         /\ \A e \in let' : e.id = l.id => e.key # l.account
  BY <1>1, <1>2 DEF AttemptOK
<1>8. label # "address" /\ l.refused = {} /\ l.at > now' - Window => Login!Entry(l) \in windows'[ip]
  BY <1>1, <1>2 DEF AttemptOK, Login!Entry
<1>9. label \in {"reset", "refund"} => l.refused = {} 
  BY <1>1 DEF AttemptOK
<1> QED BY <1>1, <1>2, <1>3, <1>4, <1>5, <1>6, <1>7, <1>8, <1>9 DEF AttemptOK, Login!Entry, Login!Limited

\* A step of the attempt n: what it writes down is its own, and it leaves the young entries of the others.
Own(n) ==
  /\ attempts' \in Nat /\ attempts <= attempts' /\ now' = now
  /\ \A f \in failed' : f \in failed \/ f.id = n
  /\ \A e \in let' : e \in let \/ e.id = n
  /\ \A k \in Login!Limited : \A e \in windows'[k] : e \in windows[k] \/ e.id = n
  /\ \A e \in windows[ip] : e.at > now - Window /\ e.id # n => e \in windows'[ip]

LEMMA AttemptMoves ==
  ASSUME LoginInv, NEW r \in Requests, NEW label \in LoginLabels, NEW l \in LoginLocals, Login!Goto(r, label, l),
         NEW n \in Nat, Own(n), label # "idle" => l.id = n,
         \A s \in Requests \ {r} : pc[s] # "idle" => loc[s].id # n,
         AttemptOK(label, l)'
  PROVE  /\ pc' \in [Requests -> LoginLabels] /\ loc' \in [Requests -> LoginLocals]
         /\ OneEach'
         /\ \A s \in Requests : AttemptOK(pc[s], loc[s])'
<1>1. pc' \in [Requests -> LoginLabels] /\ loc' \in [Requests -> LoginLocals]
  BY DEF LoginInv, LoginTypes, Login!Goto
<1>2. pc'[r] = label /\ loc'[r] = l /\ \A s \in Requests \ {r} : pc'[s] = pc[s] /\ loc'[s] = loc[s]
  BY DEF LoginInv, LoginTypes, Login!Goto
<1>3. OneEach'
  BY <1>2 DEF OneEach, LoginInv
<1>4. ASSUME NEW s \in Requests PROVE AttemptOK(pc[s], loc[s])'
  <2>1. CASE s = r
    BY <2>1, <1>2 DEF AttemptOK, Login!Entry, Login!Limited
  <2>2. CASE s # r
    <3>1. pc[s] # "idle" => loc[s].id # n
      BY <2>2
    <3>2. \A lab, m : lab = pc[s] /\ m = loc[s] => AttemptOK(lab, m)'
      BY <3>1, OtherAttempts DEF Own
    <3>3. pc'[s] = pc[s] /\ loc'[s] = loc[s]
      BY <2>2, <1>2
    <3>4. ASSUME NEW lab, NEW m, lab = pc[s], m = loc[s] PROVE AttemptOK(lab, m)'
      BY <3>4, <3>2
    <3> QED BY <3>3, <3>4 DEF AttemptOK, Login!Entry, Login!Limited
  <2> QED BY <2>1, <2>2
<1> QED BY <1>1, <1>3, <1>4

\* The count the instance takes is the one the theorems on finite sets are about.
LEMMA SameCardinality == ASSUME NEW S PROVE Login!Cardinality(S) = Cardinality(S)
  BY DEF Login!Cardinality, Cardinality

LEMMA LoginBlank == Login!Blank \in LoginLocals
  BY DEF Login!Blank, LoginLocals

\* What is known of an attempt under way, apart from its place.
LEMMA UnderWay ==
  ASSUME LoginInv, NEW r \in Requests, pc[r] # "idle"
  PROVE  /\ loc[r] \in LoginLocals /\ loc[r].id \in Nat /\ loc[r].at \in Nat
         /\ loc[r].account \in Accounts /\ loc[r].id \in 1..attempts
         /\ \A s \in Requests \ {r} : pc[s] # "idle" => loc[s].id # loc[r].id
<1>1. loc[r] \in LoginLocals /\ loc[r].id \in Nat /\ loc[r].at \in Nat
  BY DEF LoginInv, LoginTypes, LoginLocals
<1>2. loc[r].account \in Accounts /\ loc[r].id \in 1..attempts
  BY DEF LoginInv, AttemptOK
<1>3. \A s \in Requests \ {r} : pc[s] # "idle" => loc[s].id # loc[r].id
  BY DEF LoginInv, OneEach
<1> QED BY <1>1, <1>2, <1>3

\* Where neither the windows nor the history of what was let through move.
LEMMA LetKept ==
  ASSUME LoginInv, UNCHANGED <<windows, now, let>>
  PROVE  LetStands' /\ LetWithinLimit'
  BY DEF LoginInv, LetStands, LetWithinLimit, LetOf, Login!Within

LEMMA WindowsKept ==
  ASSUME LoginInv, UNCHANGED <<windows, now>>, attempts' \in Nat, attempts <= attempts'
  PROVE  Login!TypeOK'
  BY DEF LoginInv, LoginTypes, Login!TypeOK

LEMMA BeginLoginStep ==
  ASSUME LoginInv, NEW r \in Requests, Login!BeginLogin(r)
  PROVE  LoginInv'
<1> PICK k \in Accounts, x \in BOOLEAN :
      Login!Goto(r, "address", [Login!Blank EXCEPT !.id = attempts', !.account = k, !.right = x])
  BY DEF Login!BeginLogin
<1>1. attempts' \in Nat /\ attempts' = attempts + 1 /\ UNCHANGED <<windows, now, failed, let>>
  BY DEF Login!BeginLogin, LoginInv, LoginTypes
<1> DEFINE m == [Login!Blank EXCEPT !.id = attempts', !.account = k, !.right = x]
<1>2. m \in LoginLocals /\ m.id = attempts' /\ m.account = k /\ m.refused = {}
  <2>1. ASSUME NEW n \in Nat, NEW l, l = [Login!Blank EXCEPT !.id = n, !.account = k, !.right = x]
        PROVE  l \in LoginLocals /\ l.id = n /\ l.account = k /\ l.refused = {}
    BY <2>1, LoginBlank DEF Login!Blank, LoginLocals
  <2> QED BY <1>1, <2>1
<1>3. Login!Goto(r, "address", m)
  OBVIOUS
<1> HIDE DEF m
<1>4. \A s \in Requests : pc[s] # "idle" => loc[s].id # attempts'
  BY <1>1 DEF LoginInv, LoginTypes, AttemptOK
<1>5. Own(attempts')
  BY <1>1 DEF Own, LoginInv, LoginTypes
<1>6. \A l : l = m => AttemptOK("address", l)'
  BY <1>1, <1>2 DEF LoginInv, LoginTypes, AttemptOK, OfAttempts, Login!TypeOK, Login!Limited
<1>7. /\ pc' \in [Requests -> LoginLabels] /\ loc' \in [Requests -> LoginLocals]
      /\ OneEach'
      /\ \A s \in Requests : AttemptOK(pc[s], loc[s])'
  <2>1. ASSUME NEW l \in LoginLocals, l = m PROVE <1>7!1 /\ <1>7!2 /\ <1>7!3
    BY <2>1, <1>1, <1>2, <1>3, <1>4, <1>5, <1>6, AttemptMoves DEF LoginLabels
  <2> QED BY <2>1, <1>2
<1>8. LetStands' /\ LetWithinLimit' /\ Login!TypeOK'
  BY <1>1, LetKept, WindowsKept DEF LoginInv, LoginTypes
<1>9. FailedStands' /\ OfAttempts'
  BY <1>1 DEF LoginInv, FailedStands, OfAttempts, LoginTypes
<1> QED BY <1>1, <1>7, <1>8, <1>9 DEF LoginInv, LoginTypes

LEMMA CrashLoginStep ==
  ASSUME LoginInv, NEW r \in Requests, Login!Crash(r)
  PROVE  LoginInv'
<1>1. Login!Goto(r, "idle", Login!Blank) /\ UNCHANGED <<windows, now, attempts, failed, let>> /\ pc[r] # "idle"
  BY DEF Login!Crash, Login!Reply
<1>2. loc[r].id \in Nat /\ Login!Blank \in LoginLocals /\ \A s \in Requests \ {r} : pc[s] # "idle" => loc[s].id # loc[r].id
  BY <1>1, UnderWay, LoginBlank
<1>3. Own(loc[r].id)
  BY <1>1 DEF Own, LoginInv, LoginTypes
<1>4. /\ pc' \in [Requests -> LoginLabels] /\ loc' \in [Requests -> LoginLocals]
      /\ OneEach'
      /\ \A s \in Requests : AttemptOK(pc[s], loc[s])'
  <2>1. AttemptOK("idle", Login!Blank)'
    BY DEF AttemptOK
  <2> QED BY <2>1, <1>1, <1>2, <1>3, AttemptMoves DEF LoginLabels
<1>5. LetStands' /\ LetWithinLimit' /\ Login!TypeOK'
  BY <1>1, LetKept, WindowsKept DEF LoginInv, LoginTypes
<1>6. FailedStands' /\ OfAttempts'
  BY <1>1 DEF LoginInv, FailedStands, OfAttempts
<1> QED BY <1>1, <1>4, <1>5, <1>6 DEF LoginInv, LoginTypes

LEMMA VerifyStep ==
  ASSUME LoginInv, NEW r \in Requests, Login!VerifyPassword(r)
  PROVE  LoginInv'
<1>1. /\ pc[r] = "answer" /\ loc[r].refused = {}
      /\ UNCHANGED <<windows, now, attempts, let>>
  BY DEF Login!VerifyPassword
<1>2. /\ loc[r] \in LoginLocals /\ loc[r].id \in Nat /\ loc[r].at \in Nat /\ loc[r].account \in Accounts
      /\ Login!Blank \in LoginLocals /\ loc[r].id \in 1..attempts
      /\ \A s \in Requests \ {r} : pc[s] # "idle" => loc[s].id # loc[r].id
  BY <1>1, UnderWay, LoginBlank
<1> DEFINE f == [id |-> loc[r].id, account |-> loc[r].account, at |-> loc[r].at]
<1>3. \/ Login!Goto(r, "reset", loc[r]) /\ failed' = failed
      \/ Login!Goto(r, "idle", Login!Blank) /\ failed' = failed \cup {f}
  BY DEF Login!VerifyPassword, Login!Reply
<1>4. failed' \subseteq failed \cup {f} /\ f \in [id : Nat, account : Accounts, at : Nat]
  BY <1>2, <1>3
<1>5. Own(loc[r].id)
  BY <1>1, <1>4 DEF Own, LoginInv, LoginTypes
<1>6. AttemptOK("idle", Login!Blank)'
  BY DEF AttemptOK
<1>7. failed' = failed => AttemptOK("reset", loc[r])
  BY <1>1 DEF LoginInv, AttemptOK
<1>8. /\ pc' \in [Requests -> LoginLabels] /\ loc' \in [Requests -> LoginLocals]
      /\ OneEach'
      /\ \A s \in Requests : AttemptOK(pc[s], loc[s])'
  <2>1. CASE Login!Goto(r, "idle", Login!Blank)
    BY <2>1, <1>2, <1>5, <1>6, AttemptMoves DEF LoginLabels
  <2>2. CASE Login!Goto(r, "reset", loc[r]) /\ failed' = failed
    <3>1. ASSUME NEW l, l = loc[r] PROVE AttemptOK("reset", l)'
      BY <3>1, <2>2, <1>7, <1>1 DEF AttemptOK, Login!Entry, Login!Limited
    <3>2. ASSUME NEW l \in LoginLocals, l = loc[r] PROVE <1>8!1 /\ <1>8!2 /\ <1>8!3
      BY <3>2, <3>1, <2>2, <1>2, <1>5, AttemptMoves DEF LoginLabels
    <3> QED BY <3>2, <1>2
  <2> QED BY <2>1, <2>2, <1>3
<1>9. LetStands' /\ LetWithinLimit' /\ Login!TypeOK'
  BY <1>1, LetKept, WindowsKept DEF LoginInv, LoginTypes
<1>10. FailedStands'
  <2>1. f.at > now - Window => [id |-> f.id, at |-> f.at] \in windows[ip]
    BY <1>1 DEF LoginInv, AttemptOK, Login!Entry
  <2> QED BY <2>1, <1>1, <1>4 DEF FailedStands, LoginInv
<1>11. OfAttempts'
  BY <1>1, <1>2, <1>4 DEF OfAttempts, LoginInv
<1> QED BY <1>1, <1>4, <1>8, <1>9, <1>10, <1>11 DEF LoginInv, LoginTypes

\* What is let through and young is a part of its window: there is no more of it than the limit,
\* whatever is taken out of the history or grows old.
LEMMA FewerLet ==
  ASSUME LoginInv, NEW k \in Login!Limited, now' \in Nat, now <= now', \A e \in let' : e.key = k => e \in let
  PROVE  Cardinality(Login!Within(LetOf(k))') <= LimitOf[k]
<1>1. Login!Within(LetOf(k)) \subseteq windows[k]
  BY DEF LoginInv, LetStands, Login!Within, LetOf
<1>2. IsFiniteSet(Login!Within(LetOf(k)))
  BY <1>1, FS_Subset DEF LoginInv, LoginTypes
<1>3. Login!Within(LetOf(k))' \subseteq Login!Within(LetOf(k))
  BY DEF Login!Within, LetOf, LoginInv, LoginTypes
<1>4. /\ Cardinality(Login!Within(LetOf(k))) \in Nat
      /\ IsFiniteSet(Login!Within(LetOf(k))')
      /\ Cardinality(Login!Within(LetOf(k))') <= Cardinality(Login!Within(LetOf(k)))
  BY <1>2, <1>3, FS_Subset, FS_CardinalityType
<1>5. Cardinality(Login!Within(LetOf(k))') \in Nat
  BY <1>4, FS_CardinalityType
<1>6. Cardinality(Login!Within(LetOf(k))) <= LimitOf[k] /\ LimitOf[k] \in Nat
  BY DEF LoginInv, LetWithinLimit, Login!Limited
<1> QED BY <1>4, <1>5, <1>6

\* consume: the entry goes into the window, and is let through where the window then holds no
\* more than its limit.
ConsumesAt(r, k, label) ==
  \/ pc[r] = "address" /\ k = ip /\ label = "account"
  \/ pc[r] = "account" /\ k = loc[r].account /\ label = "answer"

LEMMA ConsumeStep ==
  ASSUME LoginInv, NEW r \in Requests, NEW k \in Login!Limited, NEW label \in LoginLabels,
         ConsumesAt(r, k, label), Login!Consume(r, k, label)
  PROVE  LoginInv'
<1> DEFINE m == [loc[r] EXCEPT !.at = now]
           added == Login!Within(windows[k]) \cup {Login!Entry(m)}
           over == Login!Over(k, Login!Cardinality(added))
           after == IF over THEN [m EXCEPT !.refused = @ \cup {k}] ELSE m
<1>1. /\ windows' = [windows EXCEPT ![k] = added]
      /\ let' = IF over THEN let ELSE let \cup {Login!Key(k, m)}
      /\ Login!Goto(r, label, after)
      /\ UNCHANGED <<now, attempts, failed>>
  BY SameCardinality, Zenon DEF Login!Consume
<1>2. /\ pc[r] # "idle" /\ loc[r] \in LoginLocals /\ loc[r].id \in Nat /\ loc[r].account \in Accounts /\ loc[r].id \in 1..attempts
      /\ \A s \in Requests \ {r} : pc[s] # "idle" => loc[s].id # loc[r].id
  BY UnderWay DEF ConsumesAt
<1>3. /\ now \in Nat /\ attempts \in Nat
      /\ windows \in [Login!Limited -> SUBSET [id : Nat, at : Nat]] /\ IsFiniteSet(windows[k])
  BY DEF LoginInv, LoginTypes
<1>4. m \in LoginLocals /\ m.id = loc[r].id /\ m.at = now /\ m.account = loc[r].account /\ m.refused = loc[r].refused
  BY <1>2, <1>3 DEF LoginLocals
<1>5. /\ after \in LoginLocals /\ after.id = loc[r].id /\ after.at = now /\ after.account = loc[r].account
      /\ after.refused = IF over THEN loc[r].refused \cup {k} ELSE loc[r].refused
  <2> HIDE DEF over, m
  <2> QED BY <1>4 DEF LoginLocals
<1> DEFINE ent == [id |-> loc[r].id, at |-> now]
           key == [key |-> k, id |-> loc[r].id, at |-> now]
<1>6. Login!Entry(m) = ent /\ Login!Key(k, m) = key /\ Login!Entry(after) = ent
  BY <1>4, <1>5 DEF Login!Entry, Login!Key
<1>7. added = Login!Within(windows[k]) \cup {ent}
  BY <1>6
<1>8. let' = IF over THEN let ELSE let \cup {key}
  BY <1>1, <1>6
<1>9. over <=> Cardinality(added) > LimitOf[k]
  BY SameCardinality DEF Login!Over
<1> HIDE DEF m, added, over, after
<1>10. \A e \in windows[k] : e.at > now - Window => e \in added
  BY <1>7 DEF Login!Within
<1>11. ent \in added /\ \A e \in added : e \in windows[k] \/ e = ent
  BY <1>7 DEF Login!Within
<1>12. added \subseteq [id : Nat, at : Nat] /\ IsFiniteSet(added)
  <2>1. Login!Within(windows[k]) \subseteq windows[k]
    BY DEF Login!Within
  <2>2. IsFiniteSet(Login!Within(windows[k]))
    BY <2>1, <1>3, FS_Subset
  <2>3. IsFiniteSet(added)
    BY <2>2, <1>7, FS_AddElement
  <2>4. added \subseteq [id : Nat, at : Nat]
    BY <2>1, <1>2, <1>3, <1>7
  <2> QED BY <2>3, <2>4
<1>13. /\ windows' \in [Login!Limited -> SUBSET [id : Nat, at : Nat]]
       /\ windows'[k] = added /\ \A j \in Login!Limited \ {k} : windows'[j] = windows[j]
  BY <1>1, <1>3, <1>12
<1>14. Own(loc[r].id)
  BY <1>1, <1>3, <1>8, <1>10, <1>11, <1>13 DEF Own
<1>15. \A e \in windows[k] : e.id # loc[r].id
  BY DEF LoginInv, AttemptOK, ConsumesAt
<1>16. \A e \in let : e.id = loc[r].id => e.key # k
  BY DEF LoginInv, AttemptOK, ConsumesAt
<1>17. ASSUME NEW l, l = after PROVE AttemptOK(label, l)'
  <2>1. /\ l.id \in 1..attempts' /\ l.account \in Accounts /\ l.refused \subseteq {ip, l.account}
        /\ \A f \in failed' : f.id # l.id
    BY <1>1, <1>2, <1>5, <1>17 DEF LoginInv, AttemptOK, ConsumesAt
  <2>2. ASSUME NEW e \in let', e.id = l.id
        PROVE  label # "address" /\ e.key \notin l.refused /\ (e.key = ip => e.at = l.at)
    <3>1. CASE e \in let
      BY <3>1, <2>2, <1>5, <1>16, <1>17 DEF LoginInv, AttemptOK, ConsumesAt
    <3>2. CASE e = key /\ ~over
      BY <3>2, <1>5, <1>17 DEF LoginInv, AttemptOK, ConsumesAt
    <3> QED BY <3>1, <3>2, <1>8
  <2>3. label = "account" =>
         /\ l.at = now' /\ l.refused \subseteq {ip}
         /\ \A e \in windows'[l.account] : e.id # l.id
         /\ \A e \in let' : e.id = l.id => e.key # l.account
    BY <1>1, <1>2, <1>5, <1>8, <1>13, <1>17 DEF LoginInv, AttemptOK, ConsumesAt, Login!Limited
  <2>4. label # "address" /\ l.refused = {} /\ l.at > now' - Window => Login!Entry(l) \in windows'[ip]
    <3>1. CASE k = ip
      BY <3>1, <1>6, <1>11, <1>13, <1>17
    <3>2. CASE k # ip
      <4>1. pc[r] = "account" /\ loc[r].at = now
        BY <3>2 DEF LoginInv, AttemptOK, ConsumesAt
      <4>2. loc[r].refused = {} /\ now > now - Window => ent \in windows[ip]
        BY <4>1, <1>3 DEF LoginInv, AttemptOK, Login!Entry
      <4> QED BY <4>2, <3>2, <1>1, <1>5, <1>6, <1>13, <1>17 DEF Login!Limited
    <3> QED BY <3>1, <3>2
  <2>5. label \notin {"address", "reset", "refund"}
    BY DEF ConsumesAt
  <2> QED BY <2>1, <2>2, <2>3, <2>4, <2>5 DEF AttemptOK, Login!Entry, Login!Limited
<1>18. /\ pc' \in [Requests -> LoginLabels] /\ loc' \in [Requests -> LoginLocals]
       /\ OneEach'
       /\ \A s \in Requests : AttemptOK(pc[s], loc[s])'
  <2>1. ASSUME NEW l \in LoginLocals, l = after PROVE <1>18!1 /\ <1>18!2 /\ <1>18!3
    BY <2>1, <1>1, <1>2, <1>5, <1>14, <1>17, AttemptMoves
  <2> QED BY <2>1, <1>5
<1>19. LetStands'
  <2> SUFFICES ASSUME NEW e \in let', e.at > now - Window PROVE [id |-> e.id, at |-> e.at] \in windows'[e.key]
    BY <1>1 DEF LetStands
  <2>1. CASE e \in let
    <3>1. [id |-> e.id, at |-> e.at] \in windows[e.key] /\ e.key \in Login!Limited
      BY <2>1 DEF LoginInv, LetStands, LoginTypes
    <3> QED BY <3>1, <1>10, <1>13
  <2>2. CASE e = key
    BY <2>2, <1>11, <1>13
  <2> QED BY <2>1, <2>2, <1>8
<1>20. LetWithinLimit'
  <2> SUFFICES ASSUME NEW j \in Login!Limited PROVE Cardinality(Login!Within(LetOf(j))') <= LimitOf[j]
    BY DEF LetWithinLimit
  <2>1. CASE j = k /\ ~over
    <3>1. Login!Within(LetOf(j))' \subseteq added
      BY <2>1, <1>19, <1>13 DEF LetStands, LetOf, Login!Within
    <3>2. IsFiniteSet(Login!Within(LetOf(j))') /\ Cardinality(Login!Within(LetOf(j))') <= Cardinality(added)
      BY <3>1, <1>12, FS_Subset
    <3>3. Cardinality(added) \in Nat /\ Cardinality(Login!Within(LetOf(j))') \in Nat
      BY <3>2, <1>12, FS_CardinalityType
    <3>4. LimitOf[k] \in Nat
      BY DEF Login!Limited
    <3> QED BY <3>2, <3>3, <3>4, <2>1, <1>9
  <2>2. CASE over \/ j # k
    <3>1. \A e \in let' : e.key = j => e \in let
      BY <2>2, <1>8
    <3> QED BY <3>1, <1>1, <1>3, FewerLet
  <2> QED BY <2>1, <2>2
<1>21. Login!TypeOK' /\ \A j \in Login!Limited : IsFiniteSet(windows'[j])
  <2>1. ASSUME NEW j \in Login!Limited
        PROVE  /\ \A e \in windows'[j] : e.id \in 1..attempts /\ e.at \in 0..now
               /\ \A e, f \in windows'[j] : e.id = f.id => e = f
               /\ IsFiniteSet(windows'[j])
    BY <1>2, <1>3, <1>11, <1>12, <1>13, <1>15 DEF LoginInv, LoginTypes, Login!TypeOK
  <2> QED BY <2>1, <1>1 DEF Login!TypeOK
<1>22. FailedStands'
  BY <1>1, <1>10, <1>13 DEF FailedStands, LoginInv, Login!Limited
<1>23. OfAttempts' /\ let' \subseteq [key : Login!Limited, id : Nat, at : Nat]
  BY <1>1, <1>2, <1>3, <1>8 DEF OfAttempts, LoginInv, LoginTypes
<1> QED BY <1>1, <1>13, <1>18, <1>19, <1>20, <1>21, <1>22, <1>23 DEF LoginInv, LoginTypes

\* What the rest of a login takes out of a window and of the history of what was let through.
LEMMA TakenOut ==
  ASSUME LoginInv, UNCHANGED <<now, attempts, failed>>,
         windows' \in [Login!Limited -> SUBSET [id : Nat, at : Nat]],
         \A k \in Login!Limited : windows'[k] \subseteq windows[k],
         let' \subseteq let, LetStands', FailedStands',
         pc' \in [Requests -> LoginLabels], loc' \in [Requests -> LoginLocals], OneEach',
         \A s \in Requests : AttemptOK(pc[s], loc[s])'
  PROVE  LoginInv'
<1>1. LetWithinLimit'
  BY FewerLet DEF LetWithinLimit, LoginInv, LoginTypes
<1>2. \A k \in Login!Limited : IsFiniteSet(windows'[k])
  BY FS_Subset DEF LoginInv, LoginTypes
<1>3. Login!TypeOK' /\ OfAttempts'
  BY DEF LoginInv, Login!TypeOK, OfAttempts
<1> QED BY <1>1, <1>2, <1>3 DEF LoginInv, LoginTypes

\* An entry of another attempt stays where this one takes its own out.
LEMMA TakenStays ==
  ASSUME LoginInv, NEW r \in Requests, pc[r] # "idle", NEW k \in Login!Limited, windows' = Login!Taken(k, loc[r])
  PROVE  /\ windows' \in [Login!Limited -> SUBSET [id : Nat, at : Nat]]
         /\ \A j \in Login!Limited : windows'[j] \subseteq windows[j]
         /\ \A j \in Login!Limited : \A e \in windows[j] : j # k \/ e.id # loc[r].id => e \in windows'[j]
  BY DEF LoginInv, LoginTypes, Login!Taken

LEMMA WithdrawStep ==
  ASSUME LoginInv, NEW r \in Requests, Login!Withdraw(r)
  PROVE  LoginInv'
<1>1. /\ pc[r] = "answer" /\ UNCHANGED <<now, attempts, failed, let>>
  BY DEF Login!Withdraw
<1>2. /\ pc[r] # "idle" /\ loc[r] \in LoginLocals /\ loc[r].id \in Nat /\ loc[r].account \in Accounts /\ loc[r].id \in 1..attempts
      /\ \A s \in Requests \ {r} : pc[s] # "idle" => loc[s].id # loc[r].id
      /\ loc[r].refused \subseteq {ip, loc[r].account}
  BY <1>1, UnderWay DEF LoginInv, AttemptOK
<1>3. PICK k \in loc[r].refused :
        /\ windows' = Login!Taken(k, loc[r])
        /\ IF loc[r].refused = {k} THEN Login!Goto(r, "idle", Login!Blank)
           ELSE Login!Goto(r, "answer", [loc[r] EXCEPT !.refused = @ \ {k}])
  BY DEF Login!Withdraw, Login!Reply
<1>4. k \in Login!Limited
  BY <1>2 DEF Login!Limited
<1>5. /\ windows' \in [Login!Limited -> SUBSET [id : Nat, at : Nat]]
      /\ \A j \in Login!Limited : windows'[j] \subseteq windows[j]
      /\ \A j \in Login!Limited : \A e \in windows[j] : j # k \/ e.id # loc[r].id => e \in windows'[j]
  BY <1>2, <1>3, <1>4, TakenStays
<1>6. Own(loc[r].id)
  BY <1>1, <1>5 DEF Own, LoginInv, LoginTypes, Login!Limited
<1>7. LetStands'
  <2> SUFFICES ASSUME NEW e \in let, e.at > now - Window PROVE [id |-> e.id, at |-> e.at] \in windows'[e.key]
    BY <1>1 DEF LetStands
  <2>1. [id |-> e.id, at |-> e.at] \in windows[e.key] /\ e.key \in Login!Limited
    BY DEF LoginInv, LetStands, LoginTypes
  <2>2. e.key # k \/ e.id # loc[r].id
    BY <1>2 DEF LoginInv, AttemptOK
  <2> QED BY <2>1, <2>2, <1>5
<1>8. FailedStands'
  <2> SUFFICES ASSUME NEW f \in failed, f.at > now - Window PROVE [id |-> f.id, at |-> f.at] \in windows'[ip]
    BY <1>1 DEF FailedStands
  <2>1. f.id # loc[r].id
    BY <1>2 DEF LoginInv, AttemptOK
  <2>2. [id |-> f.id, at |-> f.at] \in windows[ip]
    BY DEF LoginInv, FailedStands
  <2> QED BY <2>1, <2>2, <1>5 DEF Login!Limited
<1>9. /\ pc' \in [Requests -> LoginLabels] /\ loc' \in [Requests -> LoginLocals]
      /\ OneEach'
      /\ \A s \in Requests : AttemptOK(pc[s], loc[s])'
  <2>1. CASE Login!Goto(r, "idle", Login!Blank)
    <3>1. AttemptOK("idle", Login!Blank)'
      BY DEF AttemptOK
    <3> QED BY <3>1, <2>1, <1>2, <1>6, LoginBlank, AttemptMoves DEF LoginLabels
  <2>2. CASE loc[r].refused # {k} /\ Login!Goto(r, "answer", [loc[r] EXCEPT !.refused = @ \ {k}])
    <3> DEFINE m == [loc[r] EXCEPT !.refused = @ \ {k}]
    <3>1. /\ m \in LoginLocals /\ m.id = loc[r].id /\ m.at = loc[r].at /\ m.account = loc[r].account
          /\ m.refused = loc[r].refused \ {k}
      BY <1>2 DEF LoginLocals
    <3>2. Login!Goto(r, "answer", m)
      BY <2>2
    <3>3. m.refused # {} /\ m.refused \subseteq loc[r].refused
      BY <2>2, <3>1
    <3> HIDE DEF m
    <3>4. ASSUME NEW l, l = m PROVE AttemptOK("answer", l)'
      BY <3>4, <3>1, <3>3, <1>1, <1>2 DEF LoginInv, AttemptOK
    <3>5. ASSUME NEW l \in LoginLocals, l = m PROVE <1>9!1 /\ <1>9!2 /\ <1>9!3
      BY <3>5, <3>1, <3>2, <3>4, <1>2, <1>6, AttemptMoves DEF LoginLabels
    <3> QED BY <3>5, <3>1
  <2> QED BY <2>1, <2>2, <1>3
<1> QED BY <1>1, <1>5, <1>7, <1>8, <1>9, TakenOut

\* The account's own window is emptied, what was let through of it is forgotten.
LEMMA ResetStep ==
  ASSUME LoginInv, NEW r \in Requests, Login!Reset(r)
  PROVE  LoginInv'
<1>1. /\ pc[r] = "reset" /\ windows' = [windows EXCEPT ![loc[r].account] = {}]
      /\ let' = {e \in let : e.key # loc[r].account}
      /\ Login!Goto(r, "refund", loc[r]) /\ UNCHANGED <<now, attempts, failed>>
  BY DEF Login!Reset, Login!Emptied
<1>2. /\ pc[r] # "idle" /\ loc[r] \in LoginLocals /\ loc[r].id \in Nat /\ loc[r].account \in Accounts /\ loc[r].id \in 1..attempts
      /\ \A s \in Requests \ {r} : pc[s] # "idle" => loc[s].id # loc[r].id
  BY <1>1, UnderWay
<1>3. /\ windows' \in [Login!Limited -> SUBSET [id : Nat, at : Nat]]
      /\ \A j \in Login!Limited : windows'[j] \subseteq windows[j]
      /\ \A j \in Login!Limited \ {loc[r].account} : windows'[j] = windows[j]
  BY <1>1, <1>2 DEF LoginInv, LoginTypes
<1>4. ip \in Login!Limited \ {loc[r].account}
  BY <1>2 DEF Login!Limited
<1>5. Own(loc[r].id)
  BY <1>1, <1>3, <1>4 DEF Own, LoginInv, LoginTypes
<1>6. LetStands' /\ FailedStands'
  BY <1>1, <1>3, <1>4 DEF LoginInv, LoginTypes, LetStands, FailedStands
<1>7. ASSUME NEW l, l = loc[r] PROVE AttemptOK("refund", l)'
  BY <1>7, <1>1, <1>2, <1>3, <1>4 DEF LoginInv, AttemptOK, Login!Entry
<1>8. /\ pc' \in [Requests -> LoginLabels] /\ loc' \in [Requests -> LoginLocals]
      /\ OneEach'
      /\ \A s \in Requests : AttemptOK(pc[s], loc[s])'
  <2>1. ASSUME NEW l \in LoginLocals, l = loc[r] PROVE <1>8!1 /\ <1>8!2 /\ <1>8!3
    BY <2>1, <1>1, <1>2, <1>5, <1>7, AttemptMoves DEF LoginLabels
  <2> QED BY <2>1, <1>2
<1> QED BY <1>1, <1>3, <1>6, <1>8, TakenOut

\* Its own entry leaves the shared window, and no other.
LEMMA RefundStep ==
  ASSUME LoginInv, NEW r \in Requests, Login!Refund(r)
  PROVE  LoginInv'
<1>1. /\ pc[r] = "refund" /\ windows' = Login!Taken(ip, loc[r])
      /\ let' = let \ {Login!Key(ip, loc[r])}
      /\ Login!Goto(r, "idle", Login!Blank) /\ UNCHANGED <<now, attempts, failed>>
  BY DEF Login!Refund, Login!RefundOne, Login!Reply
<1>2. /\ pc[r] # "idle" /\ loc[r] \in LoginLocals /\ loc[r].id \in Nat /\ loc[r].id \in 1..attempts
      /\ \A s \in Requests \ {r} : pc[s] # "idle" => loc[s].id # loc[r].id
  BY <1>1, UnderWay
<1>3. /\ windows' \in [Login!Limited -> SUBSET [id : Nat, at : Nat]]
      /\ \A j \in Login!Limited : windows'[j] \subseteq windows[j]
      /\ \A j \in Login!Limited : \A e \in windows[j] : j # ip \/ e.id # loc[r].id => e \in windows'[j]
  BY <1>1, <1>2, TakenStays DEF Login!Limited
<1>4. Own(loc[r].id)
  BY <1>1, <1>3 DEF Own, LoginInv, LoginTypes, Login!Limited
<1>5. LetStands'
  <2> SUFFICES ASSUME NEW e \in let', e.at > now - Window PROVE [id |-> e.id, at |-> e.at] \in windows'[e.key]
    BY <1>1 DEF LetStands
  <2>1. [id |-> e.id, at |-> e.at] \in windows[e.key] /\ e \in [key : Login!Limited, id : Nat, at : Nat] /\ e \in let
    BY <1>1 DEF LoginInv, LetStands, LoginTypes
  <2>2. e.key # ip \/ e.id # loc[r].id
    <3>1. CASE e.id = loc[r].id /\ e.key = ip
      <4>1. e.at = loc[r].at
        BY <3>1, <2>1, <1>1 DEF LoginInv, AttemptOK
      <4>2. e = Login!Key(ip, loc[r])
        BY <4>1, <3>1, <2>1 DEF Login!Key
      <4> QED BY <4>2, <1>1
    <3> QED BY <3>1
  <2> QED BY <2>1, <2>2, <1>3
<1>6. FailedStands'
  <2> SUFFICES ASSUME NEW f \in failed, f.at > now - Window PROVE [id |-> f.id, at |-> f.at] \in windows'[ip]
    BY <1>1 DEF FailedStands
  <2>1. f.id # loc[r].id
    BY <1>2 DEF LoginInv, AttemptOK
  <2>2. [id |-> f.id, at |-> f.at] \in windows[ip]
    BY DEF LoginInv, FailedStands
  <2> QED BY <2>1, <2>2, <1>3 DEF Login!Limited
<1>7. /\ pc' \in [Requests -> LoginLabels] /\ loc' \in [Requests -> LoginLocals]
      /\ OneEach'
      /\ \A s \in Requests : AttemptOK(pc[s], loc[s])'
  <2>1. AttemptOK("idle", Login!Blank)'
    BY DEF AttemptOK
  <2> QED BY <2>1, <1>1, <1>2, <1>4, LoginBlank, AttemptMoves DEF LoginLabels
<1> QED BY <1>1, <1>3, <1>5, <1>6, <1>7, TakenOut

LEMMA TickLoginStep ==
  ASSUME LoginInv, Login!Tick
  PROVE  LoginInv'
<1>1. /\ now' = now + 1 /\ now \in Nat /\ \A r \in Requests : pc[r] # "account"
      /\ UNCHANGED <<windows, attempts, failed, let, pc, loc>>
  BY DEF Login!Tick, LoginInv, LoginTypes
<1>2. LetWithinLimit'
  BY <1>1, FewerLet DEF LetWithinLimit
<1>3. LetStands' /\ FailedStands'
  BY <1>1 DEF LoginInv, LoginTypes, LetStands, FailedStands
<1>4. ASSUME NEW r \in Requests PROVE AttemptOK(pc[r], loc[r])'
  <2>1. pc[r] # "idle" => loc[r].at \in Nat
    BY UnderWay
  <2>2. \/ pc[r] = "idle" \/ pc[r] = "address"
        \/ pc[r] \in {"answer", "reset", "refund"} /\ loc[r].at \in Nat
    BY <2>1, <1>1 DEF LoginInv, LoginTypes, LoginLabels
  <2> QED BY <2>2, <1>1 DEF LoginInv, AttemptOK, Login!Entry
<1>5. Login!TypeOK'
  BY <1>1 DEF Login!TypeOK, LoginInv, LoginTypes
<1> QED BY <1>1, <1>2, <1>3, <1>4, <1>5 DEF LoginInv, LoginTypes, OneEach, OfAttempts

LEMMA LoginStart == Login!Init => LoginInv
<1> SUFFICES ASSUME Login!Init PROVE LoginInv
  OBVIOUS
<1>1. \A k \in Login!Limited : Cardinality(Login!Within(LetOf(k))) <= LimitOf[k]
  <2> SUFFICES ASSUME NEW k \in Login!Limited PROVE Cardinality(Login!Within(LetOf(k))) <= LimitOf[k]
    OBVIOUS
  <2>1. Login!Within(LetOf(k)) = {}
    BY DEF Login!Init, LetOf, Login!Within
  <2>2. LimitOf[k] \in Nat
    BY DEF Login!Limited
  <2> QED BY <2>1, <2>2, FS_EmptySet
<1>2. LoginTypes
  BY LoginBlank, FS_EmptySet DEF Login!Init, LoginTypes, LoginLabels
<1> QED
  BY <1>1, <1>2 DEF LoginInv, Login!Init, Login!TypeOK, OfAttempts, LetStands, LetWithinLimit, FailedStands,
     OneEach, AttemptOK

LEMMA LoginStep == LoginInv /\ [Login!Next]_(Login!vars) => LoginInv'
<1> SUFFICES ASSUME LoginInv, [Login!Next]_(Login!vars) PROVE LoginInv'
  OBVIOUS
<1>1. CASE UNCHANGED Login!vars
  <2>1. UNCHANGED <<windows, now, attempts, failed, let, pc, loc>>
    BY <1>1 DEF Login!vars
  <2>2. LoginTypes' /\ Login!TypeOK' /\ OfAttempts'
    BY <2>1 DEF LoginInv, LoginTypes, Login!TypeOK, OfAttempts
  <2>3. LetStands' /\ LetWithinLimit' /\ FailedStands'
    BY <2>1 DEF LoginInv, LetStands, LetWithinLimit, LetOf, Login!Within, FailedStands
  <2>4. OneEach' /\ \A r \in Requests : AttemptOK(pc[r], loc[r])'
    BY <2>1 DEF LoginInv, OneEach, AttemptOK, Login!Entry
  <2> QED BY <2>2, <2>3, <2>4 DEF LoginInv
<1>2. CASE Login!Tick
  BY <1>2, TickLoginStep
<1>3. ASSUME NEW r \in Requests, Login!Step(r) PROVE LoginInv'
  <2>1. CASE Login!BeginLogin(r)
    BY <2>1, BeginLoginStep
  <2>2. CASE Login!ConsumeAddress(r)
    BY <2>2, ConsumeStep DEF Login!ConsumeAddress, ConsumesAt, LoginLabels, Login!Limited
  <2>3. CASE Login!ConsumeAccount(r)
    <3>1. loc[r].account \in Login!Limited
      BY <2>3, UnderWay DEF Login!ConsumeAccount, Login!Limited
    <3> QED BY <3>1, <2>3, ConsumeStep DEF Login!ConsumeAccount, ConsumesAt, LoginLabels
  <2>4. CASE Login!Withdraw(r)
    BY <2>4, WithdrawStep
  <2>5. CASE Login!VerifyPassword(r)
    BY <2>5, VerifyStep
  <2>6. CASE Login!Reset(r)
    BY <2>6, ResetStep
  <2>7. CASE Login!Refund(r)
    BY <2>7, RefundStep
  <2>8. CASE Login!Crash(r)
    BY <2>8, CrashLoginStep
  <2> QED BY <1>3, <2>1, <2>2, <2>3, <2>4, <2>5, <2>6, <2>7, <2>8 DEF Login!Step
<1> QED BY <1>1, <1>2, <1>3 DEF Login!Next

LEMMA LoginSound == LoginInv => Login!TypeOK /\ Login!FailuresStayCounted
<1> SUFFICES ASSUME LoginInv PROVE Login!FailuresStayCounted
  BY DEF LoginInv
<1>1. \A k \in Login!Limited :
       Login!Cardinality(Login!Within({[id |-> e.id, at |-> e.at] : e \in {x \in let : x.key = k}})) <= LimitOf[k]
  BY SameCardinality DEF LoginInv, LetWithinLimit, LetOf
<1>2. \A f \in Login!Within(failed) : \E e \in windows[ip] : e.id = f.id
  BY DEF LoginInv, FailedStands, Login!Within
<1> QED BY <1>1, <1>2 DEF Login!FailuresStayCounted

-----------------------------------------------------------------------------
(* The composition. *)

LEMMA LoginsOfPeople ==
  ASSUME focus = "logins" => LoginInv, [MCNext]_everywhere
  PROVE  (focus = "logins" => LoginInv)'
<1>1. focus' = focus
  BY DEF MCNext, everywhere
<1> SUFFICES ASSUME focus = "logins" PROVE LoginInv'
  BY <1>1
<1>2. [Login!Next]_(Login!vars)
  BY DEF MCNext, ServerNext, PageNext, everywhere, vars, Login!vars, logins
<1> QED BY <1>2, LoginStep

\* However logins overlap, succeed and die, a window lets no more through than its limit, and
\* nobody's success takes the failure of another out of the window they share (rate-limit,
\* login of auth.service), for any number of accounts, requests and attempts, and any limits.
THEOREM FailuresAlwaysCounted == MCSpec => []FailuresStayCounted
<1>1. MCInit => (focus = "logins" => LoginInv)
  BY LoginStart DEF MCInit, ServerInit, PageInit
<1>2. (focus = "logins" => LoginInv) => FailuresStayCounted
  BY LoginSound DEF FailuresStayCounted
<1> QED BY <1>1, <1>2, LoginsOfPeople, PTL DEF MCSpec

LEMMA SessionsOfPeople ==
  ASSUME OfSessions => Session!IInv, [MCNext]_everywhere
  PROVE  (OfSessions => Session!IInv)'
<1>1. focus' = focus
  BY DEF MCNext, everywhere
<1> SUFFICES ASSUME OfSessions PROVE Session!IInv'
  BY <1>1 DEF OfSessions
<1>2. CASE SessionNext
  <2>1. Session!Next
    BY <1>2 DEF SessionNext, Session!Next, Session!Step, Session!TokenRequest, Session!AccountRequest, Session!FactorRequest
  <2> QED BY <2>1, Session!StepInv
<1>3. CASE UNCHANGED Session!vars
  BY <1>3, Session!StepInv
<1> QED
  BY <1>2, <1>3 DEF OfSessions, MCNext, ServerNext, PageNext, everywhere, vars, Session!vars, sessions, Session!redis, Session!counts, Session!history

\* The tokens, families, codes and passwords of an account stay sound under requests that
\* overlap (auth.service, session.repository), in every instance the composition picks.
THEOREM SessionsOfPeopleSound == MCSpec => []SessionsAreSound
<1>1. MCInit => (OfSessions => Session!IInv)
  BY Session!InitInv DEF MCInit, ServerInit, PageInit, OfSessions
<1>2. (OfSessions => Session!IInv) => SessionsAreSound
  BY Session!InvIsSound DEF SessionsAreSound
<1> QED BY <1>1, <1>2, SessionsOfPeople, PTL DEF MCSpec
=============================================================================
