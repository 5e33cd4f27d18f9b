------------------------------- MODULE Billing -------------------------------
(***************************************************************************)
(* Entry fees (modules/billing): the invoice of one registration in a      *)
(* tournament with a fee, its payments, the double-entry ledger and the    *)
(* outbox events.  MANUAL (cash) is the one provider whose adapter is      *)
(* configured; the others reject every call, webhooks included, so a       *)
(* payment goes CREATED -> PAID -> REFUNDED by the hand of an admin.       *)
(*                                                                         *)
(* Requests interleave between awaits.  PostgreSQL runs at READ COMMITTED: *)
(* the read that opens a transaction is a step of its own, and the guarded *)
(* update with everything after it takes effect at once when the           *)
(* transaction commits.  Invoices and payments are numbered as created.    *)
(*                                                                         *)
(* Of two definitions of one thing the first is a plausible mistake: the   *)
(* second is the code's, and the specification uses no other.              *)
(***************************************************************************)
EXTENDS Integers, Sequences, FiniteSets

CONSTANTS
  Requests,     \* slots for requests in flight
  Handles,      \* [Requests -> SUBSET Kinds]: what a slot may run
  Keys,         \* idempotency keys the clients use
  Fee,          \* the entry fee, in tiyin
  MaxAttempts,  \* MAX_ATTEMPTS of createInvoice
  Null,
  MaxInvoices,  \* bound: clients ask for no further invoice
  MaxPayments,  \* bound: clients begin no further payment
  MaxCrashes    \* bound: requests that die between two awaits

Kinds == {"invoice", "pay", "confirm", "refund"}
Payments == 1..MaxPayments

ASSUME HandlesAssumption == Handles \in [Requests -> SUBSET Kinds]
ASSUME FeeAssumption == Fee \in Nat \ {0}
ASSUME AttemptsAssumption == MaxAttempts \in Nat \ {0}
ASSUME NullAssumption == Null \notin Nat
ASSUME BillingBounds == {MaxInvoices, MaxPayments, MaxCrashes} \subseteq Nat

VARIABLES
  reg,       \* the Registration: its invoice, isConfirmed, isWithdrawn
  invoices,  \* the status of each Invoice, by number
  payments,  \* the Payment rows, by number
  ledger,    \* of each payment: the transactions booked for it
  outbox,    \* of each payment: the events enqueued for it
  pc, loc,   \* the await each request is stopped at, its local variables
  crashes

tables == <<reg, invoices, payments, ledger, outbox>>
vars   == <<reg, invoices, payments, ledger, outbox, pc, loc, crashes>>

Blank == [kind |-> "invoice", inv |-> 0, key |-> Null, pay |-> 0,
          tries |-> 0, open |-> FALSE, seen |-> "CREATED"]

Goto(r, label, l) ==
  /\ pc' = [pc EXCEPT ![r] = label]
  /\ loc' = [loc EXCEPT ![r] = l]

\* The request replied, was rejected, or threw.
Reply(r) == Goto(r, "idle", Blank)

At(r, label, kind) == pc[r] = label /\ loc[r].kind = kind

Local == UNCHANGED <<tables, crashes>>

\* No invoice has been asked for.
Unbilled ==
  /\ reg = [invoice |-> Null, confirmed |-> FALSE, withdrawn |-> FALSE]
  /\ invoices = <<>> /\ payments = <<>>
  /\ ledger = [n \in Payments |-> <<>>]
  /\ outbox = [n \in Payments |-> <<>>]
  /\ crashes = 0

Init ==
  /\ Unbilled
  /\ pc = [r \in Requests |-> "idle"]
  /\ loc = [r \in Requests |-> Blank]

-----------------------------------------------------------------------------
(* createInvoiceForRegistration *)

BeginInvoice(r) ==
  /\ pc[r] = "idle" /\ "invoice" \in Handles[r]
  /\ Len(invoices) < MaxInvoices
  /\ Goto(r, "view", [Blank EXCEPT !.kind = "invoice"])
  /\ Local

\* The registration is neither withdrawn nor confirmed.
ViewRegistration(r) ==
  /\ At(r, "view", "invoice")
  /\ IF reg.withdrawn \/ reg.confirmed THEN Reply(r)
     ELSE Goto(r, IF reg.invoice = Null THEN "number" ELSE "existing",
               [loc[r] EXCEPT !.inv = IF reg.invoice = Null THEN 0 ELSE reg.invoice])
  /\ Local

\* An invoice that is open or paid stands in the way, a refunded one does not.
Open(i) == invoices[i] = "CREATED"
Blocking(i) == invoices[i] \in {"CREATED", "PAID"}

CheckExisting(r) ==
  /\ At(r, "existing", "invoice")
  /\ IF Blocking(loc[r].inv) THEN Reply(r) ELSE Goto(r, "number", loc[r])
  /\ Local

\* repo.createInvoice: the highest number so far, plus one.
ReadNumber(r) ==
  /\ At(r, "number", "invoice")
  /\ Goto(r, "insert", [loc[r] EXCEPT !.inv = Len(invoices) + 1])
  /\ Local

\* The number is unique: a taken one is tried again, MAX_ATTEMPTS times.  The
\* invoice and the link from the registration are one transaction.
NumberFree(i) == i = Len(invoices) + 1

InsertInvoice(r) ==
  /\ At(r, "insert", "invoice")
  /\ NumberFree(loc[r].inv)
  /\ invoices' = Append(invoices, "CREATED")
  /\ reg' = [reg EXCEPT !.invoice = loc[r].inv]
  /\ Reply(r)
  /\ UNCHANGED <<payments, ledger, outbox, crashes>>

NumberTaken(r) ==
  /\ At(r, "insert", "invoice")
  /\ ~NumberFree(loc[r].inv)
  /\ IF loc[r].tries + 1 < MaxAttempts
     THEN Goto(r, "number", [loc[r] EXCEPT !.tries = @ + 1])
     ELSE Reply(r)
  /\ Local

-----------------------------------------------------------------------------
(* initiatePayment *)

BeginPay(r) ==
  /\ pc[r] = "idle" /\ "pay" \in Handles[r]
  /\ Len(payments) < MaxPayments
  /\ \E i \in 1..Len(invoices), k \in Keys :
       Goto(r, "invoice", [Blank EXCEPT !.kind = "pay", !.inv = i, !.key = k])
  /\ Local

ReadInvoice(r) ==
  /\ At(r, "invoice", "pay")
  /\ Goto(r, "key", [loc[r] EXCEPT !.open = Open(loc[r].inv)])
  /\ Local

KeyUsed(k) == \E n \in 1..Len(payments) : payments[n].key = k

\* A known key is answered from the stored payment, or refused as reused.
LookupKey(r) ==
  /\ At(r, "key", "pay")
  /\ IF KeyUsed(loc[r].key) \/ ~loc[r].open THEN Reply(r)
     ELSE Goto(r, "create", loc[r])
  /\ Local

\* createPaymentIdempotent: idempotencyKey is unique.
KeyFree(k) == ~KeyUsed(k)

CreatePayment(r) ==
  LET l == loc[r] IN
  /\ At(r, "create", "pay")
  /\ Len(payments) < MaxPayments
  /\ KeyFree(l.key)
  /\ payments' = Append(payments, [inv |-> l.inv, key |-> l.key,
                                   status |-> "CREATED", ref |-> FALSE])
  /\ Goto(r, "checkout", [l EXCEPT !.pay = Len(payments) + 1])
  /\ UNCHANGED <<reg, invoices, ledger, outbox, crashes>>

\* The parallel request won: its payment is the answer.  (A request past the
\* bound on payments ends here too.)
KeyTaken(r) ==
  /\ At(r, "create", "pay")
  /\ ~KeyFree(loc[r].key) \/ Len(payments) >= MaxPayments
  /\ Reply(r)
  /\ Local

\* setProviderCheckout.
SetCheckout(r) ==
  /\ At(r, "checkout", "pay")
  /\ payments' = [payments EXCEPT ![loc[r].pay].ref = TRUE]
  /\ Reply(r)
  /\ UNCHANGED <<reg, invoices, ledger, outbox, crashes>>

-----------------------------------------------------------------------------
(* The ledger (core/billing/ledger). *)

EntryFeeEntries ==
  <<[account |-> "cash.manual", direction |-> "DEBIT", amount |-> Fee],
    [account |-> "liability.organizer_payable", direction |-> "CREDIT", amount |-> Fee]>>

Reversed(entries) ==
  [n \in DOMAIN entries |->
     [entries[n] EXCEPT !.direction = IF @ = "DEBIT" THEN "CREDIT" ELSE "DEBIT"]]

\* The books of payment n once `entries' and `event' are added.
Book(n, entries, event) ==
  /\ ledger' = [ledger EXCEPT ![n] = Append(@, entries)]
  /\ outbox' = [outbox EXCEPT ![n] = Append(@, event)]

-----------------------------------------------------------------------------
(* confirmManualPayment and applyPaymentSuccess *)

BeginConfirm(r) ==
  /\ pc[r] = "idle" /\ "confirm" \in Handles[r]
  /\ \E n \in 1..Len(payments) :
       Goto(r, "apply", [Blank EXCEPT !.kind = "confirm", !.pay = n])
  /\ Local

\* PAID already: nothing to do.  REFUNDED: an illegal transition.
ReadForSuccess(r) ==
  /\ At(r, "apply", "confirm")
  /\ LET status == payments[loc[r].pay].status IN
     IF status # "CREATED" THEN Reply(r)
     ELSE Goto(r, "cas", [loc[r] EXCEPT !.seen = status])
  /\ Local

\* updateMany WHERE id AND status = what was read; then the invoice, the
\* registration, the ledger and the outbox, in the same transaction.
SamePayment(l) == TRUE
UnchangedSince(l) == payments[l.pay].status = l.seen

ConfirmLinked(i) ==
  IF reg.invoice = i THEN [reg EXCEPT !.confirmed = TRUE] ELSE reg

Succeed(r) ==
  LET n == loc[r].pay
      i == payments[n].inv
  IN
  /\ At(r, "cas", "confirm")
  /\ UnchangedSince(loc[r])
  /\ payments' = [payments EXCEPT ![n].status = "PAID"]
  /\ invoices' = [invoices EXCEPT ![i] = "PAID"]
  /\ reg' = ConfirmLinked(i)
  /\ Book(n, EntryFeeEntries, "PaymentCompleted")
  /\ Reply(r)
  /\ UNCHANGED crashes

-----------------------------------------------------------------------------
(* refund and applyRefund *)

\* Only a paid payment is refunded; a refunded one is answered as it is.  The
\* MANUAL adapter accepts every refund.
BeginRefund(r) ==
  /\ pc[r] = "idle" /\ "refund" \in Handles[r]
  /\ \E n \in 1..Len(payments) :
       /\ payments[n].status = "PAID"
       /\ Goto(r, "apply", [Blank EXCEPT !.kind = "refund", !.pay = n])
  /\ Local

ReadForRefund(r) ==
  /\ At(r, "apply", "refund")
  /\ LET status == payments[loc[r].pay].status IN
     IF status # "PAID" THEN Reply(r)
     ELSE Goto(r, "cas", [loc[r] EXCEPT !.seen = status])
  /\ Local

\* The registration stays as it is: withdrawing is a decision of its own.
RefundInvoice(i) == [invoices EXCEPT ![i] = "REFUNDED"]

Refund(r) ==
  LET n == loc[r].pay IN
  /\ At(r, "cas", "refund")
  /\ UnchangedSince(loc[r])
  /\ payments' = [payments EXCEPT ![n].status = "REFUNDED"]
  /\ invoices' = RefundInvoice(payments[n].inv)
  /\ Book(n, Reversed(EntryFeeEntries), "RefundIssued")
  /\ Reply(r)
  /\ UNCHANGED <<reg, crashes>>

\* The guarded update matched no row: somebody else was first.
CasLost(r) ==
  /\ pc[r] = "cas"
  /\ ~UnchangedSince(loc[r])
  /\ Reply(r)
  /\ Local

-----------------------------------------------------------------------------
(* The environment. *)

\* The player is withdrawn from the tournament.
Withdraw ==
  /\ ~reg.withdrawn
  /\ reg' = [reg EXCEPT !.withdrawn = TRUE]
  /\ UNCHANGED <<invoices, payments, ledger, outbox, pc, loc, crashes>>

\* A request dies between two awaits; an open transaction rolls back.
Crash(r) ==
  /\ pc[r] # "idle"
  /\ crashes < MaxCrashes
  /\ crashes' = crashes + 1
  /\ Reply(r)
  /\ UNCHANGED tables

Next ==
  \/ \E r \in Requests :
       \/ BeginInvoice(r) \/ ViewRegistration(r) \/ CheckExisting(r)
       \/ ReadNumber(r) \/ InsertInvoice(r) \/ NumberTaken(r)
       \/ BeginPay(r) \/ ReadInvoice(r) \/ LookupKey(r)
       \/ CreatePayment(r) \/ KeyTaken(r) \/ SetCheckout(r)
       \/ BeginConfirm(r) \/ ReadForSuccess(r) \/ Succeed(r)
       \/ BeginRefund(r) \/ ReadForRefund(r) \/ Refund(r)
       \/ CasLost(r) \/ Crash(r)
  \/ Withdraw

Spec == Init /\ [][Next]_vars

-----------------------------------------------------------------------------
(* Properties. *)

Statuses == {"CREATED", "PAID", "REFUNDED"}
Labels == {"idle", "view", "existing", "number", "insert", "invoice", "key",
           "create", "checkout", "apply", "cas"}
PaymentRow == [inv : Nat \ {0}, key : Keys, status : Statuses, ref : BOOLEAN]
Entry == [account : {"cash.manual", "liability.organizer_payable"},
          direction : {"DEBIT", "CREDIT"}, amount : Nat \ {0}]

\* The rows and the requests are well formed, every reference leads to a row and
\* every ledger entry has a positive amount (buildLedgerTransaction).
TypeOK ==
  /\ invoices \in Seq(Statuses)
  /\ reg \in [invoice : 1..Len(invoices) \cup {Null},
              confirmed : BOOLEAN, withdrawn : BOOLEAN]
  /\ payments \in Seq(PaymentRow)
  /\ Len(payments) <= MaxPayments
  /\ \A n \in 1..Len(payments) : payments[n].inv <= Len(invoices)
  /\ ledger \in [Payments -> Seq(Seq(Entry))]
  /\ outbox \in [Payments -> Seq({"PaymentCompleted", "RefundIssued"})]
  /\ pc \in [Requests -> Labels]
  /\ loc \in [Requests -> [kind : Kinds, inv : Nat, key : Keys \cup {Null}, pay : Nat,
                           tries : Nat, open : BOOLEAN, seen : Statuses]]
  /\ crashes \in Nat

PaymentsOf(i) == {n \in 1..Len(payments) : payments[n].inv = i}

\* What the books and the outbox say of a payment: the fee is booked as it is paid, and
\* the same entries are reversed as it is refunded.
Booked(status) ==
  CASE status = "CREATED"  -> <<>>
    [] status = "PAID"     -> <<EntryFeeEntries>>
    [] status = "REFUNDED" -> <<EntryFeeEntries, Reversed(EntryFeeEntries)>>
Told(status) ==
  CASE status = "CREATED"  -> <<>>
    [] status = "PAID"     -> <<"PaymentCompleted">>
    [] status = "REFUNDED" -> <<"PaymentCompleted", "RefundIssued">>

StatusOf(n) == IF n <= Len(payments) THEN payments[n].status ELSE "CREATED"

\* However often a payment is confirmed and refunded, and by however many
\* requests at once, the books hold its money once while it is paid and not at
\* all before and after, and each change is announced once (applyPaymentSuccess,
\* applyRefund: WHERE status).
BooksMatchPayments ==
  \A n \in Payments : ledger[n] = Booked(StatusOf(n)) /\ outbox[n] = Told(StatusOf(n))

\* However often a client retries with one key, there is one payment of that key
\* (createPaymentIdempotent).
OnePaymentPerKey ==
  \A m, n \in 1..Len(payments) : payments[m].key = payments[n].key => m = n

\* Money that was taken on the invoice of a registration confirms it.
PaidInvoiceConfirms ==
  reg.invoice # Null /\ invoices[reg.invoice] \in {"PAID", "REFUNDED"} => reg.confirmed

\* What payments leave behind adds up, whatever requests overlap or die.
PaymentsAddUp == BooksMatchPayments /\ OnePaymentPerKey /\ PaidInvoiceConfirms

\* A registration has one invoice that is open or paid, so nobody is charged for
\* it twice (createInvoiceForRegistration).  It does not hold: BillingTwoInvoices.
OneLiveInvoice == Cardinality({i \in 1..Len(invoices) : Blocking(i)}) <= 1

\* An invoice is paid once.  It does not hold: PeopleDivergences.
InvoicePaidOnce ==
  \A i \in 1..Len(invoices) :
    Cardinality({n \in PaymentsOf(i) : payments[n].status = "PAID"}) <= 1

\* A refunded invoice stays refunded: its status is terminal.  It
\* does not hold: PeopleDivergences.
RefundedIsTerminal ==
  [][\A i \in 1..Len(invoices) : invoices[i] = "REFUNDED" => invoices'[i] = "REFUNDED"]_vars
=============================================================================
