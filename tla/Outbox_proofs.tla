---------------------------- MODULE Outbox_proofs ----------------------------
(***************************************************************************)
(* What the outbox gives for any number of events, pollers, recipients and *)
(* faults.  The inductive invariant says what the advisory lock and the    *)
(* transaction are worth to a poll at each of its awaits.                  *)
(***************************************************************************)
EXTENDS Outbox, FiniteSetTheorems, TLAPS

USE EventsAssumption, NoneAssumption, SizesAssumption

AtListener(i) == pc[i] \in {"lookup", "insert", "dispatch", "resolved", "catch"}

\* A listener has handled the event, or has thrown.
Handled(e) == notes[e] # <<>> \/ e \in thrown

\* The lock is held by the one poll whose transaction is open; a poll that has not
\* begun knows nothing; only an expiry leaves a poll running without its lock.
TransactionOK(i) ==
  /\ loc[i].open <=> lock = i
  /\ pc[i] = "idle" => loc[i] = Blank
  /\ expiries = 0 /\ pc[i] # "idle" => loc[i].open

\* What a poll has read, has at its listener and has marked are different events, and
\* still pending while its transaction is open.
MarksOK(i) ==
  /\ loc[i].batch \cap loc[i].pub = {}
  /\ loc[i].event \notin loc[i].batch \cup loc[i].pub
  /\ AtListener(i) <=> loc[i].event # 0
  /\ loc[i].open =>
       \A e \in Events :
         e \in loc[i].batch \cup loc[i].pub \cup {loc[i].event} => status[e] = "PENDING"

\* Where a poll is tells what is in the notification table.
RowsOK(i) ==
  /\ \A e \in Events : e \in loc[i].batch \cup {loc[i].event} => status[e] # "NONE"
  /\ pc[i] = "insert" /\ expiries = 0 => notes[loc[i].event] = <<>>
  /\ pc[i] = "dispatch" => loc[i].nth \in 1..Len(notes[loc[i].event])
  /\ pc[i] = "resolved" => Handled(loc[i].event)
  /\ \A e \in loc[i].pub : Handled(e)

\* Whoever has read an event has read or seen handled every earlier one.
OrderOK(i) ==
  /\ \A e \in loc[i].batch, d \in Events :
       d < e => d \in loc[i].batch \/ d = loc[i].event \/ Handled(d)
  /\ loc[i].event # 0 => \A d \in Events : d < loc[i].event => Handled(d)

PollerOK(i) == TransactionOK(i) /\ MarksOK(i) /\ RowsOK(i) /\ OrderOK(i)

\* Events are written in their order, and told of after they are written.
TableOK ==
  /\ \A e \in Events : status[e] = "NONE" => notes[e] = <<>>
  /\ \A d, e \in Events : d < e /\ status[e] # "NONE" => status[d] # "NONE"

IInv ==
  /\ TypeOK /\ TableOK /\ \A i \in Pollers : PollerOK(i)
  /\ OnceUnderOneLock /\ InOrderUnlessThrown /\ LostOnlyByThrowing

-----------------------------------------------------------------------------
(* Type correctness. *)

\* The parts of TypeOK that the control and the locals of a poll make up.
ControlOK == pc \in [Pollers -> Labels] /\ loc \in [Pollers -> Locals]

\* The rest: the tables, the lock and the counters.
DataOK ==
  /\ status \in [Events -> Statuses]
  /\ lock \in Pollers \cup {None}
  /\ notes \in [Events -> Seq(NoteRows)]
  /\ thrown \subseteq Events
  /\ faults \in Nat /\ crashes \in Nat /\ expiries \in Nat

\* TypeOK is these two.
LEMMA TypeParts == TypeOK <=> ControlOK /\ DataOK
BY DEF TypeOK, ControlOK, DataOK

\* A poll that knows nothing is well formed.
LEMMA BlankOK == Blank \in Locals
BY DEF Blank, Locals

\* A jump moves one poll, and leaves it well formed if it is given well-formed locals.
LEMMA GotoOK ==
  ASSUME ControlOK, NEW i \in Pollers, NEW label \in Labels, NEW l \in Locals,
         Goto(i, label, l)
  PROVE  /\ ControlOK'
         /\ pc'[i] = label /\ loc'[i] = l
         /\ \A j \in Pollers : j # i => pc'[j] = pc[j] /\ loc'[j] = loc[j]
BY DEF ControlOK, Goto

\* What a poll can become keeps it well formed.
LEMMA LocalsOK ==
  ASSUME NEW l \in Locals
  PROVE  /\ \A b \in SUBSET Events, e \in Events : [l EXCEPT !.batch = b, !.event = e] \in Locals
         /\ [l EXCEPT !.event = 0, !.nth = 0, !.todo = {}] \in Locals
         /\ \A p \in SUBSET Events : [l EXCEPT !.pub = p] \in Locals
         /\ \A n \in Nat, t \in SUBSET Recipients : [l EXCEPT !.nth = n, !.todo = t] \in Locals
         /\ \A t \in SUBSET Recipients : [l EXCEPT !.todo = t] \in Locals
         /\ [l EXCEPT !.open = FALSE] \in Locals
         /\ \A b \in SUBSET Events : [Blank EXCEPT !.batch = b, !.open = TRUE] \in Locals
<1>0. 0 \in 0..NumEvents /\ Events \subseteq 0..NumEvents
  BY DEF Events
<1>1. \A b \in SUBSET Events, e \in Events : [l EXCEPT !.batch = b, !.event = e] \in Locals
  BY <1>0 DEF Locals
<1>2. [l EXCEPT !.event = 0, !.nth = 0, !.todo = {}] \in Locals
  BY <1>0 DEF Locals
<1>3. \A b \in SUBSET Events : [Blank EXCEPT !.batch = b, !.open = TRUE] \in Locals
  BY BlankOK DEF Locals
<1> QED
  BY <1>1, <1>2, <1>3 DEF Locals

-----------------------------------------------------------------------------
(* A step seen by a poll that does not move. *)

\* Rows and events do not vanish, and no exception or expiry is undone.
Grows ==
  /\ \A e \in Events : Len(notes[e]) <= Len(notes'[e])
  /\ \A e \in Events : status[e] # "NONE" => status'[e] # "NONE"
  /\ thrown \subseteq thrown' /\ expiries <= expiries'

\* A poll that does not move keeps what it knows, if nobody settles events under
\* its lock or writes rows it has just found missing.
LEMMA UnmovedOK ==
  ASSUME TypeOK, TypeOK', Grows, NEW j \in Pollers, PollerOK(j),
         pc'[j] = pc[j], loc'[j] = loc[j], lock' = j <=> lock = j,
         loc[j].open => \A e \in Events : status[e] = "PENDING" => status'[e] = "PENDING",
         expiries' = 0 /\ pc[j] = "insert" => notes'[loc[j].event] = notes[loc[j].event]
  PROVE  PollerOK(j)'
<1> DEFINE l == loc[j]
<1>1. l \in Locals /\ AtListener(j)' = AtListener(j)
  BY DEF TypeOK, AtListener
<1>2. \A e \in Events : /\ notes[e] \in Seq(NoteRows) /\ notes'[e] \in Seq(NoteRows)
                        /\ notes[e] # <<>> => notes'[e] # <<>>
  BY DEF TypeOK, Grows
<1>3. /\ expiries' = 0 => expiries = 0
      /\ \A e \in Events : Handled(e) => Handled(e)'
  BY <1>2 DEF TypeOK, Grows, Handled
<1>4. AtListener(j) => l.event \in Events
  BY <1>1 DEF PollerOK, MarksOK, Locals, Events
<1>5. TransactionOK(j)'
  BY <1>3 DEF PollerOK, TransactionOK
<1>6. MarksOK(j)'
  BY <1>1 DEF PollerOK, MarksOK
<1>7. RowsOK(j)'
  <2>1. \A e \in Events : e \in l.batch \cup {l.event} => status'[e] # "NONE"
    BY DEF PollerOK, RowsOK, Grows
  <2>2. pc[j] = "insert" /\ expiries' = 0 => notes'[l.event] = <<>>
    BY <1>3 DEF PollerOK, RowsOK
  <2>3. ASSUME pc[j] = "dispatch" PROVE l.nth \in 1..Len(notes'[l.event])
    <3>1. l.event \in Events
      BY <2>3, <1>4 DEF AtListener
    <3>2. l.nth \in 1..Len(notes[l.event])
      BY <2>3 DEF PollerOK, RowsOK
    <3>3. Len(notes[l.event]) \in Nat /\ Len(notes'[l.event]) \in Nat
      BY <1>2, <3>1
    <3> QED
      BY <3>1, <3>2, <3>3 DEF Grows
  <2>4. pc[j] = "resolved" => Handled(l.event)'
    BY <1>3, <1>4 DEF PollerOK, RowsOK, AtListener
  <2>5. \A e \in l.pub : Handled(e)'
    BY <1>1, <1>3 DEF PollerOK, RowsOK, Locals
  <2> QED
    BY <2>1, <2>2, <2>3, <2>4, <2>5 DEF RowsOK
<1>8. OrderOK(j)'
  BY <1>1, <1>2, <1>3, <1>4 DEF PollerOK, OrderOK, Locals
<1> QED
  BY <1>5, <1>6, <1>7, <1>8 DEF PollerOK

-----------------------------------------------------------------------------
(* A step of a poll between its transactions: only its locals change. *)

Quiet == UNCHANGED <<status, lock, notes, thrown, crashes, expiries>> /\ faults' \in Nat
Alone(i) == \A j \in Pollers : j # i => pc'[j] = pc[j] /\ loc'[j] = loc[j]

\* It is enough to look at the poll that moves.
LEMMA QuietOK ==
  ASSUME IInv, Quiet, ControlOK', NEW i \in Pollers, Alone(i), PollerOK(i)'
  PROVE  IInv'
<1>1. TypeOK'
  <2>1. DataOK
    BY TypeParts DEF IInv
  <2>2. DataOK'
    BY <2>1 DEF DataOK, Quiet, bounds
  <2> QED
    BY <2>2, TypeParts DEF TypeOK, ControlOK, DataOK
<1>2. Grows
  <2>1. \A e \in Events : Len(notes[e]) \in Nat
    BY DEF IInv, TypeOK
  <2>2. faults \in Nat /\ expiries \in Nat
    BY DEF IInv, TypeOK
  <2> QED
    BY <2>1, <2>2 DEF Quiet, Grows, bounds
<1>3. ASSUME NEW j \in Pollers PROVE PollerOK(j)'
  <2>1. CASE j # i
    BY <2>1, <1>1, <1>2, UnmovedOK DEF IInv, Alone, Quiet, bounds
  <2> QED
    BY <2>1
<1>4. TableOK'
  BY DEF IInv, TableOK, Quiet, bounds
<1>5. OnceUnderOneLock' /\ InOrderUnlessThrown' /\ LostOnlyByThrowing'
  BY DEF IInv, Quiet, OnceUnderOneLock, NotifiedOnce, InOrderUnlessThrown,
     LostOnlyByThrowing, Closed
<1> QED
  BY <1>1, <1>3, <1>4, <1>5 DEF IInv

\* The next event of the batch goes to its listener.
LEMMA EmitOK ==
  ASSUME IInv, NEW i \in Pollers, Emit(i)
  PROVE  IInv'
<1> DEFINE l == loc[i]
<1>0. ControlOK /\ l \in Locals /\ PollerOK(i)
  BY TypeParts DEF IInv, ControlOK
<1>1. PICK e \in l.batch : /\ Earliest(e, l.batch)
                          /\ Goto(i, "lookup", [l EXCEPT !.batch = @ \ {e}, !.event = e])
  BY DEF Emit
<1> DEFINE m == [l EXCEPT !.batch = @ \ {e}, !.event = e]
<1>2. e \in Events /\ m \in Locals /\ "lookup" \in Labels
  <2>1. e \in Events /\ l.batch \ {e} \in SUBSET Events
    BY <1>0, <1>1 DEF Locals
  <2>2. m \in Locals
    BY <1>0, <2>1, LocalsOK
  <2> QED
    BY <2>1, <2>2 DEF Labels
<1>3. ControlOK' /\ pc'[i] = "lookup" /\ loc'[i] = m /\ Alone(i)
  BY <1>0, <1>1, <1>2, GotoOK DEF Alone
<1>4. /\ m.batch = l.batch \ {e} /\ m.event = e /\ m.open = l.open
      /\ m.pub = l.pub
  BY <1>0 DEF Locals
<1>5. pc[i] = "next" /\ l.event = 0 /\ e # 0 /\ Quiet
  BY <1>0, <1>2 DEF Emit, PollerOK, MarksOK, AtListener, Events, Quiet, bounds, IInv, TypeOK
<1> HIDE DEF m
<1>6. TransactionOK(i)'
  BY <1>0, <1>3, <1>4, <1>5 DEF PollerOK, TransactionOK, Quiet, bounds
<1>7. MarksOK(i)'
  BY <1>0, <1>1, <1>3, <1>4, <1>5 DEF PollerOK, MarksOK, AtListener, Quiet
<1>8. RowsOK(i)'
  BY <1>0, <1>1, <1>3, <1>4, <1>5 DEF PollerOK, RowsOK, Quiet, Handled
<1>9. OrderOK(i)'
  <2>1. \A f \in l.batch, d \in Events : d < f => d \in l.batch \/ Handled(d)
    BY <1>0, <1>5 DEF PollerOK, OrderOK, Events
  <2>2. \A d \in Events : d < e => d \notin l.batch
    BY <1>1, <1>2 DEF Earliest, Events
  <2> QED
    BY <1>1, <1>3, <1>4, <1>5, <2>1, <2>2 DEF OrderOK, Quiet, Handled
<1> QED
  BY <1>3, <1>5, <1>6, <1>7, <1>8, <1>9, QuietOK DEF PollerOK

\* A poll that is over knows nothing.
LEMMA IdleOK ==
  ASSUME NEW i \in Pollers, pc'[i] = "idle", loc'[i] = Blank, lock' # i
  PROVE  PollerOK(i)'
BY DEF PollerOK, TransactionOK, MarksOK, RowsOK, OrderOK, AtListener, Blank, Events

\* A mark in a transaction that lives.
LEMMA OpenMarkOK ==
  ASSUME IInv, Quiet, NEW i \in Pollers, NEW m \in Locals, loc[i].open,
         pc[i] = "resolved", Goto(i, "next", m),
         m.batch = loc[i].batch, m.event = 0, m.open = TRUE,
         m.pub = loc[i].pub \cup {loc[i].event}
  PROVE  IInv'
<1> DEFINE l == loc[i]
<1>0. ControlOK /\ l \in Locals /\ PollerOK(i) /\ "next" \in Labels
  BY TypeParts DEF IInv, ControlOK, Labels
<1>1. ControlOK' /\ pc'[i] = "next" /\ loc'[i] = m /\ Alone(i)
  BY <1>0, GotoOK DEF Alone
<1>2. l.event \in Events /\ l.event # 0
  BY <1>0 DEF PollerOK, MarksOK, AtListener, Locals, Events
<1>3. TransactionOK(i)'
  BY <1>0, <1>1 DEF PollerOK, TransactionOK, Quiet
<1>4. MarksOK(i)'
  <2>1. l.batch \subseteq Events /\ l.pub \subseteq Events /\ 0 \notin Events
    BY <1>0 DEF Locals, Events
  <2>2. m.batch \cap m.pub = {} /\ m.event \notin m.batch \cup m.pub
    BY <1>0, <1>2, <2>1 DEF PollerOK, MarksOK
  <2>3. ~AtListener(i)'
    BY <1>1 DEF AtListener
  <2>4. \A e \in Events : e \in m.batch \cup m.pub \cup {m.event} => status[e] = "PENDING"
    BY <1>0, <2>1 DEF PollerOK, MarksOK
  <2> QED
    BY <1>1, <2>2, <2>3, <2>4 DEF MarksOK, Quiet
<1>5. RowsOK(i)'
  <2>1. \A e \in Events : e \in m.batch \cup {m.event} => status[e] # "NONE"
    BY <1>0, <1>2 DEF PollerOK, RowsOK, Events
  <2>2. \A e \in m.pub : Handled(e)
    BY <1>0 DEF PollerOK, RowsOK
  <2> QED
    BY <1>1, <2>1, <2>2 DEF RowsOK, Quiet, Handled
<1>6. OrderOK(i)'
  <2>1. \A e \in l.batch, d \in Events : d < e => d \in l.batch \/ Handled(d)
    BY <1>0 DEF PollerOK, OrderOK, RowsOK
  <2> QED
    BY <1>1, <2>1 DEF OrderOK, Quiet, Handled
<1> QED
  BY <1>1, <1>3, <1>4, <1>5, <1>6, QuietOK DEF PollerOK

\* The update of the event is made, or throws.
LEMMA MarkOK ==
  ASSUME IInv, NEW i \in Pollers, MarkPublished(i)
  PROVE  IInv'
<1> DEFINE l == loc[i]
           p == [l EXCEPT !.pub = @ \cup {Current(i)}]
           m == [p EXCEPT !.event = 0, !.nth = 0, !.todo = {}]
<1>0. ControlOK /\ l \in Locals /\ Quiet /\ PollerOK(i) /\ pc[i] = "resolved"
  BY TypeParts DEF IInv, TypeOK, ControlOK, MarkPublished, Quiet
<1>1. l.event \in Events
  BY <1>0 DEF PollerOK, MarksOK, AtListener, Locals, Events
<1>2. m \in Locals
  <2>1. l.pub \cup {Current(i)} \in SUBSET Events
    BY <1>0, <1>1 DEF Locals, Current
  <2>2. p \in Locals
    BY <1>0, <2>1, LocalsOK
  <2> QED
    BY <2>2, LocalsOK
<1>3. CASE l.open /\ Goto(i, "next", m)
  <2>1. m.batch = l.batch /\ m.event = 0 /\ m.open = TRUE /\ m.pub = l.pub \cup {l.event}
    BY <1>0, <1>3 DEF Locals, Current
  <2> HIDE DEF m
  <2> QED
    BY <1>0, <1>2, <1>3, <2>1, OpenMarkOK
<1>4. CASE Goto(i, "catch", l)
  <2>1. ControlOK' /\ pc'[i] = "catch" /\ loc'[i] = l /\ Alone(i)
    BY <1>0, <1>4, GotoOK DEF Alone, Labels
  <2>2. TransactionOK(i)' /\ MarksOK(i)'
    BY <1>0, <2>1 DEF PollerOK, TransactionOK, MarksOK, AtListener, Quiet
  <2>3. RowsOK(i)' /\ OrderOK(i)'
    BY <1>0, <2>1 DEF PollerOK, RowsOK, OrderOK, Quiet, Handled
  <2> QED
    BY <1>0, <2>1, <2>2, <2>3, QuietOK DEF PollerOK
<1>5. \/ l.open /\ Goto(i, "next", m)
      \/ Goto(i, "catch", l)
  <2>1. m = [l EXCEPT !.pub = @ \cup {Current(i)}, !.event = 0, !.nth = 0, !.todo = {}]
    BY <1>0 DEF Locals
  <2> QED
    BY <2>1 DEF MarkPublished
<1> QED
  BY <1>3, <1>4, <1>5

\* The rows of the event exist, or they do not yet.
LEMMA LookupOK ==
  ASSUME IInv, NEW i \in Pollers, Lookup(i)
  PROVE  IInv'
<1> DEFINE l == loc[i]
           label == IF AlreadyNotified(Current(i)) THEN "resolved" ELSE "insert"
<1>0. ControlOK /\ l \in Locals /\ PollerOK(i) /\ label \in Labels /\ Quiet
  BY TypeParts DEF IInv, ControlOK, Labels, Lookup, Quiet, bounds, IInv, TypeOK
<1>1. Goto(i, label, l) /\ pc[i] = "lookup"
  BY DEF Lookup
<1>2. \/ label = "resolved" /\ notes[l.event] # <<>>
      \/ label = "insert" /\ notes[l.event] = <<>>
  BY DEF AlreadyNotified, Current
<1> HIDE DEF label
<1>3. ControlOK' /\ pc'[i] = label /\ loc'[i] = l /\ Alone(i)
  BY <1>0, <1>1, GotoOK DEF Alone
<1>4. TransactionOK(i)' /\ MarksOK(i)'
  BY <1>0, <1>1, <1>2, <1>3 DEF PollerOK, TransactionOK, MarksOK, AtListener, Quiet
<1>5. RowsOK(i)' /\ OrderOK(i)'
  BY <1>0, <1>1, <1>2, <1>3 DEF PollerOK, RowsOK, OrderOK, Quiet, Handled
<1> QED
  BY <1>0, <1>3, <1>4, <1>5, QuietOK DEF PollerOK

\* Every row was handled.
LEMMA DispatchEndsOK ==
  ASSUME IInv, NEW i \in Pollers, DispatchEnds(i)
  PROVE  IInv'
<1> DEFINE l == loc[i]
<1>0. /\ ControlOK /\ l \in Locals /\ PollerOK(i) /\ "resolved" \in Labels /\ Quiet
      /\ Goto(i, "resolved", l) /\ pc[i] = "dispatch"
  BY TypeParts DEF IInv, ControlOK, Labels, DispatchEnds, Quiet, bounds, IInv, TypeOK
<1>1. ControlOK' /\ pc'[i] = "resolved" /\ loc'[i] = l /\ Alone(i)
  BY <1>0, GotoOK DEF Alone
<1>2. notes[l.event] # <<>>
  BY <1>0 DEF PollerOK, RowsOK
<1>3. TransactionOK(i)' /\ MarksOK(i)'
  BY <1>0, <1>1 DEF PollerOK, TransactionOK, MarksOK, AtListener, Quiet
<1>4. RowsOK(i)' /\ OrderOK(i)'
  BY <1>0, <1>1, <1>2 DEF PollerOK, RowsOK, OrderOK, Quiet, Handled
<1> QED
  BY <1>0, <1>1, <1>3, <1>4, QuietOK DEF PollerOK

-----------------------------------------------------------------------------
(* The notification rows. *)

\* A listener may write rows of its own event, which nobody else tells of while its
\* transaction lives.
LEMMA RowsStepOK ==
  ASSUME IInv, NEW i \in Pollers, AtListener(i), ControlOK', Alone(i), PollerOK(i)',
         UNCHANGED <<status, lock, crashes, expiries>>, faults' \in Nat,
         thrown \subseteq thrown', thrown' \subseteq Events,
         notes' \in [Events -> Seq(NoteRows)],
         \A e \in Events : /\ Len(notes[e]) <= Len(notes'[e])
                           /\ e # loc[i].event => notes'[e] = notes[e],
         expiries = 0 => Len(notes'[loc[i].event]) <= 1
  PROVE  IInv'
<1> DEFINE mine == loc[i].event
<1>0. TypeOK /\ PollerOK(i) /\ mine \in Events
  <2>1. TypeOK /\ PollerOK(i)
    BY DEF IInv
  <2>2. loc[i] \in Locals /\ mine # 0
    BY <2>1 DEF TypeOK, PollerOK, MarksOK
  <2> QED
    BY <2>1, <2>2 DEF Locals, Events
<1>1. TypeOK'
  BY <1>0 DEF TypeOK, ControlOK
<1>2. \A e \in Events : /\ Len(notes[e]) \in Nat /\ Len(notes'[e]) \in Nat
                        /\ notes[e] # <<>> => notes'[e] # <<>>
  <2> SUFFICES ASSUME NEW e \in Events
               PROVE  /\ Len(notes[e]) \in Nat /\ Len(notes'[e]) \in Nat
                      /\ notes[e] # <<>> => notes'[e] # <<>>
    OBVIOUS
  <2>1. notes[e] \in Seq(NoteRows) /\ notes'[e] \in Seq(NoteRows)
    BY <1>0 DEF TypeOK
  <2> QED
    BY <2>1
<1>3. Grows
  BY <1>0 DEF Grows, TypeOK
<1>4. \A e \in Events : Handled(e) => Handled(e)'
  BY <1>2 DEF Handled
<1>5. ASSUME NEW j \in Pollers PROVE PollerOK(j)'
  <2>1. CASE j # i
    <3>1. expiries = 0 => pc[j] # "insert"
      BY <2>1, <1>0 DEF IInv, PollerOK, TransactionOK, AtListener
    <3> QED
      BY <2>1, <3>1, <1>0, <1>1, <1>3, UnmovedOK DEF IInv, Alone
  <2> QED
    BY <2>1
<1>6. TableOK'
  <2>1. \A e \in Events : status[e] = "NONE" => e # mine
    BY <1>0 DEF PollerOK, RowsOK
  <2> QED
    BY <2>1 DEF IInv, TableOK
<1>7. OnceUnderOneLock'
  BY <1>0, <1>2 DEF IInv, OnceUnderOneLock, NotifiedOnce
<1>8. InOrderUnlessThrown'
  <2> SUFFICES ASSUME NEW d \in Events, NEW e \in Events, d < e, notes'[e] # <<>>
               PROVE  Handled(d)'
    BY DEF InOrderUnlessThrown, Handled
  <2>1. CASE e = mine
    BY <2>1, <1>0, <1>4 DEF PollerOK, OrderOK, Events
  <2>2. CASE e # mine
    BY <2>2, <1>4 DEF IInv, InOrderUnlessThrown, Handled
  <2> QED
    BY <2>1, <2>2
<1>9. LostOnlyByThrowing'
  BY <1>4 DEF IInv, LostOnlyByThrowing, Closed, Handled
<1> QED
  BY <1>1, <1>5, <1>6, <1>7, <1>8, <1>9 DEF IInv

\* The rows are written, when none were.
LEMMA InsertOK ==
  ASSUME IInv, NEW i \in Pollers, Insert(i)
  PROVE  IInv'
<1> DEFINE l == loc[i]
           e == loc[i].event
           rows == [r \in Recipients |-> "new"]
           m == [l EXCEPT !.nth = Len(notes[e]) + 1, !.todo = Recipients]
<1>0. ControlOK /\ l \in Locals /\ PollerOK(i) /\ TypeOK /\ pc[i] = "insert"
  BY TypeParts DEF IInv, ControlOK, Insert
<1>1. e \in Events /\ e # 0
  BY <1>0 DEF PollerOK, MarksOK, AtListener, Locals, Events
<1>2. notes[e] \in Seq(NoteRows) /\ rows \in NoteRows /\ Len(notes[e]) \in Nat
  BY <1>0, <1>1 DEF TypeOK, NoteRows
<1>3. notes' = [notes EXCEPT ![e] = Append(notes[e], rows)]
  BY DEF Insert, Current
<1>4. /\ notes'[e] = Append(notes[e], rows) /\ notes'[e] \in Seq(NoteRows)
      /\ Len(notes'[e]) = Len(notes[e]) + 1
  BY <1>0, <1>1, <1>2, <1>3 DEF TypeOK
<1>5. /\ notes' \in [Events -> Seq(NoteRows)]
      /\ \A f \in Events : f # e => notes'[f] = notes[f]
  BY <1>0, <1>1, <1>3, <1>4 DEF TypeOK
<1>6. \A f \in Events : Len(notes[f]) <= Len(notes'[f])
  <2> TAKE f \in Events
  <2>1. Len(notes[f]) \in Nat
    BY <1>0 DEF TypeOK
  <2> QED
    BY <1>2, <1>4, <1>5, <2>1
<1>7. m \in Locals /\ "dispatch" \in Labels /\ Goto(i, "dispatch", m)
  <2>1. Len(notes[e]) + 1 \in Nat /\ Recipients \in SUBSET Recipients
    BY <1>2
  <2> QED
    BY <1>0, <2>1, LocalsOK DEF Labels, Insert, Current
<1>8. /\ m.batch = l.batch /\ m.event = e /\ m.open = l.open /\ m.pub = l.pub
      /\ m.nth = Len(notes[e]) + 1
  BY <1>0 DEF Locals
<1> HIDE DEF m
<1>9. ControlOK' /\ pc'[i] = "dispatch" /\ loc'[i] = m /\ Alone(i)
  BY <1>0, <1>7, GotoOK DEF Alone
<1>10. UNCHANGED <<status, lock, thrown, crashes, expiries, faults>> /\ faults \in Nat /\ thrown \subseteq Events
  BY <1>0 DEF Insert, bounds, TypeOK
<1>11. TransactionOK(i)' /\ MarksOK(i)'
  BY <1>0, <1>1, <1>8, <1>9, <1>10 DEF PollerOK, TransactionOK, MarksOK, AtListener
<1>12. \A f \in Events : Handled(f) => Handled(f)'
  BY <1>2, <1>4, <1>5, <1>10 DEF Handled
<1>13. RowsOK(i)'
  <2>1. m.nth \in 1..Len(notes'[e])
    BY <1>2, <1>4, <1>8
  <2>2. m.pub \subseteq Events
    BY <1>0, <1>8 DEF Locals
  <2> QED
    BY <1>0, <1>8, <1>9, <1>10, <1>12, <2>1, <2>2 DEF PollerOK, RowsOK
<1>14. OrderOK(i)'
  BY <1>0, <1>8, <1>9, <1>10, <1>12 DEF PollerOK, OrderOK
<1>15. expiries = 0 => Len(notes'[e]) <= 1
  BY <1>0, <1>2, <1>4 DEF PollerOK, RowsOK
<1> QED
  BY <1>0, <1>5, <1>6, <1>9, <1>10, <1>11, <1>13, <1>14, <1>15, RowsStepOK
  DEF PollerOK, AtListener, IInv

\* A sequence keeps its length and its type when an element is replaced.
LEMMA SeqExcept ==
  ASSUME NEW S, NEW s \in Seq(S), NEW n \in 1..Len(s), NEW x \in S
  PROVE  [s EXCEPT ![n] = x] \in Seq(S) /\ Len([s EXCEPT ![n] = x]) = Len(s)
OBVIOUS

\* One row is sent, marked failed, or left as it is.
LEMMA DispatchOK ==
  ASSUME IInv, NEW i \in Pollers, Dispatch(i)
  PROVE  IInv'
<1> DEFINE l == loc[i]
           e == loc[i].event
           row(r, mark) == [notes[e][l.nth] EXCEPT ![r] = mark]
<1>0. ControlOK /\ l \in Locals /\ PollerOK(i) /\ TypeOK /\ pc[i] = "dispatch"
  BY TypeParts DEF IInv, ControlOK, Dispatch
<1>1. e \in Events /\ e # 0
  BY <1>0 DEF PollerOK, MarksOK, AtListener, Locals, Events
<1>2. notes[e] \in Seq(NoteRows) /\ l.nth \in 1..Len(notes[e]) /\ faults \in Nat
  BY <1>0, <1>1 DEF TypeOK, PollerOK, RowsOK
<1>3. PICK r \in l.todo, mark \in {"sent", "failed", "new"} :
        /\ faults' = IF mark = "new" THEN faults + 1 ELSE faults
        /\ notes' = [notes EXCEPT ![e][l.nth][r] = mark]
        /\ Goto(i, "dispatch", [l EXCEPT !.todo = DispatchRest(i, r)])
  BY DEF Dispatch, Current
<1> DEFINE m == [l EXCEPT !.todo = DispatchRest(i, r)]
<1>4. row(r, mark) \in NoteRows
  <2>1. notes[e][l.nth] \in NoteRows
    BY <1>2
  <2> QED
    BY <2>1 DEF NoteRows
<1>5. /\ notes'[e] = [notes[e] EXCEPT ![l.nth] = row(r, mark)]
      /\ \A f \in Events : f # e => notes'[f] = notes[f]
      /\ DOMAIN notes' = Events
      /\ notes' = [f \in Events |-> notes'[f]]
  BY <1>0, <1>1, <1>3 DEF TypeOK
<1>6. notes'[e] \in Seq(NoteRows) /\ Len(notes'[e]) = Len(notes[e])
  BY <1>2, <1>4, <1>5, SeqExcept
<1>7. \A f \in Events : notes'[f] \in Seq(NoteRows) /\ Len(notes'[f]) = Len(notes[f])
  BY <1>0, <1>5, <1>6 DEF TypeOK
<1>8. notes' \in [Events -> Seq(NoteRows)]
  BY <1>5, <1>7
<1>9. \A f \in Events : /\ Len(notes[f]) <= Len(notes'[f])
                        /\ notes[f] # <<>> => notes'[f] # <<>>
  <2> TAKE f \in Events
  <2>1. notes[f] \in Seq(NoteRows) /\ notes'[f] \in Seq(NoteRows) /\ Len(notes'[f]) = Len(notes[f])
    BY <1>0, <1>7 DEF TypeOK
  <2> QED
    BY <2>1
<1>10. m \in Locals /\ "dispatch" \in Labels
  <2>1. DispatchRest(i, r) \in SUBSET Recipients
    BY <1>0 DEF DispatchRest, Locals
  <2> QED
    BY <1>0, <2>1, LocalsOK DEF Labels
<1>11. /\ m.batch = l.batch /\ m.event = e /\ m.open = l.open /\ m.pub = l.pub
       /\ m.nth = l.nth
  BY <1>0 DEF Locals
<1>12. Goto(i, "dispatch", m)
  BY <1>3
<1> HIDE DEF m
<1>13. ControlOK' /\ pc'[i] = "dispatch" /\ loc'[i] = m /\ Alone(i)
  BY <1>0, <1>10, <1>12, GotoOK DEF Alone
<1>14. /\ UNCHANGED <<status, lock, thrown, crashes, expiries>>
       /\ faults' \in Nat /\ thrown \subseteq Events
       /\ \A f \in Events : Handled(f) => Handled(f)'
  <2>1. UNCHANGED <<status, lock, thrown, crashes, expiries>>
    BY DEF Dispatch
  <2>2. faults' \in Nat /\ thrown \subseteq Events
    BY <1>0, <1>2, <1>3 DEF TypeOK
  <2> QED
    BY <1>9, <2>1, <2>2 DEF Handled
<1>15. TransactionOK(i)' /\ MarksOK(i)'
  BY <1>0, <1>1, <1>11, <1>13, <1>14 DEF PollerOK, TransactionOK, MarksOK, AtListener
<1>16. RowsOK(i)'
  <2>1. l.nth \in 1..Len(notes'[e])
    BY <1>2, <1>6
  <2>2. m.pub \subseteq Events
    BY <1>0, <1>11 DEF Locals
  <2>3. status' = status
    BY <1>14
  <2> QED
    BY <1>0, <1>9, <1>11, <1>13, <1>14, <2>1, <2>2, <2>3 DEF PollerOK, RowsOK
<1>17. OrderOK(i)'
  BY <1>0, <1>9, <1>11, <1>13, <1>14 DEF PollerOK, OrderOK
<1>18. expiries = 0 => Len(notes'[e]) <= 1
  BY <1>0, <1>1, <1>6 DEF IInv, OnceUnderOneLock, NotifiedOnce
<1> QED
  BY <1>0, <1>5, <1>8, <1>9, <1>13, <1>14, <1>15, <1>16, <1>17, <1>18, RowsStepOK
  DEF PollerOK, AtListener, IInv

\* A listener throws, and the poller does not hear of it.
LEMMA ListenerFailsOK ==
  ASSUME IInv, NEW i \in Pollers, ListenerFails(i)
  PROVE  IInv'
<1> DEFINE l == loc[i]
<1>0. ControlOK /\ l \in Locals /\ PollerOK(i) /\ TypeOK /\ AtListener(i)
  BY TypeParts DEF IInv, ControlOK, ListenerFails, AtListener
<1>1. l.event \in Events /\ l.event # 0
  BY <1>0 DEF PollerOK, MarksOK, Locals, Events
<1>2. Goto(i, "resolved", l) /\ "resolved" \in Labels /\ pc[i] # "idle"
  BY DEF ListenerFails, Labels
<1>3. ControlOK' /\ pc'[i] = "resolved" /\ loc'[i] = l /\ Alone(i)
  BY <1>0, <1>2, GotoOK DEF Alone
<1>4. /\ UNCHANGED <<status, lock, notes, crashes, expiries>> /\ faults' \in Nat
      /\ thrown' = thrown \cup {l.event} /\ thrown \subseteq thrown' /\ thrown' \subseteq Events
  BY <1>0, <1>1 DEF ListenerFails, TypeOK, Current
<1>5. Handled(l.event)' /\ \A e \in Events : Handled(e) => Handled(e)'
  BY <1>3, <1>4 DEF Handled
<1>6. TransactionOK(i)' /\ MarksOK(i)'
  BY <1>0, <1>1, <1>2, <1>3, <1>4 DEF PollerOK, TransactionOK, MarksOK, AtListener
<1>7. RowsOK(i)' /\ OrderOK(i)'
  BY <1>0, <1>3, <1>4, <1>5 DEF PollerOK, RowsOK, OrderOK, Locals
<1>8. \A e \in Events : Len(notes[e]) \in Nat
  BY <1>0 DEF TypeOK
<1>9. expiries = 0 => Len(notes[l.event]) <= 1
  BY <1>1 DEF IInv, OnceUnderOneLock, NotifiedOnce
<1> QED
  BY <1>0, <1>3, <1>4, <1>6, <1>7, <1>8, <1>9, RowsStepOK DEF PollerOK, TypeOK

-----------------------------------------------------------------------------
(* The transactions. *)

\* A step that writes no rows keeps what is said of the rows.
LEMMA TableStepOK ==
  ASSUME IInv, TypeOK', TableOK', \A j \in Pollers : PollerOK(j)',
         UNCHANGED <<notes, thrown>>, expiries <= expiries', LostOnlyByThrowing'
  PROVE  IInv'
<1>1. TypeOK /\ expiries \in Nat /\ expiries' \in Nat
  BY DEF IInv, TypeOK
<1>2. OnceUnderOneLock'
  BY <1>1 DEF IInv, OnceUnderOneLock, NotifiedOnce
<1>3. InOrderUnlessThrown'
  BY DEF IInv, InOrderUnlessThrown
<1> QED
  BY <1>2, <1>3 DEF IInv

\* The batch holds, with an event, every earlier one that is pending.
LEMMA BatchIsFirst ==
  ASSUME TypeOK, NEW e \in FirstPending, NEW d \in Pending, d < e
  PROVE  d \in FirstPending
<1> DEFINE before(x) == {c \in Pending : c < x}
<1>1. Pending \subseteq Events /\ e \in Pending
  BY DEF Pending, FirstPending
<1>2. before(d) \subseteq before(e)
  <2>1. d \in Int /\ e \in Int /\ \A c \in Pending : c \in Int
    BY <1>1 DEF Events
  <2>2. \A c \in Pending : c < d => c < e
    BY <2>1
  <2> QED
    BY <2>2
<1>3. IsFiniteSet(before(e))
  <2>1. IsFiniteSet(Events)
    BY FS_Interval DEF Events
  <2>2. before(e) \subseteq Events
    BY <1>1
  <2> QED
    BY <2>1, <2>2, FS_Subset
<1>4. Cardinality(before(d)) <= Cardinality(before(e))
  BY <1>2, <1>3, FS_Subset
<1>5. Cardinality(before(d)) \in Nat /\ Cardinality(before(e)) \in Nat
  BY <1>2, <1>3, FS_Subset, FS_CardinalityType
<1>6. Cardinality(before(e)) < BatchSize
  BY DEF FirstPending
<1>7. Cardinality(before(d)) < BatchSize
  BY <1>4, <1>5, <1>6
<1> QED
  BY <1>7 DEF FirstPending

\* A poll begins, with the lock and the first of the pending events.
LEMMA PollOK ==
  ASSUME IInv, NEW i \in Pollers, Poll(i)
  PROVE  IInv'
<1> DEFINE m == [Blank EXCEPT !.batch = FirstPending, !.open = TRUE]
<1>0. /\ ControlOK /\ TypeOK /\ TableOK /\ lock = None /\ pc[i] = "idle" /\ lock' = i
      /\ UNCHANGED <<status, notes, thrown, bounds>> /\ Goto(i, "next", m)
  BY TypeParts DEF IInv, Poll, LockIsFree
<1>1. FirstPending \in SUBSET Events /\ FirstPending \subseteq Pending
  BY DEF FirstPending, Pending
<1>2. m \in Locals /\ "next" \in Labels
  BY <1>1, BlankOK, LocalsOK DEF Labels
<1>3. /\ m.batch = FirstPending /\ m.event = 0 /\ m.open = TRUE
      /\ m.pub = {}
  BY DEF Blank
<1> HIDE DEF m
<1>4. ControlOK' /\ pc'[i] = "next" /\ loc'[i] = m /\ Alone(i)
  BY <1>0, <1>2, GotoOK DEF Alone
<1>5. TypeOK'
  BY <1>0, <1>4 DEF TypeOK, ControlOK, bounds
<1>6. PollerOK(i)'
  <2>1. TransactionOK(i)'
    BY <1>0, <1>3, <1>4 DEF TransactionOK
  <2>2. MarksOK(i)'
    BY <1>0, <1>1, <1>3, <1>4 DEF MarksOK, AtListener, Pending, Events
  <2>3. RowsOK(i)'
    BY <1>0, <1>1, <1>3, <1>4 DEF RowsOK, Pending, Events
  <2>4. OrderOK(i)'
    <3> SUFFICES ASSUME NEW e \in FirstPending, NEW d \in Events, d < e
                 PROVE  d \in FirstPending \/ Handled(d)
      BY <1>0, <1>3, <1>4 DEF OrderOK, Handled
    <3>1. e \in Events /\ status[e] = "PENDING"
      BY <1>1 DEF Pending
    <3>2. status[d] # "NONE"
      BY <3>1, <1>0 DEF TableOK
    <3>3. CASE status[d] = "PENDING"
      BY <3>3, <1>0, BatchIsFirst DEF Pending
    <3>4. CASE status[d] # "PENDING"
      <4>1. Closed(d)
        BY <3>2, <3>4, <1>0 DEF TypeOK, Statuses, Closed
      <4> QED
        BY <4>1 DEF IInv, LostOnlyByThrowing, Handled
    <3> QED
      BY <3>3, <3>4
  <2> QED
    BY <2>1, <2>2, <2>3, <2>4 DEF PollerOK
<1>7. Grows
  BY <1>0 DEF Grows, TypeOK, bounds
<1>8. ASSUME NEW j \in Pollers, j # i PROVE PollerOK(j)'
  BY <1>0, <1>4, <1>5, <1>7, <1>8, UnmovedOK DEF IInv, Alone, bounds
<1>9. TableOK' /\ LostOnlyByThrowing'
  BY <1>0 DEF IInv, TableOK, LostOnlyByThrowing, Closed, bounds
<1>10. expiries <= expiries' /\ UNCHANGED <<notes, thrown>>
  BY <1>0 DEF bounds, TypeOK
<1> QED
  BY <1>5, <1>6, <1>8, <1>9, <1>10, TableStepOK

\* The lock goes when the open transaction of its holder ends.
LEMMA ReleasedOK ==
  ASSUME IInv, NEW i \in Pollers, lock' = Released(i)
  PROVE  /\ lock' \in Pollers \cup {None} /\ lock' # i
         /\ \A j \in Pollers : j # i => (lock' = j <=> lock = j)
<1>1. (loc[i].open <=> lock = i) /\ lock \in Pollers \cup {None}
  BY DEF IInv, TypeOK, PollerOK, TransactionOK
<1> QED
  BY <1>1 DEF Released

\* The marks of a poll are committed, or are lost with its transaction.
LEMMA CommitOK ==
  ASSUME IInv, NEW i \in Pollers, Commit(i)
  PROVE  IInv'
<1> DEFINE l == loc[i]
<1>0. /\ ControlOK /\ TypeOK /\ TableOK /\ l \in Locals /\ PollerOK(i) /\ "idle" \in Labels
      /\ lock' = Released(i) /\ UNCHANGED <<notes, thrown, bounds>> /\ Goto(i, "idle", Blank)
  BY TypeParts DEF IInv, ControlOK, Commit, Labels
<1>1. ControlOK' /\ pc'[i] = "idle" /\ loc'[i] = Blank /\ Alone(i)
  BY <1>0, BlankOK, GotoOK DEF Alone
<1>2. /\ lock' \in Pollers \cup {None} /\ lock' # i
      /\ \A j \in Pollers : j # i => (lock' = j <=> lock = j)
  BY <1>0, ReleasedOK
<1>3. PollerOK(i)'
  BY <1>1, <1>2, IdleOK
<1>4. CASE ~l.open
  <2>1. UNCHANGED status
    BY <1>4 DEF Commit, CommitHolds
  <2>2. TypeOK'
    BY <1>0, <1>1, <1>2, <2>1 DEF TypeOK, ControlOK, bounds
  <2>3. Grows
    BY <1>0, <2>1 DEF Grows, TypeOK, bounds
  <2>4. ASSUME NEW j \in Pollers, j # i PROVE PollerOK(j)'
    BY <1>0, <1>1, <1>2, <2>1, <2>2, <2>3, <2>4, UnmovedOK DEF IInv, Alone, bounds
  <2>5. TableOK' /\ LostOnlyByThrowing'
    BY <1>0, <2>1 DEF IInv, TableOK, LostOnlyByThrowing, Closed, bounds
  <2>6. expiries <= expiries' /\ UNCHANGED <<notes, thrown>>
    BY <1>0 DEF bounds, TypeOK
  <2> QED
    BY <1>3, <2>2, <2>4, <2>5, <2>6, TableStepOK
<1>5. CASE l.open
  <2>1. status' = CommittedStatus(l)
    BY <1>5 DEF Commit, CommitHolds
  <2>2. l.pub \subseteq Events /\ \A e \in l.pub : status[e] = "PENDING"
    BY <1>0, <1>5 DEF Locals, PollerOK, MarksOK
  <2>3. \A e \in Events : status[e] \in Statuses
    BY <1>0 DEF TypeOK
  <2>5. \A e \in Events : /\ e \in l.pub => status'[e] = "PUBLISHED"
                          /\ e \notin l.pub => status'[e] = status[e]
    BY <2>1, <2>2 DEF CommittedStatus
  <2>8. TypeOK'
    <3>1. \A e \in Events : status'[e] \in Statuses
      BY <2>3, <2>5 DEF Statuses
    <3>2. status' \in [Events -> Statuses]
      BY <2>1, <3>1 DEF CommittedStatus
    <3> QED
      BY <1>0, <1>1, <1>2, <3>2 DEF TypeOK, ControlOK, bounds
  <2>9. \A e \in Events : status'[e] = "NONE" <=> status[e] = "NONE"
    BY <2>2, <2>5
  <2>10. Grows
    BY <1>0, <2>9 DEF Grows, TypeOK, bounds
  <2>11. ASSUME NEW j \in Pollers, j # i PROVE PollerOK(j)'
    <3>1. ~loc[j].open
      BY <1>0, <1>5, <2>11 DEF IInv, PollerOK, TransactionOK
    <3> QED
      BY <1>0, <1>1, <1>2, <2>8, <2>10, <2>11, <3>1, UnmovedOK DEF IInv, Alone, bounds
  <2>12. TableOK'
    BY <1>0, <2>9 DEF TableOK
  <2>13. LostOnlyByThrowing'
    <3>1. \A e \in l.pub : Handled(e)
      BY <1>0 DEF PollerOK, RowsOK
    <3> QED
      BY <1>0, <2>5, <3>1 DEF IInv, LostOnlyByThrowing, Closed, Handled
  <2>14. expiries <= expiries' /\ UNCHANGED <<notes, thrown>>
    BY <1>0 DEF bounds, TypeOK
  <2> QED
    BY <1>3, <2>8, <2>11, <2>12, <2>13, <2>14, TableStepOK
<1> QED
  BY <1>4, <1>5

\* A process is killed, and its transaction with it; or a poll ends in its catch block.
LEMMA CrashOK ==
  ASSUME IInv, NEW i \in Pollers, Crash(i) \/ Catch(i)
  PROVE  IInv'
<1>0. /\ ControlOK /\ TypeOK /\ "idle" \in Labels
      /\ lock' = Released(i) /\ UNCHANGED <<status, notes, thrown, faults, expiries>>
      /\ Goto(i, "idle", Blank) /\ crashes' \in Nat
  BY TypeParts DEF IInv, TypeOK, Crash, Catch, Labels, bounds
<1>1. ControlOK' /\ pc'[i] = "idle" /\ loc'[i] = Blank /\ Alone(i)
  BY <1>0, BlankOK, GotoOK DEF Alone
<1>2. /\ lock' \in Pollers \cup {None} /\ lock' # i
      /\ \A j \in Pollers : j # i => (lock' = j <=> lock = j)
  BY <1>0, ReleasedOK
<1>3. TypeOK'
  BY <1>0, <1>1, <1>2 DEF TypeOK, ControlOK
<1>4. Grows
  BY <1>0 DEF Grows, TypeOK
<1>5. ASSUME NEW j \in Pollers, j # i PROVE PollerOK(j)'
  BY <1>0, <1>1, <1>2, <1>3, <1>4, <1>5, UnmovedOK DEF IInv, Alone
<1>6. PollerOK(i)'
  BY <1>1, <1>2, IdleOK
<1>7. TableOK' /\ LostOnlyByThrowing'
  BY <1>0 DEF IInv, TableOK, LostOnlyByThrowing, Closed
<1>8. expiries <= expiries'
  BY <1>0 DEF TypeOK
<1> QED
  BY <1>0, <1>3, <1>5, <1>6, <1>7, <1>8, TableStepOK

\* A transaction ends under its poll: the lock is free and the poll goes on.
LEMMA ExpireOK ==
  ASSUME IInv, NEW i \in Pollers, Expire(i)
  PROVE  IInv'
<1> DEFINE l == loc[i]
           m == [l EXCEPT !.open = FALSE]
<1>0. /\ ControlOK /\ TypeOK /\ l \in Locals /\ PollerOK(i) /\ pc[i] # "idle"
      /\ lock' = Released(i) /\ UNCHANGED <<status, pc, notes, thrown, faults, crashes>>
      /\ loc' = [loc EXCEPT ![i].open = FALSE] /\ expiries' = expiries + 1
  BY TypeParts DEF IInv, ControlOK, Expire
<1>1. m \in Locals
  BY <1>0, LocalsOK
<1>2. ControlOK' /\ pc'[i] = pc[i] /\ loc'[i] = m /\ Alone(i)
  BY <1>0, <1>1 DEF ControlOK, Alone
<1>3. /\ m.batch = l.batch /\ m.event = l.event /\ m.open = FALSE /\ m.pub = l.pub
      /\ m.nth = l.nth
  BY <1>0 DEF Locals
<1> HIDE DEF m
<1>4. /\ lock' \in Pollers \cup {None} /\ lock' # i
      /\ \A j \in Pollers : j # i => (lock' = j <=> lock = j)
  BY <1>0, ReleasedOK
<1>5. TypeOK' /\ expiries <= expiries' /\ expiries' # 0
  BY <1>0, <1>2, <1>4 DEF TypeOK, ControlOK
<1>6. Grows
  BY <1>0, <1>5 DEF Grows, TypeOK
<1>7. ASSUME NEW j \in Pollers, j # i PROVE PollerOK(j)'
  BY <1>0, <1>2, <1>4, <1>5, <1>6, <1>7, UnmovedOK DEF IInv, Alone
<1>8. PollerOK(i)'
  <2>1. TransactionOK(i)'
    BY <1>0, <1>2, <1>3, <1>4, <1>5 DEF TransactionOK
  <2>2. MarksOK(i)'
    BY <1>0, <1>2, <1>3 DEF PollerOK, MarksOK, AtListener
  <2>3. RowsOK(i)' /\ OrderOK(i)'
    BY <1>0, <1>2, <1>3, <1>5 DEF PollerOK, RowsOK, OrderOK, Handled
  <2> QED
    BY <2>1, <2>2, <2>3 DEF PollerOK
<1>9. TableOK' /\ LostOnlyByThrowing'
  BY <1>0 DEF IInv, TableOK, LostOnlyByThrowing, Closed
<1> QED
  BY <1>0, <1>5, <1>7, <1>8, <1>9, TableStepOK

-----------------------------------------------------------------------------
(* The environment. *)

\* A step outside the pollers keeps what they know.
LEMMA OutsideOK ==
  ASSUME IInv, TypeOK', UNCHANGED <<lock, pc, loc, notes, thrown, bounds>>,
         \A e \in Events : status[e] # "NONE" => status'[e] # "NONE",
         \A e \in Events : status[e] = "PENDING" => status'[e] = "PENDING",
         TableOK', LostOnlyByThrowing'
  PROVE  IInv'
<1>1. TypeOK
  BY DEF IInv
<1>2. Grows
  BY <1>1 DEF Grows, TypeOK, bounds
<1>3. ASSUME NEW j \in Pollers PROVE PollerOK(j)'
  BY <1>1, <1>2, UnmovedOK DEF IInv, bounds
<1>4. faults' = faults /\ expiries <= expiries'
  BY <1>1 DEF bounds, TypeOK
<1> QED
  BY <1>3, <1>4, TableStepOK

\* An event is written after every earlier one.
LEMMA EnqueueOK ==
  ASSUME IInv, NEW e \in Events, Enqueue(e)
  PROVE  IInv'
<1>0. /\ TypeOK /\ TableOK /\ status[e] = "NONE"
      /\ \A d \in Events : d < e => status[d] # "NONE"
      /\ status' = [status EXCEPT ![e] = "PENDING"]
      /\ UNCHANGED <<lock, pc, loc, notes, thrown, bounds>>
  BY DEF IInv, Enqueue
<1>1. /\ status'[e] = "PENDING"
      /\ \A d \in Events : d # e => status'[d] = status[d]
  BY <1>0 DEF TypeOK
<1>2. TypeOK'
  <2>2. status' \in [Events -> Statuses]
    BY <1>0 DEF TypeOK, Statuses
  <2> QED
    BY <1>0, <2>2 DEF TypeOK, bounds
<1>3. TableOK'
  <2>1. \A d, f \in Events : d < f /\ status'[f] # "NONE" => status'[d] # "NONE"
    BY <1>0, <1>1 DEF TableOK
  <2>2. \A d \in Events : status'[d] = "NONE" => notes[d] = <<>>
    BY <1>0, <1>1 DEF TableOK
  <2> QED
    BY <1>0, <2>1, <2>2 DEF TableOK, bounds
<1>4. LostOnlyByThrowing'
  BY <1>0, <1>1 DEF IInv, LostOnlyByThrowing, Closed
<1>5. \A d \in Events : /\ status[d] # "NONE" => status'[d] # "NONE"
                        /\ status[d] = "PENDING" => status'[d] = "PENDING"
  BY <1>0, <1>1
<1> QED
  BY <1>0, <1>2, <1>3, <1>4, <1>5, OutsideOK

\* Published events are deleted.
LEMMA CleanupOK ==
  ASSUME IInv, Cleanup
  PROVE  IInv'
<1>1. PICK old \in SUBSET {e \in Events : status[e] = "PUBLISHED"} :
        status' = [e \in Events |-> IF e \in old THEN "DELETED" ELSE status[e]]
  BY DEF Cleanup
<1>0. /\ TypeOK /\ TableOK
      /\ UNCHANGED <<lock, pc, loc, notes, thrown, bounds>>
  BY DEF IInv, Cleanup
<1>2. \A e \in Events : /\ e \in old => status[e] = "PUBLISHED" /\ status'[e] = "DELETED"
                        /\ e \notin old => status'[e] = status[e]
  BY <1>1
<1>3. TypeOK'
  <2>2. \A e \in Events : status'[e] \in Statuses
    BY <1>0, <1>2 DEF TypeOK, Statuses
  <2> QED
    BY <1>0, <1>1, <2>2 DEF TypeOK, bounds
<1>4. TableOK'
  BY <1>0, <1>2 DEF TableOK, bounds
<1>5. LostOnlyByThrowing'
  BY <1>0, <1>2 DEF IInv, LostOnlyByThrowing, Closed
<1>6. \A e \in Events : /\ status[e] # "NONE" => status'[e] # "NONE"
                        /\ status[e] = "PENDING" => status'[e] = "PENDING"
  BY <1>2
<1> QED
  BY <1>0, <1>3, <1>4, <1>5, <1>6, OutsideOK

-----------------------------------------------------------------------------
(* The theorems. *)

\* Nothing is written and nobody polls.
LEMMA InitOK == Init => IInv
<1> SUFFICES ASSUME Init PROVE IInv
  OBVIOUS
<1>1. TypeOK
  <2>1. <<>> \in Seq(NoteRows)
    OBVIOUS
  <2> QED
    BY <2>1, BlankOK DEF Init, TypeOK, Statuses, Labels
<1>2. TableOK
  BY DEF Init, TableOK
<1>3. ASSUME NEW i \in Pollers PROVE PollerOK(i)
  BY DEF Init, PollerOK, TransactionOK, MarksOK, RowsOK, OrderOK, AtListener, Blank, Events
<1>4. OnceUnderOneLock /\ InOrderUnlessThrown /\ LostOnlyByThrowing
  BY DEF Init, OnceUnderOneLock, NotifiedOnce, InOrderUnlessThrown,
     LostOnlyByThrowing, Closed
<1> QED
  BY <1>1, <1>2, <1>3, <1>4 DEF IInv

\* Every step keeps the invariant.
LEMMA NextOK == IInv /\ [Next]_vars => IInv'
<1> SUFFICES ASSUME IInv, [Next]_vars PROVE IInv'
  OBVIOUS
<1>1. CASE \E e \in Events : Enqueue(e)
  BY <1>1, EnqueueOK
<1>2. CASE \E i \in Pollers : Poll(i) \/ Advance(i) \/ ListenerFails(i) \/ Crash(i) \/ Expire(i)
  BY <1>2, PollOK, EmitOK, MarkOK, CommitOK, LookupOK, InsertOK, DispatchOK, DispatchEndsOK,
     ListenerFailsOK, CrashOK, ExpireOK DEF Advance
<1>3. CASE Cleanup
  BY <1>3, CleanupOK
<1>4. CASE UNCHANGED vars
  <2>1. TypeOK'
    BY <1>4 DEF IInv, TypeOK, vars, bounds
  <2>2. TableOK' /\ LostOnlyByThrowing'
    BY <1>4 DEF IInv, TableOK, LostOnlyByThrowing, Closed, vars
  <2> QED
    BY <1>4, <2>1, <2>2, OutsideOK DEF vars, bounds
<1> QED
  BY <1>1, <1>2, <1>3, <1>4 DEF Next

\* What a poll knows at each of its awaits, for any number of pollers, events and faults.
THEOREM InvariantHolds == Spec => []IInv
<1> QED
  BY InitOK, NextOK, PTL DEF Spec

\* The property of the run: a recipient hears of an event once as long as no poll outlives
\* its transaction, and, whatever dies, expires, is aborted or overlaps, of the events of an
\* aggregate in their order and of every published one, but for events whose own listener
\* threw, which the event library does not tell the poller (createBatchIdempotent,
\* OutboxPublisher.poll).
THEOREM OnceAndInOrderHolds == Spec => []OnceAndInOrder
<1>1. IInv => OnceAndInOrder
  BY DEF IInv, OnceAndInOrder
<1> QED
  BY <1>1, InvariantHolds, PTL

\* An event is settled once: a poll whose transaction is gone cannot bring back an event,
\* and one whose transaction lives has only pending events to settle (tx.outboxEvent.update).
THEOREM SettledOnceHolds == Spec => SettledOnce
<1> DEFINE Settles == \A e \in Events : /\ Closed(e) => Closed(e)'
                                        /\ status[e] = "DELETED" => status'[e] = "DELETED"
<1>1. ASSUME IInv, Next PROVE Settles
  <2>1. CASE \E e \in Events : Enqueue(e)
    BY <2>1, <1>1 DEF Enqueue, IInv, TypeOK, Closed
  <2>2. ASSUME NEW i \in Pollers, Commit(i) PROVE Settles
    <3>1. CASE loc[i].open
      <4>1. \A e \in Events : e \in loc[i].pub => status[e] = "PENDING"
        BY <1>1, <3>1 DEF IInv, PollerOK, MarksOK
      <4>2. status' = CommittedStatus(loc[i])
        BY <2>2, <3>1 DEF Commit, CommitHolds
      <4> QED
        BY <4>1, <4>2 DEF CommittedStatus, Closed
    <3>2. CASE ~loc[i].open
      BY <2>2, <3>2 DEF Commit, CommitHolds, Closed
    <3> QED
      BY <3>1, <3>2
  <2>3. ASSUME NEW i \in Pollers,
               \/ Poll(i) \/ Emit(i) \/ MarkPublished(i) \/ Catch(i) \/ Lookup(i) \/ Insert(i)
               \/ Dispatch(i) \/ DispatchEnds(i) \/ ListenerFails(i) \/ Crash(i) \/ Expire(i)
        PROVE  Settles
    <3>1. status' = status
      BY <2>3 DEF Poll, Emit, MarkPublished, Catch, Lookup, Insert, Dispatch, DispatchEnds,
         ListenerFails, Crash, Expire
    <3> QED
      BY <3>1 DEF Closed
  <2>4. CASE Cleanup
    BY <2>4 DEF Cleanup, Closed
  <2> QED
    BY <1>1, <2>1, <2>2, <2>3, <2>4 DEF Next, Advance
<1> QED
  BY <1>1, InvariantHolds, PTL DEF Spec, SettledOnce
=============================================================================
