------------------------ MODULE TableService_proofs ------------------------
(***************************************************************************)
(* Table sessions for any number of calls, tables and orders.              *)
(*                                                                         *)
(* Two invariants.  Known holds whatever the races, the lag and the        *)
(* deaths: rows are never taken away, and a bill never changes its         *)
(* session, so what a stored, stale or remembered row refers to is still   *)
(* there when the row is put back.  Orderly adds what a call may rely on   *)
(* while calls come one after the other: it began with every copy caught   *)
(* up, reads before it writes, and is alone, so what it remembers of a row *)
(* is still what is stored.                                                *)
(***************************************************************************)
EXTENDS TableService, Sums_proofs

SessionKnown(s) == s \in Ids /\ sessions[s] # NoRow
BillOf(b, s) == b \in Calls /\ bills[b] # NoRow /\ bills[b].session = s

(* What a row of each table may refer to *)
SessionRowOK(s, row) == row # NoRow => (row.bill # NoBill => BillOf(row.bill, s))
OrderRowOK(row) ==
  row # NoRow => /\ SessionKnown(row.session)
                 /\ row.bill # NoBill => BillOf(row.bill, row.session)
BillRowOK(b, row) == row # NoRow => BillOf(b, row.session) /\ SessionKnown(row.session)

RowsOK ==
  /\ \A s \in Ids : /\ SessionRowOK(s, sessions[s]) /\ SessionRowOK(s, stale.sessions[s])
                    /\ stale.sessions[s] # NoRow => SessionKnown(s)
  /\ \A o \in Ids : OrderRowOK(orders[o]) /\ OrderRowOK(stale.orders[o])
  /\ \A b \in Calls : BillRowOK(b, bills[b]) /\ BillRowOK(b, stale.bills[b])

CallRecs == [op : Ops, step : Steps, session : Ids \cup {NoSession}, bill : Bills,
             tables : SUBSET Tables, sessionRow : SessionType \cup {NoRow},
             billRow : BillType \cup {NoRow}, todo : SUBSET (Ids \X OrderType)]

(* Of the record m of call c: what it creates is not there yet *)
NotYet(c, m) ==
  /\ (m.step = "idle" \/ (m.op = "create" /\ m.step \in {"read", "putSession"})) =>
       sessions[c] = NoRow
  /\ (m.step = "idle" \/ (m.op = "startBill" /\ m.step \in {"read", "putBill"})) =>
       bills[c] = NoRow

(* ... what it was asked about is *)
Asked(m) ==
  /\ m.op \in {"addOrder", "updateSession", "startBill", "closeTable"} => SessionKnown(m.session)
  /\ m.op \in {"updateBill", "number", "closeTable"} => m.bill \in Calls /\ bills[m.bill] # NoRow

(* ... and so is what the rows it is about to put refer to *)
HoldsSession(c, m) ==
  /\ (m.op = "create" /\ m.step = "putOrder") => sessions[c] # NoRow
  /\ (m.op = "create" /\ m.step = "putSession") =>
       m.sessionRow # NoRow /\ m.sessionRow.bill = NoBill /\ m.sessionRow.status = "live"
  /\ (\/ m.op = "addOrder" /\ m.step \in {"putOrder", "putSession"}
      \/ m.op = "updateSession" /\ m.step = "putSession"
      \/ m.op = "closeTable" /\ m.step \in {"readBill", "putBill", "putSession"}) =>
       m.sessionRow # NoRow /\ SessionRowOK(m.session, m.sessionRow)

HoldsNewBill(c, m) ==
  m.op = "startBill" =>
    /\ m.step \in {"putBill", "putSession"} => m.sessionRow # NoRow /\ m.sessionRow.bill = c
    /\ m.step \in {"putBill", "putSession", "readOrders", "putOrders"} =>
         m.billRow # NoRow /\ m.billRow.session = m.session
    /\ m.step \in {"putSession", "readOrders", "putOrders"} => BillOf(c, m.session)
    /\ m.step = "putOrders" => m.bill = c

HoldsBill(m) ==
  (\/ m.op = "updateBill" /\ m.step \in {"readOrders", "putOrders"}
   \/ m.op \in {"number", "closeTable"} /\ m.step = "putBill") =>
    m.billRow # NoRow /\ BillOf(m.bill, m.billRow.session)

CallOK(c, m) ==
  /\ NotYet(c, m) /\ Asked(m) /\ HoldsSession(c, m) /\ HoldsNewBill(c, m) /\ HoldsBill(m)
  /\ \A r \in m.todo : OrderRowOK(r[2])
  /\ m.step = "putOrders" => m.op \in {"startBill", "updateBill"}

Typed ==
  /\ sessions \in [Ids -> SessionType \cup {NoRow}]
  /\ orders \in [Ids -> OrderType \cup {NoRow}]
  /\ bills \in [Calls -> BillType \cup {NoRow}]
  /\ stale \in StoreType
  /\ call \in [Calls -> CallRecs]
  /\ raced \in BOOLEAN
  /\ died \in BOOLEAN

Known == Typed /\ RowsOK /\ \A c \in Calls : CallOK(c, call[c])

(* One call after the other *)
Alone == \A c, d \in Calls : c \in InFlight /\ d \in InFlight => c = d

SeesAll(m) ==
  (m.step \in {"read", "readBill"} \/ (m.op = "updateBill" /\ m.step = "readOrders")) =>
    stale = Current

TablesFree(m) ==
  m.op = "create" /\ m.step = "putSession" =>
    \A s \in Ids : TablesOverlap(sessions[s], m.sessionRow.tables) =>
      Cardinality(OpenedSince(s)) >= SessionLimit

KeepsSession(m) ==
  (\/ m.op = "addOrder" /\ m.step \in {"putOrder", "putSession"}
   \/ m.op = "updateSession" /\ m.step = "putSession") =>
    Open(sessions[m.session]) /\ Open(m.sessionRow) /\ m.sessionRow.bill = sessions[m.session].bill

ClosesSession(m) ==
  m.op = "closeTable" =>
    /\ m.step \in {"readBill", "putBill", "putSession"} =>
         /\ sessions[m.session].bill = m.bill
         /\ m.sessionRow.bill = m.bill /\ m.sessionRow.status = "closed"
    /\ m.step = "putBill" => m.billRow.paid
    /\ m.step = "putSession" => bills[m.bill].paid

BillsSession(m) ==
  m.op = "startBill" /\ m.step \in {"putBill", "putSession"} =>
    /\ sessions[m.session].status = "live" /\ sessions[m.session].bill = NoBill
    /\ m.sessionRow.status = "billing"

(* The lines of order o once the orders in todo are put *)
LinesAfter(o, todo) ==
  IF \E r \in todo : r[1] = o THEN (CHOOSE r \in todo : r[1] = o)[2].lines ELSE orders[o].lines

AddsUp(m) ==
  /\ m.op = "updateBill" /\ m.step \in {"read", "readOrders"} => m.todo = {}
  /\ m.op = "updateBill" /\ m.step = "putOrders" =>
    /\ \A r, q \in m.todo : r[1] = q[1] => r = q
    /\ \A r \in m.todo : r[1] \in OrdersOf(m.billRow.session) /\ r[2].session = m.billRow.session
    /\ m.billRow.subtotal =
         SumFunction([o \in OrdersOf(m.billRow.session) |-> LinesAfter(o, m.todo)])

SeqOK(m) ==
  /\ SeesAll(m) /\ TablesFree(m) /\ KeepsSession(m) /\ ClosesSession(m)
  /\ BillsSession(m) /\ AddsUp(m)

(* Every bill is its session's, or is about to be *)
BillsOK ==
  \A b \in Calls : bills[b] # NoRow =>
    sessions[bills[b].session].bill = b \/ At(b, "startBill", "putSession")

Orderly ==
  ~raced =>
    /\ Alone
    /\ \A c \in Calls : SeqOK(call[c])
    /\ ~died => BillsOK

-----------------------------------------------------------------------------
(* The record of a call after a step *)

With(m, step, sessionRow, billRow, bill, todo) ==
  [op |-> m.op, step |-> step, session |-> m.session, bill |-> bill, tables |-> m.tables,
   sessionRow |-> sessionRow, billRow |-> billRow, todo |-> todo]

LEMMA WithFields ==
  ASSUME NEW m, NEW st, NEW sr, NEW br, NEW b, NEW t
  PROVE  LET n == With(m, st, sr, br, b, t) IN
         /\ n.op = m.op /\ n.step = st /\ n.session = m.session /\ n.bill = b
         /\ n.tables = m.tables /\ n.sessionRow = sr /\ n.billRow = br /\ n.todo = t
BY DEF With

LEMMA WithType ==
  ASSUME NEW m \in CallRecs, NEW st \in Steps, NEW sr \in SessionType \cup {NoRow},
         NEW br \in BillType \cup {NoRow}, NEW b \in Bills, NEW t \in SUBSET (Ids \X OrderType)
  PROVE  With(m, st, sr, br, b, t) \in CallRecs
BY DEF With, CallRecs

LEMMA CallFieldTypes ==
  ASSUME Typed, NEW c \in Calls
  PROVE  /\ call[c] \in CallRecs
         /\ call[c].op \in Ops /\ call[c].step \in Steps
         /\ call[c].session \in Ids \cup {NoSession} /\ call[c].bill \in Bills
         /\ call[c].tables \in SUBSET Tables
         /\ call[c].sessionRow \in SessionType \cup {NoRow}
         /\ call[c].billRow \in BillType \cup {NoRow}
         /\ call[c].todo \in SUBSET (Ids \X OrderType)
BY DEF Typed, CallRecs

(* The forms in which the actions change it *)
SetStep(c, st) == [call EXCEPT ![c].step = st]
SetSession(c, st, row) == [call EXCEPT ![c].step = st, ![c].sessionRow = row]
SetBoth(c, st, row, billRow) ==
  [call EXCEPT ![c].step = st, ![c].sessionRow = row, ![c].billRow = billRow]
SetBill(c, st, row) == [call EXCEPT ![c].step = st, ![c].billRow = row]
SetTotal(c, st, n) == [call EXCEPT ![c].step = st, ![c].billRow.subtotal = n]
SetTotalTodo(c, st, n, todo) ==
  [call EXCEPT ![c].step = st, ![c].billRow.subtotal = n, ![c].todo = todo]
SetStamped(c, st, b, n, todo) ==
  [call EXCEPT ![c].step = st, ![c].bill = b, ![c].billRow.subtotal = n, ![c].todo = todo]
SetTodo(c, todo) == [call EXCEPT ![c].todo = todo]
SetStepTodo(c, st, todo) == [call EXCEPT ![c].step = st, ![c].todo = todo]

Totalled(row, n) == [row EXCEPT !.subtotal = n]

LEMMA TotalledType ==
  ASSUME NEW row \in BillType, NEW n \in Nat
  PROVE  /\ Totalled(row, n) \in BillType /\ Totalled(row, n).session = row.session
         /\ Totalled(row, n).subtotal = n
<1>1. PICK new : new = [row EXCEPT !.subtotal = n]
  OBVIOUS
<1>2. new \in BillType /\ new.session = row.session /\ new.subtotal = n
  BY <1>1 DEF BillType
<1>. QED  BY <1>1, <1>2 DEF Totalled

LEMMA SetStepWith ==
  ASSUME call \in [Calls -> CallRecs], NEW c \in Calls, NEW st
  PROVE  SetStep(c, st) = [call EXCEPT ![c] =
           With(call[c], st, call[c].sessionRow, call[c].billRow, call[c].bill, call[c].todo)]
<1>1. PICK new : new = [call[c] EXCEPT !.step = st]
  OBVIOUS
<1>2. SetStep(c, st) = [call EXCEPT ![c] = new]
  BY <1>1 DEF SetStep
<1>3. call[c] \in CallRecs
  OBVIOUS
<1>4. new = With(call[c], st, call[c].sessionRow, call[c].billRow, call[c].bill, call[c].todo)
  BY <1>1, <1>3 DEF With, CallRecs
<1>. QED  BY <1>2, <1>4

LEMMA SetSessionWith ==
  ASSUME call \in [Calls -> CallRecs], NEW c \in Calls, NEW st, NEW row
  PROVE  SetSession(c, st, row) = [call EXCEPT ![c] =
           With(call[c], st, row, call[c].billRow, call[c].bill, call[c].todo)]
<1>1. PICK new : new = [call[c] EXCEPT !.step = st, !.sessionRow = row]
  OBVIOUS
<1>2. SetSession(c, st, row) = [call EXCEPT ![c] = new]
  BY <1>1 DEF SetSession
<1>3. call[c] \in CallRecs
  OBVIOUS
<1>4. new = With(call[c], st, row, call[c].billRow, call[c].bill, call[c].todo)
  BY <1>1, <1>3 DEF With, CallRecs
<1>. QED  BY <1>2, <1>4

LEMMA SetBothWith ==
  ASSUME call \in [Calls -> CallRecs], NEW c \in Calls, NEW st, NEW row, NEW billRow
  PROVE  SetBoth(c, st, row, billRow) = [call EXCEPT ![c] =
           With(call[c], st, row, billRow, call[c].bill, call[c].todo)]
<1>1. PICK new : new = [call[c] EXCEPT !.step = st, !.sessionRow = row, !.billRow = billRow]
  OBVIOUS
<1>2. SetBoth(c, st, row, billRow) = [call EXCEPT ![c] = new]
  BY <1>1 DEF SetBoth
<1>3. call[c] \in CallRecs
  OBVIOUS
<1>4. new = With(call[c], st, row, billRow, call[c].bill, call[c].todo)
  BY <1>1, <1>3 DEF With, CallRecs
<1>. QED  BY <1>2, <1>4

LEMMA SetBillWith ==
  ASSUME call \in [Calls -> CallRecs], NEW c \in Calls, NEW st, NEW row
  PROVE  SetBill(c, st, row) = [call EXCEPT ![c] =
           With(call[c], st, call[c].sessionRow, row, call[c].bill, call[c].todo)]
<1>1. PICK new : new = [call[c] EXCEPT !.step = st, !.billRow = row]
  OBVIOUS
<1>2. SetBill(c, st, row) = [call EXCEPT ![c] = new]
  BY <1>1 DEF SetBill
<1>3. call[c] \in CallRecs
  OBVIOUS
<1>4. new = With(call[c], st, call[c].sessionRow, row, call[c].bill, call[c].todo)
  BY <1>1, <1>3 DEF With, CallRecs
<1>. QED  BY <1>2, <1>4

LEMMA SetTotalWith ==
  ASSUME call \in [Calls -> CallRecs], NEW c \in Calls, NEW st, NEW n
  PROVE  SetTotal(c, st, n) = [call EXCEPT ![c] =
           With(call[c], st, call[c].sessionRow, Totalled(call[c].billRow, n),
                call[c].bill, call[c].todo)]
<1>1. PICK new : new = [call[c] EXCEPT !.step = st, !.billRow.subtotal = n]
  OBVIOUS
<1>2. SetTotal(c, st, n) = [call EXCEPT ![c] = new]
  BY <1>1 DEF SetTotal
<1>3. call[c] \in CallRecs
  OBVIOUS
<1>4. new = With(call[c], st, call[c].sessionRow, Totalled(call[c].billRow, n), call[c].bill, call[c].todo)
  BY <1>1, <1>3 DEF With, CallRecs, Totalled
<1>. QED  BY <1>2, <1>4

LEMMA SetTotalTodoWith ==
  ASSUME call \in [Calls -> CallRecs], NEW c \in Calls, NEW st, NEW n, NEW todo
  PROVE  SetTotalTodo(c, st, n, todo) = [call EXCEPT ![c] =
           With(call[c], st, call[c].sessionRow, Totalled(call[c].billRow, n),
                call[c].bill, todo)]
<1>1. PICK new : new = [call[c] EXCEPT !.step = st, !.billRow.subtotal = n, !.todo = todo]
  OBVIOUS
<1>2. SetTotalTodo(c, st, n, todo) = [call EXCEPT ![c] = new]
  BY <1>1 DEF SetTotalTodo
<1>3. call[c] \in CallRecs
  OBVIOUS
<1>4. new = With(call[c], st, call[c].sessionRow, Totalled(call[c].billRow, n), call[c].bill, todo)
  BY <1>1, <1>3 DEF With, CallRecs, Totalled
<1>. QED  BY <1>2, <1>4

LEMMA SetStampedWith ==
  ASSUME call \in [Calls -> CallRecs], NEW c \in Calls, NEW st, NEW b, NEW n, NEW todo
  PROVE  SetStamped(c, st, b, n, todo) = [call EXCEPT ![c] =
           With(call[c], st, call[c].sessionRow, Totalled(call[c].billRow, n), b, todo)]
<1>1. PICK new : new = [call[c] EXCEPT !.step = st, !.bill = b, !.billRow.subtotal = n, !.todo = todo]
  OBVIOUS
<1>2. SetStamped(c, st, b, n, todo) = [call EXCEPT ![c] = new]
  BY <1>1 DEF SetStamped
<1>3. call[c] \in CallRecs
  OBVIOUS
<1>4. new = With(call[c], st, call[c].sessionRow, Totalled(call[c].billRow, n), b, todo)
  BY <1>1, <1>3 DEF With, CallRecs, Totalled
<1>. QED  BY <1>2, <1>4

LEMMA SetTodoWith ==
  ASSUME call \in [Calls -> CallRecs], NEW c \in Calls, NEW todo
  PROVE  SetTodo(c, todo) = [call EXCEPT ![c] =
           With(call[c], call[c].step, call[c].sessionRow, call[c].billRow, call[c].bill, todo)]
<1>1. PICK new : new = [call[c] EXCEPT !.todo = todo]
  OBVIOUS
<1>2. SetTodo(c, todo) = [call EXCEPT ![c] = new]
  BY <1>1 DEF SetTodo
<1>3. call[c] \in CallRecs
  OBVIOUS
<1>4. new = With(call[c], call[c].step, call[c].sessionRow, call[c].billRow, call[c].bill, todo)
  BY <1>1, <1>3 DEF With, CallRecs
<1>. QED  BY <1>2, <1>4

LEMMA SetStepTodoWith ==
  ASSUME call \in [Calls -> CallRecs], NEW c \in Calls, NEW st, NEW todo
  PROVE  SetStepTodo(c, st, todo) = [call EXCEPT ![c] =
           With(call[c], st, call[c].sessionRow, call[c].billRow, call[c].bill, todo)]
<1>1. PICK new : new = [call[c] EXCEPT !.step = st, !.todo = todo]
  OBVIOUS
<1>2. SetStepTodo(c, st, todo) = [call EXCEPT ![c] = new]
  BY <1>1 DEF SetStepTodo
<1>3. call[c] \in CallRecs
  OBVIOUS
<1>4. new = With(call[c], st, call[c].sessionRow, call[c].billRow, call[c].bill, todo)
  BY <1>1, <1>3 DEF With, CallRecs
<1>. QED  BY <1>2, <1>4

-----------------------------------------------------------------------------
(* Nothing that is known is forgotten *)

KeepsRows ==
  /\ \A s \in Ids : sessions[s] # NoRow => sessions'[s] # NoRow
  /\ \A b \in Calls : bills[b] # NoRow =>
       bills'[b] # NoRow /\ bills'[b].session = bills[b].session

LEMMA RefsStay ==
  ASSUME KeepsRows
  PROVE  /\ \A s : SessionKnown(s) => s \in Ids /\ sessions'[s] # NoRow
         /\ \A b, s : BillOf(b, s) => b \in Calls /\ bills'[b] # NoRow /\ bills'[b].session = s
BY DEF KeepsRows, SessionKnown, BillOf

LEMMA SessionRowStays ==
  ASSUME KeepsRows, NEW s, NEW row, SessionRowOK(s, row)
  PROVE  SessionRowOK(s, row)'
BY RefsStay DEF SessionRowOK, BillOf

LEMMA OrderRowStays ==
  ASSUME KeepsRows, NEW row, OrderRowOK(row)
  PROVE  OrderRowOK(row)'
BY RefsStay DEF OrderRowOK, SessionKnown, BillOf

LEMMA BillRowStays ==
  ASSUME KeepsRows, NEW b, NEW row, BillRowOK(b, row)
  PROVE  BillRowOK(b, row)'
BY RefsStay DEF BillRowOK, SessionKnown, BillOf

(* What a call may rely on, but for the rows it will create, stays true. *)
LEMMA CallStays ==
  ASSUME KeepsRows, NEW c \in Calls, NEW m, CallOK(c, m), NotYet(c, m)'
  PROVE  CallOK(c, m)'
<1>1. Asked(m)'
  BY RefsStay DEF CallOK, Asked, SessionKnown, KeepsRows
<1>2. HoldsSession(c, m)'
  <2>1. SessionRowOK(m.session, m.sessionRow) => SessionRowOK(m.session, m.sessionRow)'
    BY SessionRowStays
  <2>2. sessions[c] # NoRow => sessions'[c] # NoRow
    BY DEF KeepsRows, Ids
  <2>. QED  BY <2>1, <2>2 DEF CallOK, HoldsSession
<1>3. HoldsNewBill(c, m)'
  BY RefsStay DEF CallOK, HoldsNewBill, BillOf
<1>4. HoldsBill(m)'
  BY RefsStay DEF CallOK, HoldsBill, BillOf
<1>5. \A r \in m.todo : OrderRowOK(r[2])'
  BY OrderRowStays DEF CallOK
<1>6. \A r \in m.todo : (OrderRowOK(r[2]))'
  BY <1>5
<1>. QED  BY <1>1, <1>2, <1>3, <1>4, <1>6 DEF CallOK

(* A call that is over relies on nothing. *)
LEMMA BlankOK ==
  ASSUME NEW c
  PROVE  /\ Blank("done") \in CallRecs /\ CallOK(c, Blank("done")) /\ CallOK(c, Blank("done"))'
<1>1. Blank("done") \in CallRecs
  BY DEF Blank, CallRecs, Ops, Steps, Bills
<1>2. CallOK(c, Blank("done"))
  BY DEF Blank, CallOK, NotYet, Asked, HoldsSession, HoldsNewBill, HoldsBill
<1>3. CallOK(c, Blank("done"))'
  BY DEF Blank, CallOK, NotYet, Asked, HoldsSession, HoldsNewBill, HoldsBill
<1>. QED  BY <1>1, <1>2, <1>3

LEMMA CallOfOthers ==
  ASSUME Typed, NEW c \in Calls, NEW m \in CallRecs, call' = [call EXCEPT ![c] = m]
  PROVE  /\ call' \in [Calls -> CallRecs] /\ call'[c] = m
         /\ \A d \in Calls : d # c => call'[d] = call[d]
BY DEF Typed

(* Steps that only read *)
LEMMA ReadStep ==
  ASSUME Known, NEW c \in Calls, NEW m \in CallRecs, CallOK(c, m),
         call' = [call EXCEPT ![c] = m],
         UNCHANGED <<tables, stale>>, raced' \in BOOLEAN, died' \in BOOLEAN
  PROVE  Known'
<1>1. UNCHANGED <<sessions, orders, bills, stale>>
  BY DEF tables
<1>2. /\ call' \in [Calls -> CallRecs] /\ call'[c] = m
      /\ \A d \in Calls : d # c => call'[d] = call[d]
  BY CallOfOthers DEF Known
<1>3. KeepsRows
  BY <1>1 DEF KeepsRows
<1>4. ASSUME NEW d \in Calls PROVE CallOK(d, call[d])'
  <2>1. PICK n : n = call'[d]
    OBVIOUS
  <2>2. CallOK(d, n)
    BY <1>2, <2>1 DEF Known
  <2>3. NotYet(d, n)'
    BY <1>1, <2>2 DEF CallOK, NotYet
  <2>4. CallOK(d, n)'
    BY <1>3, <2>2, <2>3, CallStays
  <2>. QED  BY <2>1, <2>4 DEF CallOK, NotYet, Asked, HoldsSession, HoldsNewBill, HoldsBill
<1>5. Typed'
  BY <1>1, <1>2 DEF Known, Typed
<1>6. RowsOK'
  BY <1>1 DEF Known, RowsOK, SessionRowOK, OrderRowOK, BillRowOK, SessionKnown, BillOf
<1>. QED  BY <1>4, <1>5, <1>6 DEF Known

(* Steps that put a row: c leaves rows as they may be, and knows, in the   *)
(* state that results, what it will rely on.                               *)
LEMMA PutStep ==
  ASSUME Known, NEW c \in Calls, NEW m \in CallRecs, CallOK(c, m)',
         call' = [call EXCEPT ![c] = m],
         Typed', KeepsRows, UNCHANGED stale,
         \A s \in Ids : SessionRowOK(s, sessions[s])',
         \A o \in Ids : OrderRowOK(orders[o])',
         \A b \in Calls : BillRowOK(b, bills[b])',
         \A d \in Calls : d # c =>
           sessions'[d] = sessions[d] \/ sessions[d] # NoRow,
         \A d \in Calls : d # c => bills'[d] = bills[d] \/ bills[d] # NoRow
  PROVE  Known'
<1>1. /\ call'[c] = m
      /\ \A d \in Calls : d # c => call'[d] = call[d]
  BY CallOfOthers DEF Known
<1>2. ASSUME NEW d \in Calls PROVE CallOK(d, call[d])'
  <2>1. PICK n : n = call'[d]
    OBVIOUS
  <2>2. CASE d = c
    BY <1>1, <2>2 DEF CallOK, NotYet, Asked, HoldsSession, HoldsNewBill, HoldsBill
  <2>3. CASE d # c
    <3>1. CallOK(d, n)
      BY <1>1, <2>1, <2>3 DEF Known
    <3>2. NotYet(d, n)'
      BY <2>3, <3>1 DEF CallOK, NotYet
    <3>3. CallOK(d, n)'
      BY <3>1, <3>2, CallStays
    <3>. QED  BY <2>1, <3>3 DEF CallOK, NotYet, Asked, HoldsSession, HoldsNewBill, HoldsBill
  <2>. QED  BY <2>2, <2>3
<1>3. stale' = stale
  OBVIOUS
<1>4. ASSUME NEW s \in Ids
      PROVE  /\ SessionRowOK(s, stale.sessions[s])'
             /\ (stale.sessions[s] # NoRow => SessionKnown(s))'
  <2>1. PICK row : row = stale.sessions[s]
    OBVIOUS
  <2>2. SessionRowOK(s, row) /\ (row # NoRow => SessionKnown(s))
    BY <2>1 DEF Known, RowsOK
  <2>3. SessionRowOK(s, row)'
    BY <2>2, SessionRowStays
  <2>4. row # NoRow => sessions'[s] # NoRow
    BY <2>2, RefsStay
  <2>. QED  BY <1>3, <2>1, <2>3, <2>4 DEF SessionRowOK, SessionKnown
<1>5. ASSUME NEW o \in Ids PROVE OrderRowOK(stale.orders[o])'
  <2>1. PICK row : row = stale.orders[o]
    OBVIOUS
  <2>2. OrderRowOK(row)
    BY <2>1 DEF Known, RowsOK
  <2>3. OrderRowOK(row)'
    BY <2>2, OrderRowStays
  <2>. QED  BY <1>3, <2>1, <2>3 DEF OrderRowOK
<1>6. ASSUME NEW b \in Calls PROVE BillRowOK(b, stale.bills[b])'
  <2>1. PICK row : row = stale.bills[b]
    OBVIOUS
  <2>2. BillRowOK(b, row)
    BY <2>1 DEF Known, RowsOK
  <2>3. BillRowOK(b, row)'
    BY <2>2, BillRowStays
  <2>. QED  BY <1>3, <2>1, <2>3 DEF BillRowOK
<1>7. RowsOK'
  BY <1>4, <1>5, <1>6 DEF RowsOK
<1>. QED  BY <1>2, <1>7 DEF Known

LEMMA IdsAreCalls == \A c \in Calls : c \in Ids
BY DEF Ids

(* What is stored stays known when no table loses a row. *)
LEMMA StoredStays ==
  ASSUME Known, KeepsRows
  PROVE  /\ \A s \in Ids : sessions'[s] = sessions[s] => SessionRowOK(s, sessions[s])'
         /\ \A o \in Ids : orders'[o] = orders[o] => OrderRowOK(orders[o])'
         /\ \A b \in Calls : bills'[b] = bills[b] => BillRowOK(b, bills[b])'
<1>1. ASSUME NEW s \in Ids, sessions'[s] = sessions[s] PROVE SessionRowOK(s, sessions[s])'
  <2>1. PICK row : row = sessions[s]
    OBVIOUS
  <2>2. SessionRowOK(s, row)
    BY <2>1 DEF Known, RowsOK
  <2>3. SessionRowOK(s, row)'
    BY <2>2, SessionRowStays
  <2>. QED  BY <1>1, <2>1, <2>3 DEF SessionRowOK
<1>2. ASSUME NEW o \in Ids, orders'[o] = orders[o] PROVE OrderRowOK(orders[o])'
  <2>1. PICK row : row = orders[o]
    OBVIOUS
  <2>2. OrderRowOK(row)
    BY <2>1 DEF Known, RowsOK
  <2>3. OrderRowOK(row)'
    BY <2>2, OrderRowStays
  <2>. QED  BY <1>2, <2>1, <2>3 DEF OrderRowOK
<1>3. ASSUME NEW b \in Calls, bills'[b] = bills[b] PROVE BillRowOK(b, bills[b])'
  <2>1. PICK row : row = bills[b]
    OBVIOUS
  <2>2. BillRowOK(b, row)
    BY <2>1 DEF Known, RowsOK
  <2>3. BillRowOK(b, row)'
    BY <2>2, BillRowStays
  <2>. QED  BY <1>3, <2>1, <2>3 DEF BillRowOK
<1>. QED  BY <1>1, <1>2, <1>3

LEMMA SessionPut ==
  ASSUME Known, NEW c \in Calls, NEW m \in CallRecs, CallOK(c, m)',
         call' = [call EXCEPT ![c] = m],
         NEW s \in Ids, NEW row \in SessionType, SessionRowOK(s, row),
         s = c \/ sessions[s] # NoRow,
         PutSession(s, row), Aside, UNCHANGED <<orders, bills>>
  PROVE  Known'
<1>1. sessions' = [sessions EXCEPT ![s] = row]
  BY DEF PutSession
<1>2. UNCHANGED <<orders, bills, stale, raced, died>>
  BY DEF Aside
<1>3. row # NoRow
  BY ServiceAssumption
<1>4. sessions \in [Ids -> SessionType \cup {NoRow}]
  BY DEF Known, Typed
<1>5. /\ sessions' \in [Ids -> SessionType \cup {NoRow}] /\ sessions'[s] = row
      /\ \A t \in Ids : t # s => sessions'[t] = sessions[t]
  BY <1>1, <1>4
<1>6. Typed'
  BY <1>2, <1>5, CallOfOthers DEF Known, Typed
<1>7. KeepsRows
  BY <1>2, <1>3, <1>5 DEF KeepsRows
<1>8. SessionRowOK(s, row)'
  BY <1>7, SessionRowStays
<1>9. \A t \in Ids : SessionRowOK(t, sessions[t])'
  <2> TAKE t \in Ids
  <2>1. CASE t = s
    BY <1>5, <1>8, <2>1 DEF SessionRowOK
  <2>2. CASE t # s
    BY <1>5, <1>7, <2>2, StoredStays
  <2>. QED  BY <2>1, <2>2
<1>10. /\ \A o \in Ids : OrderRowOK(orders[o])'
       /\ \A b \in Calls : BillRowOK(b, bills[b])'
  BY <1>2, <1>7, StoredStays
<1>11. \A d \in Calls : d # c => sessions'[d] = sessions[d] \/ sessions[d] # NoRow
  BY <1>5, IdsAreCalls
<1>12. \A d \in Calls : d # c => bills'[d] = bills[d] \/ bills[d] # NoRow
  BY <1>2
<1>. QED  BY <1>2, <1>6, <1>7, <1>9, <1>10, <1>11, <1>12, PutStep

LEMMA OrderPut ==
  ASSUME Known, NEW c \in Calls, NEW m \in CallRecs, CallOK(c, m)',
         call' = [call EXCEPT ![c] = m],
         NEW o \in Ids, NEW row \in OrderType, OrderRowOK(row),
         PutOrder(o, row), Aside, UNCHANGED <<sessions, bills>>
  PROVE  Known'
<1>1. orders' = [orders EXCEPT ![o] = row]
  BY DEF PutOrder
<1>2. UNCHANGED <<sessions, bills, stale, raced, died>>
  BY DEF Aside
<1>3. orders \in [Ids -> OrderType \cup {NoRow}]
  BY DEF Known, Typed
<1>4. /\ orders' \in [Ids -> OrderType \cup {NoRow}] /\ orders'[o] = row
      /\ \A t \in Ids : t # o => orders'[t] = orders[t]
  BY <1>1, <1>3
<1>5. Typed'
  BY <1>2, <1>4, CallOfOthers DEF Known, Typed
<1>6. KeepsRows
  BY <1>2 DEF KeepsRows
<1>7. OrderRowOK(row)'
  BY <1>6, OrderRowStays
<1>8. \A t \in Ids : OrderRowOK(orders[t])'
  <2> TAKE t \in Ids
  <2>1. CASE t = o
    BY <1>4, <1>7, <2>1 DEF OrderRowOK
  <2>2. CASE t # o
    BY <1>4, <1>6, <2>2, StoredStays
  <2>. QED  BY <2>1, <2>2
<1>9. /\ \A s \in Ids : SessionRowOK(s, sessions[s])'
      /\ \A b \in Calls : BillRowOK(b, bills[b])'
  BY <1>2, <1>6, StoredStays
<1>. QED  BY <1>2, <1>5, <1>6, <1>8, <1>9, PutStep

LEMMA BillPut ==
  ASSUME Known, NEW c \in Calls, NEW m \in CallRecs, CallOK(c, m)',
         call' = [call EXCEPT ![c] = m],
         NEW b \in Calls, NEW row \in BillType, SessionKnown(row.session),
         (b = c /\ bills[b] = NoRow) \/ BillOf(b, row.session),
         PutBill(b, row), Aside, UNCHANGED <<sessions, orders>>
  PROVE  Known'
<1>1. bills' = [bills EXCEPT ![b] = row]
  BY DEF PutBill
<1>2. UNCHANGED <<sessions, orders, stale, raced, died>>
  BY DEF Aside
<1>3. row # NoRow
  BY ServiceAssumption
<1>4. bills \in [Calls -> BillType \cup {NoRow}]
  BY DEF Known, Typed
<1>5. /\ bills' \in [Calls -> BillType \cup {NoRow}] /\ bills'[b] = row
      /\ \A t \in Calls : t # b => bills'[t] = bills[t]
  BY <1>1, <1>4
<1>6. Typed'
  BY <1>2, <1>5, CallOfOthers DEF Known, Typed
<1>7. KeepsRows
  BY <1>2, <1>3, <1>5 DEF KeepsRows, BillOf
<1>8. \A t \in Calls : BillRowOK(t, bills[t])'
  <2> TAKE t \in Calls
  <2>1. CASE t = b
    BY <1>2, <1>5, <2>1 DEF BillRowOK, BillOf, SessionKnown
  <2>2. CASE t # b
    BY <1>5, <1>7, <2>2, StoredStays
  <2>. QED  BY <2>1, <2>2
<1>9. /\ \A s \in Ids : SessionRowOK(s, sessions[s])'
      /\ \A o \in Ids : OrderRowOK(orders[o])'
  BY <1>2, <1>7, StoredStays
<1>10. \A d \in Calls : d # c => bills'[d] = bills[d] \/ bills[d] # NoRow
  BY <1>5 DEF BillOf
<1>11. \A d \in Calls : d # c => sessions'[d] = sessions[d] \/ sessions[d] # NoRow
  BY <1>2
<1>. QED  BY <1>2, <1>6, <1>7, <1>8, <1>9, <1>10, <1>11, PutStep

-----------------------------------------------------------------------------
(* What a read may return *)

LEMMA SeesSession ==
  ASSUME Known, NEW s \in Ids, NEW row \in SeenSession(s)
  PROVE  /\ row \in SessionType \cup {NoRow} /\ SessionRowOK(s, row)
         /\ row # NoRow => SessionKnown(s)
BY DEF Known, Typed, RowsOK, StoreType, SeenSession, SessionKnown

LEMMA SeesBill ==
  ASSUME Known, NEW b \in Calls, NEW row \in SeenBill(b)
  PROVE  row \in BillType \cup {NoRow} /\ BillRowOK(b, row)
BY DEF Known, Typed, RowsOK, StoreType, SeenBill

LEMMA SeesOrder ==
  ASSUME Known, NEW o \in Ids, NEW row \in SeenOrder(o)
  PROVE  row \in OrderType \cup {NoRow} /\ OrderRowOK(row)
BY DEF Known, Typed, RowsOK, StoreType, SeenOrder

(* The rows of a query *)
Rows(s) == {r \in Ids \X OrderType : OrderRowOK(r[2]) /\ r[2].session = s}

LEMMA IdsFinite == IsFiniteSet(Ids)
BY FS_AddElement, ServiceAssumption DEF Ids

LEMMA SeesOrders ==
  ASSUME Known, NEW s, NEW rows \in SeenOrders(s)
  PROVE  rows \subseteq Rows(s) /\ IsFiniteSet(rows)
<1>1. PICK late \in SUBSET {o \in Ids : stale.orders[o] # orders[o]} :
        rows = RowsOf([o \in Ids |-> IF o \in late THEN stale.orders[o] ELSE orders[o]], s)
  BY DEF SeenOrders
<1>2. PICK view : view = [o \in Ids |-> IF o \in late THEN stale.orders[o] ELSE orders[o]]
  OBVIOUS
<1>3. \A o \in Ids : view[o] \in OrderType \cup {NoRow} /\ OrderRowOK(view[o])
  BY <1>2 DEF Known, Typed, RowsOK, StoreType
<1> DEFINE D == {i \in Ids : view[i] # NoRow /\ view[i].session = s}
<1>4. rows = {<<o, view[o]>> : o \in D}
  BY <1>1, <1>2 DEF RowsOf
<1>5. IsFiniteSet(D)
  BY IdsFinite, FS_Subset
<1>6. rows \subseteq Rows(s)
  BY <1>3, <1>4 DEF Rows
<1>7. IsFiniteSet(rows)
  <2>1. PICK pair : pair = [o \in D |-> <<o, view[o]>>]
    OBVIOUS
  <2>2. rows = {pair[o] : o \in D}
    BY <1>4, <2>1
  <2> HIDE DEF D
  <2>. QED  BY <1>5, <2>2, FiniteImage
<1>. QED  BY <1>6, <1>7

LEMMA SumsAreNat ==
  ASSUME NEW rows, IsFiniteSet(rows), rows \subseteq Ids \X OrderType
  PROVE  SumOfPrices(rows) \in Nat /\ SumOfLines(rows) \in Nat
<1> DEFINE prices == [r \in rows |-> r[2].price]
           lines == [r \in rows |-> r[2].lines]
<1>1. \A r \in rows : prices[r] \in Nat /\ lines[r] \in Nat
  BY DEF OrderType
<1>2. DOMAIN prices = rows /\ DOMAIN lines = rows
  OBVIOUS
<1> HIDE DEF prices, lines
<1>3. SumFunctionOnSet(prices, rows) \in Nat /\ SumFunctionOnSet(lines, rows) \in Nat
  BY <1>1, SumIsNat
<1>. QED  BY <1>2, <1>3 DEF SumOfPrices, SumOfLines, SumFunction, prices, lines

(* Rows stamped with a bill, and rows with the lines of one order edited *)
Stamped(row, b) == [row EXCEPT !.bill = b]

LEMMA StampedType ==
  ASSUME NEW row \in OrderType, NEW b \in Bills
  PROVE  /\ Stamped(row, b) \in OrderType /\ Stamped(row, b).session = row.session
         /\ Stamped(row, b).bill = b
<1>1. PICK new : new = [row EXCEPT !.bill = b]
  OBVIOUS
<1>2. new \in OrderType /\ new.session = row.session /\ new.bill = b
  BY <1>1 DEF OrderType
<1>. QED  BY <1>1, <1>2 DEF Stamped

Edited(row, lines, price) == [row EXCEPT !.lines = lines, !.price = price]

LEMMA EditedType ==
  ASSUME NEW row \in OrderType, NEW n \in Nat, NEW p \in Nat
  PROVE  /\ Edited(row, n, p) \in OrderType /\ Edited(row, n, p).session = row.session
         /\ Edited(row, n, p).bill = row.bill /\ Edited(row, n, p).lines = n
<1>1. PICK new : new = [row EXCEPT !.lines = n, !.price = p]
  OBVIOUS
<1>2. new \in OrderType /\ new.session = row.session /\ new.bill = row.bill /\ new.lines = n
  BY <1>1 DEF OrderType
<1>. QED  BY <1>1, <1>2 DEF Edited

LinesEdited(r, o, p) == IF r[1] = o THEN p ELSE r[2].lines
EditedPair(r, o, p) == <<r[1], Edited(r[2], LinesEdited(r, o, p), LinesEdited(r, o, p))>>

LEMMA EditedRowsAre ==
  ASSUME NEW rows, NEW o, NEW p, rows \subseteq Ids \X OrderType
  PROVE  EditedRows(rows, o, p) = {EditedPair(r, o, p) : r \in rows}
<1>1. ASSUME NEW r \in rows
      PROVE  <<r[1], [r[2] EXCEPT !.lines = IF r[1] = o THEN p ELSE @,
                                  !.price = IF r[1] = o THEN p ELSE r[2].lines]>>
               = EditedPair(r, o, p)
  BY <1>1 DEF EditedPair, Edited, LinesEdited, OrderType
<1>. QED  BY <1>1 DEF EditedRows

LEMMA EditedPairType ==
  ASSUME NEW s, NEW r \in Rows(s), NEW o, NEW p \in Nat
  PROVE  /\ EditedPair(r, o, p) \in Rows(s) /\ EditedPair(r, o, p)[1] = r[1]
         /\ EditedPair(r, o, p)[2].lines = LinesEdited(r, o, p)
<1>1. /\ r[1] \in Ids /\ r[2] \in OrderType /\ r[2].lines \in Nat
      /\ OrderRowOK(r[2]) /\ r[2].session = s
  BY DEF Rows, OrderType
<1>2. PICK n \in Nat : n = LinesEdited(r, o, p)
  BY <1>1 DEF LinesEdited
<1>3. PICK e : e = Edited(r[2], n, n)
  OBVIOUS
<1>4. e \in OrderType /\ e.session = r[2].session /\ e.bill = r[2].bill /\ e.lines = n
  BY <1>1, <1>3, EditedType
<1>5. OrderRowOK(e)
  BY <1>1, <1>4, ServiceAssumption DEF OrderRowOK
<1>6. EditedPair(r, o, p) = <<r[1], e>>
  BY <1>2, <1>3 DEF EditedPair
<1>. QED  BY <1>1, <1>2, <1>4, <1>5, <1>6 DEF Rows

LEMMA EditedRowsOK ==
  ASSUME NEW s, NEW rows, rows \subseteq Rows(s), IsFiniteSet(rows), NEW o, NEW p \in Nat
  PROVE  EditedRows(rows, o, p) \subseteq Rows(s) /\ IsFiniteSet(EditedRows(rows, o, p))
<1>1. rows \subseteq Ids \X OrderType
  BY DEF Rows
<1>2. EditedRows(rows, o, p) = {EditedPair(r, o, p) : r \in rows}
  BY <1>1, EditedRowsAre
<1>3. \A r \in rows : EditedPair(r, o, p) \in Rows(s)
  BY EditedPairType
<1>4. IsFiniteSet({EditedPair(r, o, p) : r \in rows})
  <2>1. PICK pair : pair = [r \in rows |-> EditedPair(r, o, p)]
    OBVIOUS
  <2>2. {EditedPair(r, o, p) : r \in rows} = {pair[r] : r \in rows}
    BY <2>1
  <2>. QED  BY <2>2, FiniteImage
<1>. QED  BY <1>2, <1>3, <1>4

-----------------------------------------------------------------------------
(* The first invariant: steps *)

LEMMA InitKnown == Init => Known
<1> SUFFICES ASSUME Init PROVE Known
  OBVIOUS
<1>1. PICK ts \in SUBSET Tables \ {{}}, at \in Times :
        sessions = [s \in Ids |-> IF s = first THEN NewSession(ts, at) ELSE NoRow]
  BY DEF Init
<1>2. /\ NewSession(ts, at) \in SessionType /\ NewSession(ts, at).bill = NoBill
      /\ NewOrder(first, NoBill) \in OrderType /\ NewOrder(first, NoBill).bill = NoBill
      /\ NewOrder(first, NoBill).session = first
  BY DEF NewSession, SessionType, Statuses, Bills, NewOrder, OrderType, Ids
<1>3. /\ orders = [o \in Ids |-> IF o = first THEN NewOrder(first, NoBill) ELSE NoRow]
      /\ bills = [b \in Calls |-> NoRow]
      /\ stale = [sessions |-> sessions, orders |-> orders, bills |-> bills]
      /\ call = [c \in Calls |-> Blank("idle")]
      /\ raced = FALSE /\ died = FALSE
  BY DEF Init, Current
<1>4. Blank("idle") \in CallRecs
  BY DEF Blank, CallRecs, Ops, Steps, Bills
<1>5. Typed
  BY <1>1, <1>2, <1>3, <1>4 DEF Typed, StoreType
<1>6. SessionKnown(first)
  BY <1>1, <1>2, ServiceAssumption DEF SessionKnown, Ids
<1>7. /\ \A s \in Ids : sessions[s] # NoRow => s = first /\ sessions[s].bill = NoBill
      /\ \A o \in Ids : orders[o] # NoRow => orders[o].session = first /\ orders[o].bill = NoBill
      /\ \A b \in Calls : bills[b] = NoRow
  BY <1>1, <1>2, <1>3
<1>8. /\ stale.sessions = sessions /\ stale.orders = orders /\ stale.bills = bills
  BY <1>3
<1>9. RowsOK
  BY <1>6, <1>7, <1>8 DEF RowsOK, SessionRowOK, OrderRowOK, BillRowOK
<1>10. ASSUME NEW c \in Calls PROVE CallOK(c, call[c])
  <2>1. call[c] = Blank("idle")
    BY <1>3
  <2>2. sessions[c] = NoRow /\ bills[c] = NoRow
    BY <1>1, <1>3, ServiceAssumption DEF Ids
  <2>. QED  BY <2>1, <2>2 DEF Blank, CallOK, NotYet, Asked, HoldsSession, HoldsNewBill, HoldsBill
<1>. QED  BY <1>5, <1>9, <1>10 DEF Known

LEMMA RequestFields ==
  ASSUME NEW o, NEW s, NEW b, NEW ts
  PROVE  LET m == Request(o, s, b, ts) IN
         /\ m.op = o /\ m.step = "read" /\ m.session = s /\ m.bill = b /\ m.tables = ts
         /\ m.sessionRow = NoRow /\ m.billRow = NoRow /\ m.todo = {}
         /\ m = [op |-> o, step |-> "read", session |-> s, bill |-> b, tables |-> ts,
                 sessionRow |-> NoRow, billRow |-> NoRow, todo |-> {}]
<1>1. PICK m : m = [Blank("read") EXCEPT !.op = o, !.session = s, !.bill = b, !.tables = ts]
  OBVIOUS
<1>2. m = [op |-> o, step |-> "read", session |-> s, bill |-> b, tables |-> ts,
           sessionRow |-> NoRow, billRow |-> NoRow, todo |-> {}]
  BY <1>1 DEF Blank
<1>3. Request(o, s, b, ts) = m
  BY <1>1 DEF Request
<1>. QED  BY <1>2, <1>3

LEMMA RequestsAre ==
  ASSUME NEW m \in Requests
  PROVE  \E o \in Ops, s \in Ids \cup {NoSession}, b \in Bills, ts \in SUBSET Tables :
           /\ m = Request(o, s, b, ts) /\ o # "none"
           /\ o \in {"addOrder", "updateSession", "startBill", "closeTable"} => SessionKnown(s)
           /\ o \in {"updateBill", "number", "closeTable"} => b \in Calls /\ bills[b] # NoRow
<1>1. CASE m \in {Request("create", NoSession, NoBill, ts) : ts \in SUBSET Tables \ {{}}}
  BY <1>1 DEF Ops, Bills
<1>2. CASE m \in {Request("updateSession", s, NoBill, ts) :
                    s \in {t \in Ids : sessions[t] # NoRow}, ts \in SUBSET Tables}
  BY <1>2 DEF Ops, Bills, SessionKnown
<1>3. CASE m \in {Request(o, s, NoBill, {}) :
                    o \in {"addOrder", "startBill"}, s \in {t \in Ids : sessions[t] # NoRow}}
  BY <1>3 DEF Ops, Bills, SessionKnown
<1>4. CASE m \in {Request("closeTable", s, b, {}) :
                    s \in {t \in Ids : sessions[t] # NoRow}, b \in {d \in Calls : bills[d] # NoRow}}
  BY <1>4 DEF Ops, Bills, SessionKnown
<1>5. CASE m \in {Request(o, NoSession, b, {}) :
                    o \in {"updateBill", "number"}, b \in {d \in Calls : bills[d] # NoRow}}
  BY <1>5 DEF Ops, Bills
<1>6. CASE m \in {Request("editOrder", NoSession, NoBill, {})}
  BY <1>6 DEF Ops, Bills
<1>. QED  BY <1>1, <1>2, <1>3, <1>4, <1>5, <1>6 DEF Requests

LEMMA StartKnown == ASSUME Known, NEW c \in Calls, Start(c) PROVE Known'
<1>1. PICK m \in Requests : call' = [call EXCEPT ![c] = m]
  BY DEF Start
<1>2. PICK o \in Ops, s \in Ids \cup {NoSession}, b \in Bills, ts \in SUBSET Tables :
        /\ m = Request(o, s, b, ts) /\ o # "none"
        /\ o \in {"addOrder", "updateSession", "startBill", "closeTable"} => SessionKnown(s)
        /\ o \in {"updateBill", "number", "closeTable"} => b \in Calls /\ bills[b] # NoRow
  BY RequestsAre
<1>3. /\ m.op = o /\ m.step = "read" /\ m.session = s /\ m.bill = b /\ m.todo = {}
  BY <1>2, RequestFields
<1>4. m \in CallRecs
  BY <1>2, RequestFields DEF CallRecs, Steps
<1>5. NotYet(c, m)
  BY <1>3 DEF Known, CallOK, NotYet, Start
<1>6. CallOK(c, m)
  BY <1>2, <1>3, <1>5 DEF CallOK, Asked, HoldsSession, HoldsNewBill, HoldsBill
<1>7. raced' \in BOOLEAN /\ died' \in BOOLEAN /\ UNCHANGED <<tables, stale>>
  BY DEF Start, Known, Typed
<1>. QED  BY <1>1, <1>4, <1>6, <1>7, ReadStep

(* A call that ends having only read *)
LEMMA FinishKnown ==
  ASSUME Known, NEW c \in Calls, Finish(c), UNCHANGED <<tables, stale>>,
         raced' \in BOOLEAN, died' \in BOOLEAN
  PROVE  Known'
BY BlankOK, ReadStep DEF Finish

LEMMA ReadsKeep ==
  ASSUME Known, Reads
  PROVE  UNCHANGED <<tables, stale>> /\ raced' \in BOOLEAN /\ died' \in BOOLEAN
BY DEF Reads, Known, Typed

LEMMA FinishReads == ASSUME Known, NEW c \in Calls, Finish(c), Reads PROVE Known'
BY FinishKnown, ReadsKeep

LEMMA CatchUpKnown == ASSUME Known, CatchUp PROVE Known'
<1>1. UNCHANGED <<sessions, orders, bills, call, raced, died>>
  BY DEF CatchUp, tables
<1>2. stale' = [sessions |-> sessions, orders |-> orders, bills |-> bills]
  BY DEF CatchUp, Current
<1>3. stale' \in StoreType
  BY <1>2 DEF Known, Typed, StoreType
<1>4. /\ stale'.sessions = sessions /\ stale'.orders = orders /\ stale'.bills = bills
  BY <1>2
<1>5. Typed'
  BY <1>1, <1>3 DEF Known, Typed
<1>6. RowsOK'
  BY <1>1, <1>4 DEF Known, RowsOK, SessionRowOK, OrderRowOK, BillRowOK, SessionKnown, BillOf
<1>7. \A c \in Calls : CallOK(c, call[c])'
  BY <1>1 DEF Known, CallOK, NotYet, Asked, HoldsSession, HoldsNewBill, HoldsBill,
              SessionRowOK, OrderRowOK, SessionKnown, BillOf
<1>. QED  BY <1>5, <1>6, <1>7 DEF Known

(* A step that only moves the call on *)
LEMMA StepRecord ==
  ASSUME Typed, NEW c \in Calls, NEW st \in Steps, Goto(c, st)
  PROVE  \E m \in CallRecs :
           /\ call' = [call EXCEPT ![c] = m]
           /\ m.op = call[c].op /\ m.step = st /\ m.session = call[c].session
           /\ m.bill = call[c].bill /\ m.tables = call[c].tables
           /\ m.sessionRow = call[c].sessionRow /\ m.billRow = call[c].billRow
           /\ m.todo = call[c].todo
<1>1. PICK m : m = With(call[c], st, call[c].sessionRow, call[c].billRow, call[c].bill, call[c].todo)
  OBVIOUS
<1>2. /\ m.op = call[c].op /\ m.step = st /\ m.session = call[c].session
        /\ m.bill = call[c].bill /\ m.tables = call[c].tables
        /\ m.sessionRow = call[c].sessionRow /\ m.billRow = call[c].billRow
        /\ m.todo = call[c].todo
  BY <1>1, WithFields
<1>3. call \in [Calls -> CallRecs]
  BY DEF Typed
<1>4. m \in CallRecs
  BY <1>1, CallFieldTypes, WithType
<1>5. call' = SetStep(c, st)
  BY DEF Goto, SetStep
<1>6. call' = [call EXCEPT ![c] = m]
  BY <1>1, <1>3, <1>5, SetStepWith
<1>. QED  BY <1>2, <1>4, <1>6

(* A step that moves it on and remembers a session *)
LEMMA SessionRecord ==
  ASSUME Typed, NEW c \in Calls, NEW st \in Steps, NEW row \in SessionType,
         call' = SetSession(c, st, row)
  PROVE  \E m \in CallRecs :
           /\ call' = [call EXCEPT ![c] = m]
           /\ m.op = call[c].op /\ m.step = st /\ m.session = call[c].session
           /\ m.bill = call[c].bill /\ m.tables = call[c].tables
           /\ m.sessionRow = row /\ m.billRow = call[c].billRow /\ m.todo = call[c].todo
<1>1. PICK m : m = With(call[c], st, row, call[c].billRow, call[c].bill, call[c].todo)
  OBVIOUS
<1>2. /\ m.op = call[c].op /\ m.step = st /\ m.session = call[c].session
        /\ m.bill = call[c].bill /\ m.tables = call[c].tables
        /\ m.sessionRow = row /\ m.billRow = call[c].billRow /\ m.todo = call[c].todo
  BY <1>1, WithFields
<1>3. call \in [Calls -> CallRecs]
  BY DEF Typed
<1>4. m \in CallRecs
  BY <1>1, CallFieldTypes, WithType
<1>5. call' = [call EXCEPT ![c] = m]
  BY <1>1, <1>3, SetSessionWith
<1>. QED  BY <1>2, <1>4, <1>5

(* ... a bill *)
LEMMA BillRecord ==
  ASSUME Typed, NEW c \in Calls, NEW st \in Steps, NEW row \in BillType,
         call' = SetBill(c, st, row)
  PROVE  \E m \in CallRecs :
           /\ call' = [call EXCEPT ![c] = m]
           /\ m.op = call[c].op /\ m.step = st /\ m.session = call[c].session
           /\ m.bill = call[c].bill /\ m.tables = call[c].tables
           /\ m.sessionRow = call[c].sessionRow /\ m.billRow = row /\ m.todo = call[c].todo
<1>1. PICK m : m = With(call[c], st, call[c].sessionRow, row, call[c].bill, call[c].todo)
  OBVIOUS
<1>2. /\ m.op = call[c].op /\ m.step = st /\ m.session = call[c].session
        /\ m.bill = call[c].bill /\ m.tables = call[c].tables
        /\ m.sessionRow = call[c].sessionRow /\ m.billRow = row /\ m.todo = call[c].todo
  BY <1>1, WithFields
<1>3. call \in [Calls -> CallRecs]
  BY DEF Typed
<1>4. m \in CallRecs
  BY <1>1, CallFieldTypes, WithType
<1>5. call' = [call EXCEPT ![c] = m]
  BY <1>1, <1>3, SetBillWith
<1>. QED  BY <1>2, <1>4, <1>5

(* ... a session and its new bill *)
LEMMA BothRecord ==
  ASSUME Typed, NEW c \in Calls, NEW st \in Steps,
         NEW row \in SessionType, NEW billRow \in BillType,
         call' = SetBoth(c, st, row, billRow)
  PROVE  \E m \in CallRecs :
           /\ call' = [call EXCEPT ![c] = m]
           /\ m.op = call[c].op /\ m.step = st /\ m.session = call[c].session
           /\ m.bill = call[c].bill /\ m.tables = call[c].tables
           /\ m.sessionRow = row /\ m.billRow = billRow /\ m.todo = call[c].todo
<1>1. PICK m : m = With(call[c], st, row, billRow, call[c].bill, call[c].todo)
  OBVIOUS
<1>2. /\ m.op = call[c].op /\ m.step = st /\ m.session = call[c].session
      /\ m.bill = call[c].bill /\ m.tables = call[c].tables
      /\ m.sessionRow = row /\ m.billRow = billRow /\ m.todo = call[c].todo
  BY <1>1, WithFields
<1>3. call \in [Calls -> CallRecs]
  BY DEF Typed
<1>4. m \in CallRecs
  BY <1>1, CallFieldTypes, WithType
<1>5. call' = [call EXCEPT ![c] = m]
  BY <1>1, <1>3, SetBothWith
<1>. QED  BY <1>2, <1>4, <1>5

(* ... a bill's subtotal *)
LEMMA TotalRecord ==
  ASSUME Typed, NEW c \in Calls, NEW st \in Steps, NEW n \in Nat,
         call[c].billRow \in BillType,
         call' = SetTotal(c, st, n)
  PROVE  \E m \in CallRecs :
           /\ call' = [call EXCEPT ![c] = m]
           /\ m.op = call[c].op /\ m.step = st /\ m.session = call[c].session
           /\ m.bill = call[c].bill /\ m.tables = call[c].tables
           /\ m.sessionRow = call[c].sessionRow /\ m.billRow = Totalled(call[c].billRow, n) /\ m.todo = call[c].todo
<1>1. PICK m : m = With(call[c], st, call[c].sessionRow, Totalled(call[c].billRow, n), call[c].bill, call[c].todo)
  OBVIOUS
<1>2. /\ m.op = call[c].op /\ m.step = st /\ m.session = call[c].session
      /\ m.bill = call[c].bill /\ m.tables = call[c].tables
      /\ m.sessionRow = call[c].sessionRow /\ m.billRow = Totalled(call[c].billRow, n) /\ m.todo = call[c].todo
  BY <1>1, WithFields
<1>3. call \in [Calls -> CallRecs]
  BY DEF Typed
<1>4. Totalled(call[c].billRow, n) \in BillType
  BY TotalledType
<1>5. m \in CallRecs
  BY <1>1, <1>4, CallFieldTypes, WithType
<1>6. call' = [call EXCEPT ![c] = m]
  BY <1>1, <1>3, SetTotalWith
<1>. QED  BY <1>2, <1>5, <1>6

(* ... a bill's subtotal and orders *)
LEMMA TotalTodoRecord ==
  ASSUME Typed, NEW c \in Calls, NEW st \in Steps, NEW n \in Nat,
         call[c].billRow \in BillType, NEW todo \in SUBSET (Ids \X OrderType),
         call' = SetTotalTodo(c, st, n, todo)
  PROVE  \E m \in CallRecs :
           /\ call' = [call EXCEPT ![c] = m]
           /\ m.op = call[c].op /\ m.step = st /\ m.session = call[c].session
           /\ m.bill = call[c].bill /\ m.tables = call[c].tables
           /\ m.sessionRow = call[c].sessionRow /\ m.billRow = Totalled(call[c].billRow, n) /\ m.todo = todo
<1>1. PICK m : m = With(call[c], st, call[c].sessionRow, Totalled(call[c].billRow, n), call[c].bill, todo)
  OBVIOUS
<1>2. /\ m.op = call[c].op /\ m.step = st /\ m.session = call[c].session
      /\ m.bill = call[c].bill /\ m.tables = call[c].tables
      /\ m.sessionRow = call[c].sessionRow /\ m.billRow = Totalled(call[c].billRow, n) /\ m.todo = todo
  BY <1>1, WithFields
<1>3. call \in [Calls -> CallRecs]
  BY DEF Typed
<1>4. Totalled(call[c].billRow, n) \in BillType
  BY TotalledType
<1>5. m \in CallRecs
  BY <1>1, <1>4, CallFieldTypes, WithType
<1>6. call' = [call EXCEPT ![c] = m]
  BY <1>1, <1>3, SetTotalTodoWith
<1>. QED  BY <1>2, <1>5, <1>6

(* ... a bill, its subtotal and orders *)
LEMMA StampedRecord ==
  ASSUME Typed, NEW c \in Calls, NEW st \in Steps, NEW b \in Bills, NEW n \in Nat,
         call[c].billRow \in BillType, NEW todo \in SUBSET (Ids \X OrderType),
         call' = SetStamped(c, st, b, n, todo)
  PROVE  \E m \in CallRecs :
           /\ call' = [call EXCEPT ![c] = m]
           /\ m.op = call[c].op /\ m.step = st /\ m.session = call[c].session
           /\ m.bill = b /\ m.tables = call[c].tables
           /\ m.sessionRow = call[c].sessionRow /\ m.billRow = Totalled(call[c].billRow, n) /\ m.todo = todo
<1>1. PICK m : m = With(call[c], st, call[c].sessionRow, Totalled(call[c].billRow, n), b, todo)
  OBVIOUS
<1>2. /\ m.op = call[c].op /\ m.step = st /\ m.session = call[c].session
      /\ m.bill = b /\ m.tables = call[c].tables
      /\ m.sessionRow = call[c].sessionRow /\ m.billRow = Totalled(call[c].billRow, n) /\ m.todo = todo
  BY <1>1, WithFields
<1>3. call \in [Calls -> CallRecs]
  BY DEF Typed
<1>4. Totalled(call[c].billRow, n) \in BillType
  BY TotalledType
<1>5. m \in CallRecs
  BY <1>1, <1>4, CallFieldTypes, WithType
<1>6. call' = [call EXCEPT ![c] = m]
  BY <1>1, <1>3, SetStampedWith
<1>. QED  BY <1>2, <1>5, <1>6

(* A step that only remembers orders *)
LEMMA TodoRecord ==
  ASSUME Typed, NEW c \in Calls, NEW todo \in SUBSET (Ids \X OrderType),
         call' = SetTodo(c, todo)
  PROVE  \E m \in CallRecs :
           /\ call' = [call EXCEPT ![c] = m]
           /\ m.op = call[c].op /\ m.step = call[c].step /\ m.session = call[c].session
           /\ m.bill = call[c].bill /\ m.tables = call[c].tables
           /\ m.sessionRow = call[c].sessionRow /\ m.billRow = call[c].billRow /\ m.todo = todo
<1>1. PICK m : m = With(call[c], call[c].step, call[c].sessionRow, call[c].billRow, call[c].bill, todo)
  OBVIOUS
<1>2. /\ m.op = call[c].op /\ m.step = call[c].step /\ m.session = call[c].session
      /\ m.bill = call[c].bill /\ m.tables = call[c].tables
      /\ m.sessionRow = call[c].sessionRow /\ m.billRow = call[c].billRow /\ m.todo = todo
  BY <1>1, WithFields
<1>3. call \in [Calls -> CallRecs]
  BY DEF Typed
<1>4. m \in CallRecs
  BY <1>1, CallFieldTypes, WithType
<1>5. call' = [call EXCEPT ![c] = m]
  BY <1>1, <1>3, SetTodoWith
<1>. QED  BY <1>2, <1>4, <1>5

(* ... and moves the call on *)
LEMMA StepTodoRecord ==
  ASSUME Typed, NEW c \in Calls, NEW st \in Steps,
         NEW todo \in SUBSET (Ids \X OrderType),
         call' = SetStepTodo(c, st, todo)
  PROVE  \E m \in CallRecs :
           /\ call' = [call EXCEPT ![c] = m]
           /\ m.op = call[c].op /\ m.step = st /\ m.session = call[c].session
           /\ m.bill = call[c].bill /\ m.tables = call[c].tables
           /\ m.sessionRow = call[c].sessionRow /\ m.billRow = call[c].billRow /\ m.todo = todo
<1>1. PICK m : m = With(call[c], st, call[c].sessionRow, call[c].billRow, call[c].bill, todo)
  OBVIOUS
<1>2. /\ m.op = call[c].op /\ m.step = st /\ m.session = call[c].session
      /\ m.bill = call[c].bill /\ m.tables = call[c].tables
      /\ m.sessionRow = call[c].sessionRow /\ m.billRow = call[c].billRow /\ m.todo = todo
  BY <1>1, WithFields
<1>3. call \in [Calls -> CallRecs]
  BY DEF Typed
<1>4. m \in CallRecs
  BY <1>1, CallFieldTypes, WithType
<1>5. call' = [call EXCEPT ![c] = m]
  BY <1>1, <1>3, SetStepTodoWith
<1>. QED  BY <1>2, <1>4, <1>5

(* Creating a session *)
LEMMA NewSessionType ==
  ASSUME NEW ts \in SUBSET Tables, NEW now \in Times
  PROVE  /\ NewSession(ts, now) \in SessionType /\ NewSession(ts, now).bill = NoBill
         /\ NewSession(ts, now).tables = ts /\ NewSession(ts, now).status = "live"
BY DEF NewSession, SessionType, Statuses, Bills

LEMMA FindsTablesFreeKnown == ASSUME Known, NEW c \in Calls, FindsTablesFree(c) PROVE Known'
<1>1. call[c].op = "create" /\ call[c].step = "read" /\ Reads
  BY DEF FindsTablesFree, At
<1>2. "putSession" \in Steps /\ Typed /\ CallOK(c, call[c])
  BY DEF Known, Steps
<1>3. PICK now \in Times :
        call' = SetSession(c, "putSession", NewSession(call[c].tables, now))
  BY DEF FindsTablesFree, SetSession
<1>4. PICK row \in SessionType : row = NewSession(call[c].tables, now) /\ row.bill = NoBill /\ row.status = "live"
  BY <1>2, CallFieldTypes, NewSessionType
<1>5. PICK m \in CallRecs :
        /\ call' = [call EXCEPT ![c] = m]
        /\ m.op = call[c].op /\ m.step = "putSession" /\ m.sessionRow = row /\ m.todo = call[c].todo
  BY <1>2, <1>3, <1>4, SessionRecord
<1>6. CallOK(c, m)
  BY <1>1, <1>2, <1>4, <1>5, ServiceAssumption
  DEF CallOK, NotYet, Asked, HoldsSession, HoldsNewBill, HoldsBill
<1>. QED  BY <1>1, <1>5, <1>6, ReadsKeep, ReadStep

LEMMA CreateSessionKnown == ASSUME Known, NEW c \in Calls, CreateSession(c) PROVE Known'
<1>1. /\ call[c].op = "create" /\ call[c].step = "putSession" /\ Goto(c, "putOrder")
      /\ PutSession(c, call[c].sessionRow) /\ Aside /\ UNCHANGED <<orders, bills>>
  BY DEF CreateSession, At
<1>2. "putOrder" \in Steps /\ Typed /\ CallOK(c, call[c])
  BY DEF Known, Steps
<1>3. PICK m \in CallRecs :
        /\ call' = [call EXCEPT ![c] = m]
        /\ m.op = call[c].op /\ m.step = "putOrder" /\ m.todo = call[c].todo
  BY <1>1, <1>2, StepRecord
<1>4. PICK row \in SessionType : row = call[c].sessionRow /\ row.bill = NoBill
  BY <1>1, <1>2, CallFieldTypes DEF CallOK, HoldsSession
<1>5. c \in Ids /\ SessionRowOK(c, row)
  BY <1>4 DEF SessionRowOK, Ids
<1>6. sessions[c] = NoRow /\ sessions'[c] # NoRow
  <2>1. sessions[c] = NoRow
    BY <1>1, <1>2 DEF CallOK, NotYet
  <2>2. sessions'[c] = row
    BY <1>1, <1>2, <1>4, <1>5 DEF PutSession, Typed
  <2>. QED  BY <2>1, <2>2, ServiceAssumption
<1>7. KeepsRows
  BY <1>1, <1>2, <1>4, <1>5, <1>6 DEF KeepsRows, PutSession, Typed
<1>8. \A r \in m.todo : (OrderRowOK(r[2]))'
  BY <1>2, <1>3, <1>7, OrderRowStays DEF CallOK
<1>9. CallOK(c, m)'
  BY <1>1, <1>3, <1>6, <1>8 DEF CallOK, NotYet, Asked, HoldsSession, HoldsNewBill, HoldsBill
<1>10. PutSession(c, row)
  BY <1>1, <1>4
<1>. QED  BY <1>1, <1>3, <1>5, <1>9, <1>10, SessionPut

LEMMA NewOrderType ==
  ASSUME NEW s \in Ids, NEW b \in Bills
  PROVE  NewOrder(s, b) \in OrderType /\ NewOrder(s, b).session = s /\ NewOrder(s, b).bill = b
BY DEF NewOrder, OrderType

LEMMA CreateFirstOrderKnown == ASSUME Known, NEW c \in Calls, CreateFirstOrder(c) PROVE Known'
<1>1. /\ call[c].op = "create" /\ call[c].step = "putOrder"
      /\ PutOrder(c, NewOrder(c, NoBill)) /\ Aside /\ UNCHANGED <<sessions, bills>>
      /\ call' = [call EXCEPT ![c] = Blank("done")]
  BY DEF CreateFirstOrder, At, Finish
<1>2. c \in Ids /\ NoBill \in Bills
  BY DEF Ids, Bills
<1>3. PICK row \in OrderType : row = NewOrder(c, NoBill) /\ row.session = c /\ row.bill = NoBill
  BY <1>2, NewOrderType
<1>4. OrderRowOK(row)
  BY <1>1, <1>2, <1>3 DEF OrderRowOK, SessionKnown, Known, CallOK, HoldsSession
<1>5. PutOrder(c, row)
  BY <1>1, <1>3
<1>6. Blank("done") \in CallRecs /\ CallOK(c, Blank("done"))'
  BY BlankOK
<1>. QED  BY <1>1, <1>2, <1>4, <1>5, <1>6, OrderPut

(* Putting a session back, as it was read and edited *)
LEMMA OpenIsRow == ASSUME NEW row, Open(row) PROVE row # NoRow
BY DEF Open

LEMMA AddOrderReadsKnown == ASSUME Known, NEW c \in Calls, AddOrderReads(c) PROVE Known'
<1>1. call[c].op = "addOrder" /\ call[c].step = "read" /\ Reads
  BY DEF AddOrderReads, At
<1>2. PICK row \in SeenSession(call[c].session) :
        IF Open(row) THEN call' = [call EXCEPT ![c].step = "putOrder", ![c].sessionRow = row]
                     ELSE Finish(c)
  BY DEF AddOrderReads
<1>3. "putOrder" \in Steps /\ Typed /\ CallOK(c, call[c])
  BY DEF Known, Steps
<1>4. SessionKnown(call[c].session) /\ call[c].session \in Ids
  BY <1>1, <1>3 DEF CallOK, Asked, SessionKnown
<1>5. row \in SessionType \cup {NoRow} /\ SessionRowOK(call[c].session, row)
  BY <1>4, SeesSession
<1>6. CASE Open(row)
  <2>1. row \in SessionType /\ row # NoRow
    BY <1>5, <1>6, OpenIsRow
  <2>2. call' = SetSession(c, "putOrder", row)
    BY <1>2, <1>6 DEF SetSession
  <2>3. PICK m \in CallRecs :
          /\ call' = [call EXCEPT ![c] = m]
          /\ m.op = call[c].op /\ m.step = "putOrder" /\ m.session = call[c].session
          /\ m.sessionRow = row /\ m.todo = call[c].todo
    BY <1>3, <2>1, <2>2, SessionRecord
  <2>4. CallOK(c, m)
    BY <1>1, <1>3, <1>4, <1>5, <2>1, <2>3
    DEF CallOK, NotYet, Asked, HoldsSession, HoldsNewBill, HoldsBill
  <2>. QED  BY <1>1, <2>3, <2>4, ReadsKeep, ReadStep
<1>7. CASE ~Open(row)
  BY <1>1, <1>2, <1>7, FinishReads
<1>. QED  BY <1>6, <1>7

LEMMA AddOrderPutsKnown == ASSUME Known, NEW c \in Calls, AddOrderPuts(c) PROVE Known'
<1>1. /\ call[c].op = "addOrder" /\ call[c].step = "putOrder" /\ Goto(c, "putSession")
      /\ PutOrder(c, NewOrder(call[c].session, call[c].sessionRow.bill))
      /\ Aside /\ UNCHANGED <<sessions, bills>>
  BY DEF AddOrderPuts, At
<1>2. "putSession" \in Steps /\ Typed /\ CallOK(c, call[c])
  BY DEF Known, Steps
<1>3. /\ SessionKnown(call[c].session) /\ call[c].session \in Ids
      /\ call[c].sessionRow # NoRow /\ SessionRowOK(call[c].session, call[c].sessionRow)
  BY <1>1, <1>2 DEF CallOK, Asked, SessionKnown, HoldsSession
<1>4. call[c].sessionRow.bill \in Bills
  BY <1>2, <1>3, CallFieldTypes DEF SessionType
<1>5. PICK row \in OrderType :
        /\ row = NewOrder(call[c].session, call[c].sessionRow.bill)
        /\ row.session = call[c].session /\ row.bill = call[c].sessionRow.bill
  BY <1>3, <1>4, NewOrderType
<1>6. OrderRowOK(row)
  BY <1>3, <1>5 DEF OrderRowOK, SessionRowOK
<1>7. PICK m \in CallRecs :
        /\ call' = [call EXCEPT ![c] = m]
        /\ m.op = call[c].op /\ m.step = "putSession" /\ m.session = call[c].session
        /\ m.sessionRow = call[c].sessionRow /\ m.todo = call[c].todo
  BY <1>1, <1>2, StepRecord
<1>8. CallOK(c, m)
  BY <1>1, <1>2, <1>3, <1>7 DEF CallOK, NotYet, Asked, HoldsSession, HoldsNewBill, HoldsBill
<1>9. KeepsRows /\ NotYet(c, m)'
  BY <1>1, <1>7 DEF KeepsRows, NotYet
<1>10. CallOK(c, m)'
  BY <1>8, <1>9, CallStays
<1>11. c \in Ids /\ PutOrder(c, row)
  BY <1>1, <1>5 DEF Ids
<1>. QED  BY <1>1, <1>6, <1>7, <1>10, <1>11, OrderPut

(* A row of a session with other tables, or closed, refers to the same bill. *)
LEMMA SessionEdits ==
  ASSUME NEW row \in SessionType, NEW ts \in SUBSET Tables
  PROVE  /\ [row EXCEPT !.tables = IF ts = {} THEN @ ELSE ts] \in SessionType
         /\ [row EXCEPT !.tables = IF ts = {} THEN @ ELSE ts].bill = row.bill
         /\ [row EXCEPT !.tables = IF ts = {} THEN @ ELSE ts].status = row.status
         /\ [row EXCEPT !.status = "closed"] \in SessionType
         /\ [row EXCEPT !.status = "closed"].bill = row.bill
         /\ [row EXCEPT !.status = "closed"].status = "closed"
<1>1. PICK u : u = IF ts = {} THEN row.tables ELSE ts
  OBVIOUS
<1>2. u \in SUBSET Tables
  BY <1>1 DEF SessionType
<1>. QED  BY <1>1, <1>2 DEF SessionType, Statuses

LEMMA UpdateSessionReadsKnown == ASSUME Known, NEW c \in Calls, UpdateSessionReads(c) PROVE Known'
<1>1. call[c].op = "updateSession" /\ call[c].step = "read" /\ Reads
  BY DEF UpdateSessionReads, At
<1>2. PICK row \in SeenSession(call[c].session) :
        IF Open(row)
          THEN call' = SetSession(c, "putSession",
                 [row EXCEPT !.tables = IF call[c].tables = {} THEN @ ELSE call[c].tables])
          ELSE Finish(c)
  BY DEF UpdateSessionReads, SetSession
<1>3. "putSession" \in Steps /\ Typed /\ CallOK(c, call[c])
  BY DEF Known, Steps
<1>4. SessionKnown(call[c].session) /\ call[c].session \in Ids
  BY <1>1, <1>3 DEF CallOK, Asked, SessionKnown
<1>5. row \in SessionType \cup {NoRow} /\ SessionRowOK(call[c].session, row)
  BY <1>4, SeesSession
<1>6. CASE Open(row)
  <2>1. row \in SessionType /\ row # NoRow /\ call[c].tables \in SUBSET Tables
    BY <1>3, <1>5, <1>6, OpenIsRow, CallFieldTypes
  <2>2. PICK new : new = [row EXCEPT !.tables = IF call[c].tables = {} THEN @ ELSE call[c].tables]
    OBVIOUS
  <2>3. new \in SessionType /\ new.bill = row.bill
    BY <2>1, <2>2, SessionEdits
  <2>4. call' = SetSession(c, "putSession", new)
    BY <1>2, <1>6, <2>2
  <2>5. PICK m \in CallRecs :
          /\ call' = [call EXCEPT ![c] = m]
          /\ m.op = call[c].op /\ m.step = "putSession" /\ m.session = call[c].session
          /\ m.sessionRow = new /\ m.todo = call[c].todo
    BY <1>3, <2>3, <2>4, SessionRecord
  <2>6. new # NoRow /\ SessionRowOK(call[c].session, new)
    BY <1>5, <2>1, <2>3, ServiceAssumption DEF SessionRowOK
  <2>7. CallOK(c, m)
    BY <1>1, <1>3, <1>4, <2>5, <2>6
    DEF CallOK, NotYet, Asked, HoldsSession, HoldsNewBill, HoldsBill
  <2>. QED  BY <1>1, <2>5, <2>7, ReadsKeep, ReadStep
<1>7. CASE ~Open(row)
  BY <1>1, <1>2, <1>7, FinishReads
<1>. QED  BY <1>6, <1>7

LEMMA PutSessionBackKnown == ASSUME Known, NEW c \in Calls, PutSessionBack(c) PROVE Known'
<1>1. /\ call[c].op \in {"addOrder", "updateSession", "closeTable"}
      /\ call[c].step = "putSession"
      /\ PutSession(call[c].session, call[c].sessionRow)
      /\ call' = [call EXCEPT ![c] = Blank("done")]
      /\ Aside /\ UNCHANGED <<orders, bills>>
  BY DEF PutSessionBack, Finish
<1>2. Typed /\ CallOK(c, call[c])
  BY DEF Known
<1>3. /\ call[c].session \in Ids /\ sessions[call[c].session] # NoRow
      /\ call[c].sessionRow # NoRow /\ SessionRowOK(call[c].session, call[c].sessionRow)
  BY <1>1, <1>2 DEF CallOK, Asked, HoldsSession, SessionKnown
<1>4. call[c].sessionRow \in SessionType
  BY <1>2, <1>3, CallFieldTypes
<1>5. Blank("done") \in CallRecs /\ CallOK(c, Blank("done"))'
  BY BlankOK
<1>. QED  BY <1>1, <1>3, <1>4, <1>5, SessionPut

(* StartBill *)
LEMMA NewBillType ==
  ASSUME NEW s \in Ids
  PROVE  NewBill(s) \in BillType /\ NewBill(s).session = s
BY DEF NewBill, BillType

LEMMA BilledRow ==
  ASSUME NEW row \in SessionType, NEW b \in Calls
  PROVE  /\ [row EXCEPT !.bill = b, !.status = "billing"] \in SessionType
         /\ [row EXCEPT !.bill = b, !.status = "billing"].bill = b
         /\ [row EXCEPT !.bill = b, !.status = "billing"].status = "billing"
BY DEF SessionType, Statuses, Bills

LEMMA StartBillReadsKnown == ASSUME Known, NEW c \in Calls, StartBillReads(c) PROVE Known'
<1>1. call[c].op = "startBill" /\ call[c].step = "read" /\ Reads
  BY DEF StartBillReads, At
<1>2. PICK row \in SeenSession(call[c].session) :
        IF row = NoRow THEN Finish(c) ELSE \E billRow \in SeenBillOf(row) :
          IF AlreadyBilled(row, billRow) THEN Finish(c) ELSE
            call' = SetBoth(c, "putBill", [row EXCEPT !.bill = c, !.status = "billing"],
                            NewBill(call[c].session))
  BY DEF StartBillReads, SetBoth, FirstPut
<1>3. "putBill" \in Steps /\ Typed /\ CallOK(c, call[c])
  BY DEF Known, Steps
<1>4. SessionKnown(call[c].session) /\ call[c].session \in Ids
  BY <1>1, <1>3 DEF CallOK, Asked, SessionKnown
<1>5. row \in SessionType \cup {NoRow}
  BY <1>4, SeesSession
<1>6. ASSUME row # NoRow,
             call' = SetBoth(c, "putBill", [row EXCEPT !.bill = c, !.status = "billing"],
                             NewBill(call[c].session))
      PROVE  Known'
  <2>1. PICK new : new = [row EXCEPT !.bill = c, !.status = "billing"]
    OBVIOUS
  <2>2. new \in SessionType /\ new.bill = c /\ new # NoRow
    BY <1>5, <1>6, <2>1, BilledRow, ServiceAssumption
  <2>3. PICK bill \in BillType :
          bill = NewBill(call[c].session) /\ bill.session = call[c].session /\ bill # NoRow
    BY <1>4, NewBillType, ServiceAssumption
  <2>4. call' = SetBoth(c, "putBill", new, bill)
    BY <1>6, <2>1, <2>3
  <2>5. PICK m \in CallRecs :
          /\ call' = [call EXCEPT ![c] = m]
          /\ m.op = call[c].op /\ m.step = "putBill" /\ m.session = call[c].session
          /\ m.sessionRow = new /\ m.billRow = bill /\ m.todo = call[c].todo
    BY <1>3, <2>2, <2>3, <2>4, BothRecord
  <2>6. CallOK(c, m)
    BY <1>1, <1>3, <1>4, <2>2, <2>3, <2>5
    DEF CallOK, NotYet, Asked, HoldsSession, HoldsNewBill, HoldsBill
  <2>. QED  BY <1>1, <2>5, <2>6, ReadsKeep, ReadStep
<1>7. CASE Finish(c)
  BY <1>1, <1>7, FinishReads
<1>. QED  BY <1>2, <1>6, <1>7

LEMMA StartBillPutsBillKnown == ASSUME Known, NEW c \in Calls, StartBillPutsBill(c) PROVE Known'
<1>1. /\ call[c].op = "startBill" /\ call[c].step = "putBill" /\ Goto(c, "putSession")
      /\ PutBill(c, call[c].billRow) /\ Aside /\ UNCHANGED <<sessions, orders>>
  BY DEF StartBillPutsBill, At
<1>2. "putSession" \in Steps /\ Typed /\ CallOK(c, call[c])
  BY DEF Known, Steps
<1>3. PICK m \in CallRecs :
        /\ call' = [call EXCEPT ![c] = m]
        /\ m.op = call[c].op /\ m.step = "putSession" /\ m.session = call[c].session
        /\ m.sessionRow = call[c].sessionRow /\ m.billRow = call[c].billRow
        /\ m.todo = call[c].todo
  BY <1>1, <1>2, StepRecord
<1>4. /\ SessionKnown(call[c].session) /\ bills[c] = NoRow
      /\ call[c].sessionRow # NoRow /\ call[c].sessionRow.bill = c
      /\ call[c].billRow # NoRow /\ call[c].billRow.session = call[c].session
  BY <1>1, <1>2 DEF CallOK, NotYet, Asked, HoldsNewBill
<1>5. PICK row \in BillType : row = call[c].billRow
  BY <1>2, <1>4, CallFieldTypes
<1>6. PutBill(c, row) /\ SessionKnown(row.session)
  BY <1>1, <1>4, <1>5
<1>7. bills'[c] = row /\ \A b \in Calls : b # c => bills'[b] = bills[b]
  BY <1>2, <1>6 DEF PutBill, Typed
<1>8. KeepsRows
  BY <1>1, <1>4, <1>7 DEF KeepsRows
<1>9. BillOf(c, m.session)'
  BY <1>3, <1>4, <1>5, <1>7, ServiceAssumption DEF BillOf
<1>10. \A r \in m.todo : (OrderRowOK(r[2]))'
  BY <1>2, <1>3, <1>8, OrderRowStays DEF CallOK
<1>11. SessionKnown(m.session)'
  BY <1>1, <1>3, <1>4 DEF SessionKnown
<1>12. CallOK(c, m)'
  BY <1>1, <1>3, <1>4, <1>9, <1>10, <1>11
  DEF CallOK, NotYet, Asked, HoldsSession, HoldsNewBill, HoldsBill
<1>. QED  BY <1>1, <1>3, <1>4, <1>6, <1>12, BillPut

LEMMA StartBillPutsSessionKnown ==
  ASSUME Known, NEW c \in Calls, StartBillPutsSession(c) PROVE Known'
<1>1. /\ call[c].op = "startBill" /\ call[c].step = "putSession" /\ Goto(c, "readOrders")
      /\ PutSession(call[c].session, call[c].sessionRow) /\ Aside /\ UNCHANGED <<orders, bills>>
  BY DEF StartBillPutsSession, At
<1>2. "readOrders" \in Steps /\ Typed /\ CallOK(c, call[c])
  BY DEF Known, Steps
<1>3. PICK m \in CallRecs :
        /\ call' = [call EXCEPT ![c] = m]
        /\ m.op = call[c].op /\ m.step = "readOrders" /\ m.session = call[c].session
        /\ m.sessionRow = call[c].sessionRow /\ m.billRow = call[c].billRow
        /\ m.todo = call[c].todo
  BY <1>1, <1>2, StepRecord
<1>4. /\ SessionKnown(call[c].session) /\ call[c].session \in Ids
      /\ sessions[call[c].session] # NoRow
      /\ call[c].sessionRow # NoRow /\ call[c].sessionRow.bill = c
      /\ BillOf(c, call[c].session)
  BY <1>1, <1>2 DEF CallOK, Asked, HoldsNewBill, SessionKnown
<1>5. PICK row \in SessionType : row = call[c].sessionRow
  BY <1>2, <1>4, CallFieldTypes
<1>6. SessionRowOK(call[c].session, row)
  BY <1>4, <1>5 DEF SessionRowOK
<1>7. CallOK(c, m)
  BY <1>1, <1>2, <1>3 DEF CallOK, NotYet, Asked, HoldsSession, HoldsNewBill, HoldsBill
<1>8. KeepsRows
  <2>1. row # NoRow
    BY ServiceAssumption
  <2>. QED  BY <1>1, <1>2, <1>4, <1>5, <2>1 DEF KeepsRows, PutSession, Typed
<1>9. NotYet(c, m)'
  BY <1>1, <1>3 DEF NotYet
<1>10. CallOK(c, m)'
  BY <1>7, <1>8, <1>9, CallStays
<1>. QED  BY <1>1, <1>3, <1>4, <1>5, <1>6, <1>10, SessionPut

LEMMA StampedRowOK ==
  ASSUME Known, NEW c \in Calls, NEW s, BillOf(c, s), NEW r \in Rows(s)
  PROVE  <<r[1], Stamped(r[2], c)>> \in Rows(s)
<1>1. r[1] \in Ids /\ r[2] \in OrderType /\ OrderRowOK(r[2]) /\ r[2].session = s /\ r[2] # NoRow
  BY ServiceAssumption DEF Rows
<1>2. PICK new \in OrderType :
        new = Stamped(r[2], c) /\ new.session = s /\ new.bill = c
  BY <1>1, StampedType DEF Bills
<1>3. OrderRowOK(new)
  BY <1>1, <1>2 DEF OrderRowOK
<1>. QED  BY <1>1, <1>2, <1>3 DEF Rows

LEMMA StartBillReadsOrdersKnown ==
  ASSUME Known, NEW c \in Calls, StartBillReadsOrders(c) PROVE Known'
<1>1. call[c].op = "startBill" /\ call[c].step = "readOrders" /\ Reads
  BY DEF StartBillReadsOrders, At
<1>2. PICK rows \in SeenOrders(call[c].session) :
        call' = SetStamped(c, "putOrders", c, SumOfPrices(rows),
                           {<<r[1], [r[2] EXCEPT !.bill = c]>> : r \in rows})
  BY DEF StartBillReadsOrders, SetStamped
<1>3. "putOrders" \in Steps /\ Typed /\ CallOK(c, call[c]) /\ c \in Bills
  BY DEF Known, Steps, Bills
<1>4. /\ BillOf(c, call[c].session) /\ SessionKnown(call[c].session)
      /\ call[c].billRow # NoRow /\ call[c].billRow.session = call[c].session
  BY <1>1, <1>3 DEF CallOK, Asked, HoldsNewBill
<1>5. rows \subseteq Rows(call[c].session) /\ IsFiniteSet(rows)
  BY SeesOrders
<1>6. PICK todo : todo = {<<r[1], Stamped(r[2], c)>> : r \in rows}
  OBVIOUS
<1>7. todo \subseteq Rows(call[c].session)
  BY <1>4, <1>5, <1>6, StampedRowOK
<1>8. /\ todo \in SUBSET (Ids \X OrderType) /\ \A r \in todo : OrderRowOK(r[2])
      /\ rows \subseteq Ids \X OrderType
  BY <1>5, <1>7 DEF Rows
<1>9. PICK n \in Nat : n = SumOfPrices(rows)
  BY <1>5, <1>8, SumsAreNat
<1>10. call[c].billRow \in BillType
  BY <1>3, <1>4, CallFieldTypes
<1>11. call' = SetStamped(c, "putOrders", c, n, todo)
  BY <1>2, <1>6, <1>9 DEF Stamped
<1>12. PICK m \in CallRecs :
        /\ call' = [call EXCEPT ![c] = m]
        /\ m.op = call[c].op /\ m.step = "putOrders" /\ m.session = call[c].session
        /\ m.bill = c /\ m.billRow = Totalled(call[c].billRow, n) /\ m.todo = todo
  BY <1>3, <1>8, <1>10, <1>11, StampedRecord
<1>13. m.billRow.session = call[c].session /\ m.billRow # NoRow
  BY <1>4, <1>10, <1>12, TotalledType, ServiceAssumption
<1>14. CallOK(c, m)
  BY <1>1, <1>3, <1>4, <1>8, <1>12, <1>13
  DEF CallOK, NotYet, Asked, HoldsSession, HoldsNewBill, HoldsBill
<1>. QED  BY <1>1, <1>12, <1>14, ReadsKeep, ReadStep

(* The loop of StartBill and UpdateBill, and its end *)
LEMMA PutNextOrderKnown == ASSUME Known, NEW c \in Calls, PutNextOrder(c) PROVE Known'
<1>1. /\ call[c].step = "putOrders" /\ Aside /\ UNCHANGED <<sessions, bills>>
  BY DEF PutNextOrder
<1>2. PICK r \in call[c].todo :
        PutOrder(r[1], r[2]) /\ call' = SetTodo(c, call[c].todo \ {r})
  BY DEF PutNextOrder, SetTodo
<1>3. Typed /\ CallOK(c, call[c])
  BY DEF Known
<1>4. r[1] \in Ids /\ r[2] \in OrderType /\ OrderRowOK(r[2])
  BY <1>3, CallFieldTypes DEF CallOK
<1>5. PICK todo : todo = call[c].todo \ {r}
  OBVIOUS
<1>6. todo \in SUBSET (Ids \X OrderType) /\ todo \subseteq call[c].todo
  BY <1>3, <1>5, CallFieldTypes
<1>11. call' = SetTodo(c, todo)
  BY <1>2, <1>5
<1>7. PICK m \in CallRecs :
        /\ call' = [call EXCEPT ![c] = m]
        /\ m.op = call[c].op /\ m.step = call[c].step /\ m.session = call[c].session
        /\ m.bill = call[c].bill /\ m.tables = call[c].tables
        /\ m.sessionRow = call[c].sessionRow /\ m.billRow = call[c].billRow /\ m.todo = todo
  <2>1. todo \in SUBSET (Ids \X OrderType)
    BY <1>6
  <2>. QED  BY <1>3, <1>11, <2>1, TodoRecord
<1>8. CallOK(c, m)
  BY <1>1, <1>3, <1>6, <1>7 DEF CallOK, NotYet, Asked, HoldsSession, HoldsNewBill, HoldsBill
<1>9. KeepsRows /\ NotYet(c, m)'
  BY <1>1, <1>7, <1>8 DEF KeepsRows, NotYet, CallOK
<1>10. CallOK(c, m)'
  BY <1>8, <1>9, CallStays
<1>. QED  BY <1>1, <1>2, <1>4, <1>7, <1>10, OrderPut

LEMMA PutTotalKnown == ASSUME Known, NEW c \in Calls, PutTotal(c) PROVE Known'
<1>1. /\ call[c].step = "putOrders" /\ PutBill(call[c].bill, call[c].billRow)
      /\ call' = [call EXCEPT ![c] = Blank("done")] /\ Aside /\ UNCHANGED <<sessions, orders>>
  BY DEF PutTotal, Finish
<1>2. Typed /\ CallOK(c, call[c])
  BY DEF Known
<1>3. call[c].billRow # NoRow /\ BillOf(call[c].bill, call[c].billRow.session)
  BY <1>1, <1>2 DEF CallOK, HoldsNewBill, HoldsBill
<1>4. PICK row \in BillType : row = call[c].billRow
  BY <1>2, <1>3, CallFieldTypes
<1>5. call[c].bill \in Calls /\ BillOf(call[c].bill, row.session)
  BY <1>3, <1>4 DEF BillOf
<1>6. SessionKnown(row.session)
  BY <1>5 DEF Known, RowsOK, BillRowOK, BillOf
<1>7. Blank("done") \in CallRecs /\ CallOK(c, Blank("done"))'
  BY BlankOK
<1>. QED  BY <1>1, <1>4, <1>5, <1>6, <1>7, BillPut

(* UpdateBill and the invoice-number endpoint *)

(* A bill's row, paid or numbered, is still a bill of its session. *)
LEMMA BillEdits ==
  ASSUME NEW row \in BillType
  PROVE  /\ \A paid \in BOOLEAN : /\ [row EXCEPT !.paid = paid] \in BillType
                                  /\ [row EXCEPT !.paid = paid].session = row.session
                                  /\ [row EXCEPT !.paid = paid].paid = paid
         /\ [row EXCEPT !.numbered = TRUE] \in BillType
         /\ [row EXCEPT !.numbered = TRUE].session = row.session
BY DEF BillType

LEMMA PaidIsBoolean == ASSUME NEW row \in BillType PROVE row.paid \in BOOLEAN
BY DEF BillType

LEMMA UpdateBillReadsKnown == ASSUME Known, NEW c \in Calls, UpdateBillReads(c) PROVE Known'
<1>1. call[c].op = "updateBill" /\ call[c].step = "read" /\ Reads
  BY DEF UpdateBillReads, At
<1>2. PICK row \in SeenBill(call[c].bill) :
        IF row = NoRow THEN Finish(c)
        ELSE \E paid \in {row.paid, TRUE, FALSE} :
               call' = SetBill(c, "readOrders", [row EXCEPT !.paid = paid])
  BY DEF UpdateBillReads, SetBill
<1>3. "readOrders" \in Steps /\ Typed /\ CallOK(c, call[c])
  BY DEF Known, Steps
<1>4. call[c].bill \in Calls /\ bills[call[c].bill] # NoRow
  BY <1>1, <1>3 DEF CallOK, Asked
<1>5. row \in BillType \cup {NoRow} /\ BillRowOK(call[c].bill, row)
  BY <1>4, SeesBill
<1>6. CASE row # NoRow
  <2>1. row \in BillType /\ BillOf(call[c].bill, row.session)
    BY <1>5, <1>6 DEF BillRowOK
  <2>2. PICK paid \in {row.paid, TRUE, FALSE} :
          call' = SetBill(c, "readOrders", [row EXCEPT !.paid = paid])
    BY <1>2, <1>6
  <2>3. paid \in BOOLEAN
    BY <2>1, <2>2, PaidIsBoolean
  <2>4. PICK new : new = [row EXCEPT !.paid = paid]
    OBVIOUS
  <2>5. new \in BillType /\ new.session = row.session /\ new # NoRow
    BY <2>1, <2>3, <2>4, BillEdits, ServiceAssumption
  <2>6. call' = SetBill(c, "readOrders", new)
    BY <2>2, <2>4
  <2>7. PICK m \in CallRecs :
          /\ call' = [call EXCEPT ![c] = m]
          /\ m.op = call[c].op /\ m.step = "readOrders" /\ m.session = call[c].session
          /\ m.bill = call[c].bill /\ m.billRow = new /\ m.todo = call[c].todo
    BY <1>3, <2>5, <2>6, BillRecord
  <2>8. CallOK(c, m)
    BY <1>1, <1>3, <1>4, <2>1, <2>5, <2>7
    DEF CallOK, NotYet, Asked, HoldsSession, HoldsNewBill, HoldsBill
  <2>. QED  BY <1>1, <2>7, <2>8, ReadsKeep, ReadStep
<1>7. CASE row = NoRow
  BY <1>1, <1>2, <1>7, FinishReads
<1>. QED  BY <1>6, <1>7

(* What UpdateBill has in memory when its orders have been read *)
LEMMA TotalledKnown ==
  ASSUME Known, NEW c \in Calls, At(c, "updateBill", "readOrders"),
         NEW m \in CallRecs, NEW n \in Nat,
         m.op = call[c].op, m.step = "putOrders", m.bill = call[c].bill,
         m.billRow = Totalled(call[c].billRow, n), \A r \in m.todo : OrderRowOK(r[2])
  PROVE  CallOK(c, m)
<1>1. call[c].op = "updateBill" /\ call[c].step = "readOrders" /\ Typed /\ CallOK(c, call[c])
  BY DEF Known, At
<1>2. /\ call[c].billRow # NoRow /\ BillOf(call[c].bill, call[c].billRow.session)
      /\ call[c].bill \in Calls /\ bills[call[c].bill] # NoRow
  BY <1>1 DEF CallOK, Asked, HoldsBill
<1>3. call[c].billRow \in BillType
  BY <1>1, <1>2, CallFieldTypes
<1>4. m.billRow # NoRow /\ m.billRow.session = call[c].billRow.session
  BY <1>3, TotalledType, ServiceAssumption
<1>. QED  BY <1>1, <1>2, <1>4 DEF CallOK, NotYet, Asked, HoldsSession, HoldsNewBill, HoldsBill

LEMMA UpdateBillReadsOrdersKnown ==
  ASSUME Known, NEW c \in Calls, UpdateBillReadsOrders(c) PROVE Known'
<1>1. /\ At(c, "updateBill", "readOrders") /\ Reads
      /\ call[c].op = "updateBill" /\ call[c].step = "readOrders"
  BY DEF UpdateBillReadsOrders, At
<1>2. PICK rows \in SeenOrders(call[c].billRow.session) :
        \/ call' = SetTotal(c, "putOrders", SumOfLines(rows))
        \/ \E r \in rows, p \in Prices :
             call' = SetTotalTodo(c, "putOrders", SumOfLines(EditedRows(rows, r[1], p)),
                                  EditedRows(rows, r[1], p))
  BY DEF UpdateBillReadsOrders, SetTotal, SetTotalTodo
<1>3. "putOrders" \in Steps /\ Typed /\ CallOK(c, call[c])
  BY DEF Known, Steps
<1>4. call[c].billRow \in BillType
  BY <1>1, <1>3, CallFieldTypes DEF CallOK, HoldsBill
<1>5. rows \subseteq Rows(call[c].billRow.session) /\ IsFiniteSet(rows)
  BY SeesOrders
<1>6. CASE call' = SetTotal(c, "putOrders", SumOfLines(rows))
  <2>1. PICK n \in Nat : n = SumOfLines(rows)
    BY <1>5, SumsAreNat DEF Rows
  <2>2. call' = SetTotal(c, "putOrders", n)
    BY <1>6, <2>1
  <2>3. PICK m \in CallRecs :
          /\ call' = [call EXCEPT ![c] = m]
          /\ m.op = call[c].op /\ m.step = "putOrders" /\ m.bill = call[c].bill
          /\ m.billRow = Totalled(call[c].billRow, n) /\ m.todo = call[c].todo
    BY <1>3, <1>4, <2>2, TotalRecord
  <2>4. \A r \in m.todo : OrderRowOK(r[2])
    BY <1>3, <2>3 DEF CallOK
  <2>5. CallOK(c, m)
    BY <1>1, <2>3, <2>4, TotalledKnown
  <2>. QED  BY <1>1, <2>3, <2>5, ReadsKeep, ReadStep
<1>7. ASSUME NEW r \in rows, NEW p \in Prices,
             call' = SetTotalTodo(c, "putOrders", SumOfLines(EditedRows(rows, r[1], p)),
                                  EditedRows(rows, r[1], p))
      PROVE  Known'
  <2>1. PICK o : o = r[1]
    OBVIOUS
  <2>2. p \in Nat
    BY ServiceAssumption
  <2>3. PICK todo : todo = EditedRows(rows, o, p)
    OBVIOUS
  <2>4. todo \subseteq Rows(call[c].billRow.session) /\ IsFiniteSet(todo)
    BY <1>5, <2>2, <2>3, EditedRowsOK
  <2>5. todo \subseteq Ids \X OrderType /\ \A q \in todo : OrderRowOK(q[2])
    BY <2>4 DEF Rows
  <2>6. PICK n \in Nat : n = SumOfLines(todo)
    BY <2>4, <2>5, SumsAreNat
  <2>7. call' = SetTotalTodo(c, "putOrders", n, todo)
    BY <1>7, <2>1, <2>3, <2>6
  <2>8. todo \in SUBSET (Ids \X OrderType)
    BY <2>5
  <2>9. PICK m \in CallRecs :
          /\ call' = [call EXCEPT ![c] = m]
          /\ m.op = call[c].op /\ m.step = "putOrders" /\ m.bill = call[c].bill
          /\ m.billRow = Totalled(call[c].billRow, n) /\ m.todo = todo
    BY <1>3, <1>4, <2>7, <2>8, TotalTodoRecord
  <2>10. CallOK(c, m)
    BY <1>1, <2>5, <2>9, TotalledKnown
  <2>. QED  BY <1>1, <2>9, <2>10, ReadsKeep, ReadStep
<1>. QED  BY <1>2, <1>6, <1>7

LEMMA NumberReadsKnown == ASSUME Known, NEW c \in Calls, NumberReads(c) PROVE Known'
<1>1. call[c].op = "number" /\ call[c].step = "read" /\ Reads
  BY DEF NumberReads, At
<1>2. PICK row \in SeenBill(call[c].bill) :
        IF row = NoRow THEN Finish(c)
        ELSE call' = SetBill(c, "putBill", [row EXCEPT !.numbered = TRUE])
  BY DEF NumberReads, SetBill
<1>3. "putBill" \in Steps /\ Typed /\ CallOK(c, call[c])
  BY DEF Known, Steps
<1>4. call[c].bill \in Calls /\ bills[call[c].bill] # NoRow
  BY <1>1, <1>3 DEF CallOK, Asked
<1>5. row \in BillType \cup {NoRow} /\ BillRowOK(call[c].bill, row)
  BY <1>4, SeesBill
<1>6. CASE row # NoRow
  <2>1. row \in BillType /\ BillOf(call[c].bill, row.session)
    BY <1>5, <1>6 DEF BillRowOK
  <2>2. PICK new : new = [row EXCEPT !.numbered = TRUE]
    OBVIOUS
  <2>3. new \in BillType /\ new.session = row.session /\ new # NoRow
    BY <2>1, <2>2, BillEdits, ServiceAssumption
  <2>4. call' = SetBill(c, "putBill", new)
    BY <1>2, <1>6, <2>2
  <2>5. PICK m \in CallRecs :
          /\ call' = [call EXCEPT ![c] = m]
          /\ m.op = call[c].op /\ m.step = "putBill" /\ m.session = call[c].session
          /\ m.bill = call[c].bill /\ m.billRow = new /\ m.todo = call[c].todo
    BY <1>3, <2>3, <2>4, BillRecord
  <2>6. CallOK(c, m)
    BY <1>1, <1>3, <1>4, <2>1, <2>3, <2>5
    DEF CallOK, NotYet, Asked, HoldsSession, HoldsNewBill, HoldsBill
  <2>. QED  BY <1>1, <2>5, <2>6, ReadsKeep, ReadStep
<1>7. CASE row = NoRow
  BY <1>1, <1>2, <1>7, FinishReads
<1>. QED  BY <1>6, <1>7

LEMMA NumberPutsKnown == ASSUME Known, NEW c \in Calls, NumberPuts(c) PROVE Known'
<1>1. /\ call[c].op = "number" /\ call[c].step = "putBill"
      /\ PutBill(call[c].bill, call[c].billRow)
      /\ call' = [call EXCEPT ![c] = Blank("done")] /\ Aside /\ UNCHANGED <<sessions, orders>>
  BY DEF NumberPuts, Finish, At
<1>2. Typed /\ CallOK(c, call[c])
  BY DEF Known
<1>3. call[c].billRow # NoRow /\ BillOf(call[c].bill, call[c].billRow.session)
  BY <1>1, <1>2 DEF CallOK, HoldsBill
<1>4. PICK row \in BillType : row = call[c].billRow
  BY <1>2, <1>3, CallFieldTypes
<1>5. call[c].bill \in Calls /\ BillOf(call[c].bill, row.session)
  BY <1>3, <1>4 DEF BillOf
<1>6. SessionKnown(row.session)
  BY <1>5 DEF Known, RowsOK, BillRowOK, BillOf
<1>7. Blank("done") \in CallRecs /\ CallOK(c, Blank("done"))'
  BY BlankOK
<1>. QED  BY <1>1, <1>4, <1>5, <1>6, <1>7, BillPut

(* CloseTable *)
LEMMA CloseReadsSessionKnown ==
  ASSUME Known, NEW c \in Calls, CloseReadsSession(c) PROVE Known'
<1>1. call[c].op = "closeTable" /\ call[c].step = "read" /\ Reads
  BY DEF CloseReadsSession, At
<1>2. PICK row \in SeenSession(call[c].session) :
        IF row # NoRow /\ BillMatches(row, call[c].bill)
          THEN call' = SetSession(c, "readBill", [row EXCEPT !.status = "closed"])
          ELSE Finish(c)
  BY DEF CloseReadsSession, SetSession
<1>3. "readBill" \in Steps /\ Typed /\ CallOK(c, call[c])
  BY DEF Known, Steps
<1>4. SessionKnown(call[c].session) /\ call[c].session \in Ids
  BY <1>1, <1>3 DEF CallOK, Asked, SessionKnown
<1>5. row \in SessionType \cup {NoRow} /\ SessionRowOK(call[c].session, row)
  BY <1>4, SeesSession
<1>6. CASE row # NoRow /\ BillMatches(row, call[c].bill)
  <2>1. row \in SessionType /\ row # NoRow
    BY <1>5, <1>6
  <2>2. PICK new : new = [row EXCEPT !.status = "closed"]
    OBVIOUS
  <2>3. new \in SessionType /\ new.bill = row.bill
    BY <2>1, <2>2, SessionEdits
  <2>4. call' = SetSession(c, "readBill", new)
    BY <1>2, <1>6, <2>2
  <2>5. PICK m \in CallRecs :
          /\ call' = [call EXCEPT ![c] = m]
          /\ m.op = call[c].op /\ m.step = "readBill" /\ m.session = call[c].session
          /\ m.bill = call[c].bill /\ m.sessionRow = new /\ m.todo = call[c].todo
    BY <1>3, <2>3, <2>4, SessionRecord
  <2>6. new # NoRow /\ SessionRowOK(call[c].session, new)
    BY <1>5, <2>1, <2>3, ServiceAssumption DEF SessionRowOK
  <2>7. CallOK(c, m)
    BY <1>1, <1>3, <2>5, <2>6
    DEF CallOK, NotYet, Asked, HoldsSession, HoldsNewBill, HoldsBill
  <2>. QED  BY <1>1, <2>5, <2>7, ReadsKeep, ReadStep
<1>7. CASE ~(row # NoRow /\ BillMatches(row, call[c].bill))
  BY <1>1, <1>2, <1>7, FinishReads
<1>. QED  BY <1>6, <1>7

LEMMA CloseReadsBillKnown == ASSUME Known, NEW c \in Calls, CloseReadsBill(c) PROVE Known'
<1>1. call[c].op = "closeTable" /\ call[c].step = "readBill" /\ Reads
  BY DEF CloseReadsBill, At
<1>2. PICK row \in SeenBill(call[c].bill) :
        IF row = NoRow THEN Finish(c)
        ELSE call' = SetBill(c, "putBill", [row EXCEPT !.paid = TRUE])
  BY DEF CloseReadsBill, SetBill
<1>3. "putBill" \in Steps /\ Typed /\ CallOK(c, call[c])
  BY DEF Known, Steps
<1>4. call[c].bill \in Calls /\ bills[call[c].bill] # NoRow
  BY <1>1, <1>3 DEF CallOK, Asked
<1>5. row \in BillType \cup {NoRow} /\ BillRowOK(call[c].bill, row)
  BY <1>4, SeesBill
<1>6. CASE row # NoRow
  <2>1. row \in BillType /\ BillOf(call[c].bill, row.session)
    BY <1>5, <1>6 DEF BillRowOK
  <2>2. PICK new : new = [row EXCEPT !.paid = TRUE]
    OBVIOUS
  <2>3. new \in BillType /\ new.session = row.session /\ new # NoRow
    BY <2>1, <2>2, BillEdits, ServiceAssumption
  <2>4. call' = SetBill(c, "putBill", new)
    BY <1>2, <1>6, <2>2
  <2>5. PICK m \in CallRecs :
          /\ call' = [call EXCEPT ![c] = m]
          /\ m.op = call[c].op /\ m.step = "putBill" /\ m.session = call[c].session
          /\ m.bill = call[c].bill /\ m.sessionRow = call[c].sessionRow
          /\ m.billRow = new /\ m.todo = call[c].todo
    BY <1>3, <2>3, <2>4, BillRecord
  <2>6. CallOK(c, m)
    BY <1>1, <1>3, <1>4, <2>1, <2>3, <2>5
    DEF CallOK, NotYet, Asked, HoldsSession, HoldsNewBill, HoldsBill
  <2>. QED  BY <1>1, <2>5, <2>6, ReadsKeep, ReadStep
<1>7. CASE row = NoRow
  BY <1>1, <1>2, <1>7, FinishReads
<1>. QED  BY <1>6, <1>7

LEMMA ClosePutsBillKnown == ASSUME Known, NEW c \in Calls, ClosePutsBill(c) PROVE Known'
<1>1. /\ call[c].op = "closeTable" /\ call[c].step = "putBill" /\ Goto(c, "putSession")
      /\ PutBill(call[c].bill, call[c].billRow) /\ Aside /\ UNCHANGED <<sessions, orders>>
  BY DEF ClosePutsBill, At
<1>2. "putSession" \in Steps /\ Typed /\ CallOK(c, call[c])
  BY DEF Known, Steps
<1>3. /\ call[c].billRow # NoRow /\ BillOf(call[c].bill, call[c].billRow.session)
      /\ call[c].bill \in Calls /\ bills[call[c].bill] # NoRow
  BY <1>1, <1>2 DEF CallOK, HoldsBill, Asked
<1>4. PICK row \in BillType : row = call[c].billRow
  BY <1>2, <1>3, CallFieldTypes
<1>5. BillOf(call[c].bill, row.session) /\ PutBill(call[c].bill, row)
  BY <1>1, <1>3, <1>4
<1>6. SessionKnown(row.session)
  BY <1>3, <1>5 DEF Known, RowsOK, BillRowOK, BillOf
<1>7. PICK m \in CallRecs :
        /\ call' = [call EXCEPT ![c] = m]
        /\ m.op = call[c].op /\ m.step = "putSession" /\ m.session = call[c].session
        /\ m.bill = call[c].bill /\ m.sessionRow = call[c].sessionRow /\ m.todo = call[c].todo
  BY <1>1, <1>2, StepRecord
<1>8. CallOK(c, m)
  BY <1>1, <1>2, <1>7 DEF CallOK, NotYet, Asked, HoldsSession, HoldsNewBill, HoldsBill
<1>9. KeepsRows
  <2>1. row # NoRow
    BY ServiceAssumption
  <2>. QED  BY <1>1, <1>2, <1>3, <1>5, <2>1 DEF KeepsRows, PutBill, Typed, BillOf
<1>10. NotYet(c, m)'
  BY <1>1, <1>7 DEF NotYet
<1>11. CallOK(c, m)'
  BY <1>8, <1>9, <1>10, CallStays
<1>. QED  BY <1>1, <1>3, <1>5, <1>6, <1>7, <1>11, BillPut

(* UpdateOrder and the kitchen's patches *)
LEMMA OrderEdits ==
  ASSUME NEW row \in OrderType, NEW p \in Nat
  PROVE  \A e \in {[row EXCEPT !.price = p, !.lines = p],
                   [row EXCEPT !.price = p], [row EXCEPT !.lines = p]} :
           e \in OrderType /\ e.session = row.session /\ e.bill = row.bill
BY DEF OrderType

LEMMA EditReadsKnown == ASSUME Known, NEW c \in Calls, EditReads(c) PROVE Known'
<1>1. call[c].op = "editOrder" /\ call[c].step = "read" /\ Reads
  BY DEF EditReads, At
<1>12. PICK o \in Ids, p \in Prices :
         \E row \in SeenOrder(o) \ {NoRow} :
           \E edited \in {[row EXCEPT !.price = p, !.lines = p],
                          [row EXCEPT !.price = p], [row EXCEPT !.lines = p]} :
             call' = SetStepTodo(c, "putOrder", {<<o, edited>>})
  BY DEF EditReads, SetStepTodo
<1>13. PICK row \in SeenOrder(o) \ {NoRow} :
         \E edited \in {[row EXCEPT !.price = p, !.lines = p],
                        [row EXCEPT !.price = p], [row EXCEPT !.lines = p]} :
           call' = SetStepTodo(c, "putOrder", {<<o, edited>>})
  BY <1>12
<1>2. PICK edited \in {[row EXCEPT !.price = p, !.lines = p],
                       [row EXCEPT !.price = p], [row EXCEPT !.lines = p]} :
        call' = SetStepTodo(c, "putOrder", {<<o, edited>>})
  BY <1>13
<1>3. "putOrder" \in Steps /\ Typed /\ CallOK(c, call[c])
  BY DEF Known, Steps
<1>4. row \in OrderType /\ OrderRowOK(row) /\ row # NoRow
  BY <1>2, SeesOrder
<1>14. p \in Nat
  BY <1>2, ServiceAssumption
<1>5. edited \in OrderType /\ edited.session = row.session /\ edited.bill = row.bill
  BY <1>2, <1>4, <1>14, OrderEdits
<1>6. OrderRowOK(edited)
  BY <1>4, <1>5 DEF OrderRowOK
<1>7. PICK todo : todo = {<<o, edited>>}
  OBVIOUS
<1>8. /\ todo \in SUBSET (Ids \X OrderType) /\ \A r \in todo : OrderRowOK(r[2])
      /\ call' = SetStepTodo(c, "putOrder", todo)
  BY <1>2, <1>5, <1>6, <1>7
<1>9. PICK m \in CallRecs :
        /\ call' = [call EXCEPT ![c] = m]
        /\ m.op = call[c].op /\ m.step = "putOrder" /\ m.todo = todo
  BY <1>3, <1>8, StepTodoRecord
<1>10. CallOK(c, m)
  BY <1>1, <1>8, <1>9 DEF CallOK, NotYet, Asked, HoldsSession, HoldsNewBill, HoldsBill
<1>. QED  BY <1>1, <1>9, <1>10, ReadsKeep, ReadStep

LEMMA EditPutsKnown == ASSUME Known, NEW c \in Calls, EditPuts(c) PROVE Known'
<1>1. call' = [call EXCEPT ![c] = Blank("done")] /\ Aside /\ UNCHANGED <<sessions, bills>>
  BY DEF EditPuts, Finish
<1>2. PICK r \in call[c].todo : PutOrder(r[1], r[2])
  BY DEF EditPuts
<1>3. Typed /\ CallOK(c, call[c])
  BY DEF Known
<1>4. r[1] \in Ids /\ r[2] \in OrderType /\ OrderRowOK(r[2])
  BY <1>3, CallFieldTypes DEF CallOK
<1>5. Blank("done") \in CallRecs /\ CallOK(c, Blank("done"))'
  BY BlankOK
<1>. QED  BY <1>1, <1>2, <1>4, <1>5, OrderPut

-----------------------------------------------------------------------------
(* The first invariant: theorems *)

LEMMA StutterKnown == ASSUME Known, UNCHANGED vars PROVE Known'
<1>1. UNCHANGED <<sessions, orders, bills, stale, call, raced, died>>
  BY DEF vars, tables
<1>2. Typed' /\ RowsOK'
  BY <1>1 DEF Known, Typed, RowsOK, SessionRowOK, OrderRowOK, BillRowOK, SessionKnown, BillOf
<1>3. \A c \in Calls : CallOK(c, call[c])'
  BY <1>1 DEF Known, CallOK, NotYet, Asked, HoldsSession, HoldsNewBill, HoldsBill,
              SessionRowOK, OrderRowOK, SessionKnown, BillOf
<1>. QED  BY <1>2, <1>3 DEF Known

LEMMA NextKnown == Known /\ [Next]_vars => Known'
<1> SUFFICES ASSUME Known, [Next]_vars PROVE Known'
  OBVIOUS
<1>1. CASE UNCHANGED vars
  BY <1>1, StutterKnown
<1>2. CASE CatchUp
  BY <1>2, CatchUpKnown
<1>3. CASE AllDone
  BY <1>3, StutterKnown DEF AllDone
<1>4. ASSUME NEW c \in Calls, Start(c) \/ Step(c) \/ Die(c) PROVE Known'
  <2>1. CASE Start(c)
    BY <2>1, StartKnown
  <2>2. CASE Die(c)
    BY <2>2, FinishKnown DEF Die, Known, Typed
  <2>3. CASE FindsTableOpen(c)
    BY <2>3, FinishReads DEF FindsTableOpen
  <2>4. CASE FindsTablesFree(c) \/ CreateSession(c) \/ CreateFirstOrder(c)
    BY <2>4, FindsTablesFreeKnown, CreateSessionKnown, CreateFirstOrderKnown
  <2>5. CASE AddOrderReads(c) \/ AddOrderPuts(c) \/ UpdateSessionReads(c) \/ PutSessionBack(c)
    BY <2>5, AddOrderReadsKnown, AddOrderPutsKnown, UpdateSessionReadsKnown, PutSessionBackKnown
  <2>6. CASE StartBillReads(c) \/ StartBillPutsBill(c) \/ StartBillPutsSession(c)
    BY <2>6, StartBillReadsKnown, StartBillPutsBillKnown, StartBillPutsSessionKnown
  <2>7. CASE StartBillReadsOrders(c) \/ PutNextOrder(c) \/ PutTotal(c)
    BY <2>7, StartBillReadsOrdersKnown, PutNextOrderKnown, PutTotalKnown
  <2>8. CASE UpdateBillReads(c) \/ UpdateBillReadsOrders(c) \/ NumberReads(c) \/ NumberPuts(c)
    BY <2>8, UpdateBillReadsKnown, UpdateBillReadsOrdersKnown, NumberReadsKnown, NumberPutsKnown
  <2>9. CASE CloseReadsSession(c) \/ CloseReadsBill(c) \/ ClosePutsBill(c)
    BY <2>9, CloseReadsSessionKnown, CloseReadsBillKnown, ClosePutsBillKnown
  <2>10. CASE EditReads(c) \/ EditPuts(c)
    BY <2>10, EditReadsKnown, EditPutsKnown
  <2>. QED  BY <1>4, <2>1, <2>2, <2>3, <2>4, <2>5, <2>6, <2>7, <2>8, <2>9, <2>10 DEF Step
<1>. QED  BY <1>1, <1>2, <1>3, <1>4 DEF Next

THEOREM ServiceKnown == Spec => []Known
BY InitKnown, NextKnown, PTL DEF Spec

(* Every variable keeps its type. *)
THEOREM ServiceTypeOK == Spec => []TypeOK
<1>1. Known => TypeOK
  <2> SUFFICES ASSUME Known PROVE TypeOK
    OBVIOUS
  <2>1. Typed
    BY DEF Known
  <2>2. ASSUME NEW c \in Calls
        PROVE  CallFields(c) \in CallType /\ call[c].todo \subseteq Ids \X OrderType
    BY <2>1, CallFieldTypes DEF CallFields, CallType
  <2>3. stale \in StoreType
    BY <2>1 DEF Typed
  <2>4. /\ DOMAIN stale = {"sessions", "orders", "bills"}
        /\ stale.sessions \in [Ids -> SessionType \cup {NoRow}]
        /\ stale.orders \in [Ids -> OrderType \cup {NoRow}]
        /\ stale.bills \in [Calls -> BillType \cup {NoRow}]
    BY <2>3 DEF StoreType
  <2>. QED  BY <2>1, <2>2, <2>4 DEF TypeOK, Typed
<1>. QED  BY <1>1, ServiceKnown, PTL

(* The rows refer to rows (billing_service.go puts whole rows without a    *)
(* condition): a session's or an order's bill exists and is a bill of that *)
(* very session, and an order's session exists, after any race, stale read *)
(* or death half way.                                                      *)
THEOREM ServiceReferences == Spec => []References
<1>1. Known => References
  BY DEF Known, RowsOK, SessionRowOK, OrderRowOK, SessionKnown, BillOf, References
<1>. QED  BY <1>1, ServiceKnown, PTL

-----------------------------------------------------------------------------
(* The second invariant: what a step needs                                 *)

LEMMA StepMoves ==
  ASSUME NEW c \in Calls, Step(c)
  PROVE  c \in InFlight
BY DEF InFlight, Step, At, FindsTablesFree, FindsTableOpen, CreateSession, CreateFirstOrder,
       AddOrderReads, AddOrderPuts, UpdateSessionReads, PutSessionBack, StartBillReads,
       StartBillPutsBill, StartBillPutsSession, StartBillReadsOrders, PutNextOrder, PutTotal,
       UpdateBillReads, UpdateBillReadsOrders, NumberReads, NumberPuts, CloseReadsSession,
       CloseReadsBill, ClosePutsBill, EditReads, EditPuts

(* A call that has not begun or is over is in nobody's way. *)
LEMMA RestingOK ==
  ASSUME NEW m, m.step \in {"idle", "done"}
  PROVE  SeqOK(m)'
BY DEF SeqOK, SeesAll, TablesFree, KeepsSession, ClosesSession, BillsSession, AddsUp

LEMMA BlankRests == Blank("done") \in CallRecs /\ SeqOK(Blank("done"))'
<1>1. Blank("done").step = "done"
  BY DEF Blank
<1>2. Blank("done") \in CallRecs
  BY DEF Blank, CallRecs, Ops, Steps, Bills
<1>. QED  BY <1>1, <1>2, RestingOK

(* A step of the only call under way *)
LEMMA SeqStep ==
  ASSUME Known, Orderly, NEW c \in Calls, c \in InFlight, NEW m \in CallRecs,
         call' = [call EXCEPT ![c] = m], raced' = raced,
         ~raced => SeqOK(m)',
         ~raced /\ ~died' => BillsOK'
  PROVE  Orderly'
<1> SUFFICES ASSUME ~raced' PROVE Alone' /\ (\A d \in Calls : SeqOK(call[d])') /\ (~died' => BillsOK')
  BY DEF Orderly
<1>1. ~raced /\ Alone /\ Typed
  BY DEF Orderly, Known
<1>2. /\ call'[c] = m
      /\ \A d \in Calls : d # c => call'[d] = call[d]
  BY <1>1, CallOfOthers
<1>3. Alone'
  BY <1>1, <1>2 DEF Alone, InFlight
<1>4. ASSUME NEW d \in Calls PROVE SeqOK(call[d])'
  <2>1. PICK n : n = call'[d]
    OBVIOUS
  <2>2. SeqOK(n)'
    <3>1. CASE d = c
      BY <1>1, <1>2, <2>1, <3>1
    <3>2. CASE d # c
      <4>1. n.step \in {"idle", "done"}
        BY <1>1, <1>2, <2>1, <3>2 DEF Alone, InFlight
      <4>. QED  BY <4>1, RestingOK
    <3>. QED  BY <3>1, <3>2
  <2>. QED  BY <2>1, <2>2
       DEF SeqOK, SeesAll, TablesFree, KeepsSession, ClosesSession, BillsSession, AddsUp
<1>. QED  BY <1>1, <1>3, <1>4

(* What is seen once every copy has caught up *)
LEMMA SeesCurrent ==
  ASSUME stale = Current
  PROVE  /\ \A s \in Ids : SeenSession(s) = {sessions[s]} /\ SeenOrder(s) = {orders[s]}
         /\ \A b \in Calls : SeenBill(b) = {bills[b]}
BY DEF Current, SeenSession, SeenOrder, SeenBill

(* Every bill stays its session's when no session changes its bill. *)
LEMMA BillsStay ==
  ASSUME Known, BillsOK, NEW c \in Calls, ~At(c, "startBill", "putSession"),
         NEW m, call' = [call EXCEPT ![c] = m],
         \A s \in Ids : sessions[s] # NoRow => sessions'[s].bill = sessions[s].bill,
         \A b \in Calls : bills'[b] # NoRow =>
           bills[b] # NoRow /\ bills'[b].session = bills[b].session
  PROVE  BillsOK'
<1> SUFFICES ASSUME NEW b \in Calls, bills'[b] # NoRow
             PROVE  sessions'[bills'[b].session].bill = b \/ At(b, "startBill", "putSession")'
  BY DEF BillsOK
<1>1. /\ bills[b] # NoRow /\ bills'[b].session = bills[b].session
      /\ bills[b].session \in Ids /\ sessions[bills[b].session] # NoRow
  BY DEF Known, RowsOK, BillRowOK, SessionKnown
<1>2. sessions[bills[b].session].bill = b \/ At(b, "startBill", "putSession")
  BY <1>1 DEF BillsOK
<1>3. CASE sessions[bills[b].session].bill = b
  BY <1>1, <1>3
<1>4. CASE At(b, "startBill", "putSession")
  <2>1. b # c
    BY <1>4
  <2>2. call'[b] = call[b]
    BY <2>1 DEF Known, Typed
  <2>. QED  BY <1>4, <2>2 DEF At
<1>. QED  BY <1>2, <1>3, <1>4

(* ... in particular when the step only reads, or puts only orders. *)
LEMMA SeqRead ==
  ASSUME Known, Orderly, NEW c \in Calls, c \in InFlight, NEW m \in CallRecs,
         call' = [call EXCEPT ![c] = m], UNCHANGED <<sessions, bills, raced, died>>,
         ~raced => SeqOK(m)', ~At(c, "startBill", "putSession")
  PROVE  Orderly'
<1>1. ~raced /\ ~died' => BillsOK
  BY DEF Orderly
<1>2. ~raced /\ ~died' => BillsOK'
  BY <1>1, BillsStay
<1>. QED  BY <1>2, SeqStep

LEMMA ReadsChangeNothing ==
  ASSUME Reads
  PROVE  UNCHANGED <<sessions, orders, bills, stale, raced, died>>
BY DEF Reads, tables

LEMMA FinishOrderly ==
  ASSUME Known, Orderly, NEW c \in Calls, c \in InFlight, Finish(c), Reads,
         ~At(c, "startBill", "putSession")
  PROVE  Orderly'
BY SeqRead, BlankRests, ReadsChangeNothing DEF Finish

-----------------------------------------------------------------------------
(* The second invariant: steps *)

LEMMA InitOrderly == Init => Orderly
<1> SUFFICES ASSUME Init PROVE Orderly
  OBVIOUS
<1>1. /\ \A c \in Calls : call[c].step = "idle" /\ call[c].op = "none" /\ bills[c] = NoRow
  BY DEF Init, Blank
<1>2. Alone /\ BillsOK
  BY <1>1 DEF Alone, InFlight, BillsOK
<1>3. \A c \in Calls : SeqOK(call[c])
  BY <1>1 DEF SeqOK, SeesAll, TablesFree, KeepsSession, ClosesSession, BillsSession, AddsUp
<1>. QED  BY <1>2, <1>3 DEF Orderly

LEMMA StartOrderly == ASSUME Known, Orderly, NEW c \in Calls, Start(c) PROVE Orderly'
<1> SUFFICES ASSUME ~raced' PROVE Alone' /\ (\A d \in Calls : SeqOK(call[d])') /\ (~died' => BillsOK')
  BY DEF Orderly
<1>1. PICK m \in Requests : call' = [call EXCEPT ![c] = m]
  BY DEF Start
<1>2. PICK o \in Ops, s \in Ids \cup {NoSession}, b \in Bills, ts \in SUBSET Tables :
        m = Request(o, s, b, ts)
  BY RequestsAre
<1>3. m.op = o /\ m.step = "read" /\ m.todo = {}
  BY <1>2, RequestFields
<1>4. m \in CallRecs
  BY <1>2, RequestFields DEF CallRecs, Steps
<1>5. /\ ~raced /\ InFlight = {} /\ stale = Current /\ call[c].step = "idle"
      /\ UNCHANGED <<sessions, orders, bills, stale, died>>
  BY DEF Start, tables, Known, Typed
<1>6. /\ call'[c] = m
      /\ \A d \in Calls : d # c => call'[d] = call[d]
  BY <1>1, <1>4, CallOfOthers DEF Known
<1>7. Alone'
  BY <1>5, <1>6 DEF Alone, InFlight
<1>8. ASSUME NEW d \in Calls PROVE SeqOK(call[d])'
  <2>1. PICK n : n = call'[d]
    OBVIOUS
  <2>2. SeqOK(n)'
    <3>1. CASE d = c
      <4>1. n.op = o /\ n.step = "read" /\ n.todo = {} /\ (stale = Current)'
        BY <1>3, <1>5, <1>6, <2>1, <3>1 DEF Current
      <4>. QED  BY <4>1
           DEF SeqOK, SeesAll, TablesFree, KeepsSession, ClosesSession, BillsSession, AddsUp
    <3>2. CASE d # c
      <4>1. n.step \in {"idle", "done"}
        BY <1>5, <1>6, <2>1, <3>2 DEF InFlight
      <4>. QED  BY <4>1, RestingOK
    <3>. QED  BY <3>1, <3>2
  <2>. QED  BY <2>1, <2>2
       DEF SeqOK, SeesAll, TablesFree, KeepsSession, ClosesSession, BillsSession, AddsUp
<1>9. ~died' => BillsOK'
  <2>1. ~died' => BillsOK
    BY <1>5 DEF Orderly
  <2>2. ~At(c, "startBill", "putSession")
    BY <1>5 DEF At
  <2>. QED  BY <1>1, <1>5, <2>1, <2>2, BillsStay
<1>. QED  BY <1>7, <1>8, <1>9

LEMMA DieOrderly == ASSUME Known, Orderly, NEW c \in Calls, Die(c) PROVE Orderly'
<1>1. /\ c \in InFlight /\ call' = [call EXCEPT ![c] = Blank("done")]
      /\ died' /\ raced' = raced
  BY DEF Die, Finish
<1>. QED  BY <1>1, BlankRests, SeqStep

LEMMA CatchUpOrderly == ASSUME Known, Orderly, CatchUp PROVE Orderly'
<1>1. /\ UNCHANGED <<sessions, orders, bills, call, raced, died>>
      /\ (stale = Current)'
  BY DEF CatchUp, tables, Current
<1>2. \A c \in Calls : TablesFree(call[c]) => TablesFree(call[c])'
  BY <1>1 DEF TablesFree, OpenedSince
<1>. QED  BY <1>1, <1>2
     DEF Orderly, Alone, InFlight, SeqOK, SeesAll, KeepsSession, ClosesSession,
         BillsSession, AddsUp, LinesAfter, OrdersOf, BillsOK, At

(* Creating a session *)
(* With every copy caught up the search sees every open session but those  *)
(* that SessionLimit others were opened since.                             *)
LEMMA SearchSeesNewest ==
  ASSUME Known, stale = Current, NEW ts, TablesSeemFree(ts),
         NEW s \in Ids, TablesOverlap(sessions[s], ts)
  PROVE  Cardinality(OpenedSince(s)) >= SessionLimit
<1>1. sessions \in [Ids -> SessionType \cup {NoRow}]
  BY DEF Known, Typed
<1>2. ASSUME NEW view \in SessionViews PROVE view = sessions
  BY <1>1, <1>2 DEF SessionViews, Current
<1>3. PICK listed \in SUBSET Ids :
        Newest(sessions, listed) /\ \A o \in listed : ~TablesOverlap(sessions[o], ts)
  BY <1>2 DEF TablesSeemFree
<1>4. sessions[s] # NoRow
  BY OpenIsRow DEF TablesOverlap
<1>5. s \notin listed /\ Cardinality(listed) = SessionLimit
  BY <1>3, <1>4 DEF Newest
<1>6. listed \subseteq OpenedSince(s)
  BY <1>3, <1>4, <1>5 DEF Newest, OpenedSince
<1>7. IsFiniteSet(OpenedSince(s))
  BY IdsFinite, FS_Subset DEF OpenedSince
<1>8. Cardinality(listed) <= Cardinality(OpenedSince(s))
  BY <1>6, <1>7, FS_Subset
<1>9. Cardinality(OpenedSince(s)) \in Nat
  BY <1>7, FS_CardinalityType
<1>. QED  BY <1>5, <1>8, <1>9, ServiceAssumption

LEMMA FindsTablesFreeOrderly ==
  ASSUME Known, Orderly, NEW c \in Calls, c \in InFlight, FindsTablesFree(c) PROVE Orderly'
<1>1. /\ call[c].op = "create" /\ call[c].step = "read" /\ Reads
      /\ TablesSeemFree(call[c].tables)
  BY DEF FindsTablesFree, At
<1>2. "putSession" \in Steps /\ Typed
  BY DEF Known, Steps
<1>3. PICK now \in Times :
        call' = SetSession(c, "putSession", NewSession(call[c].tables, now))
  BY DEF FindsTablesFree, SetSession
<1>4. PICK row \in SessionType : row = NewSession(call[c].tables, now) /\ row.tables = call[c].tables
  BY <1>2, CallFieldTypes, NewSessionType
<1>5. PICK m \in CallRecs :
        /\ call' = [call EXCEPT ![c] = m]
        /\ m.op = call[c].op /\ m.step = "putSession" /\ m.sessionRow = row
  BY <1>2, <1>3, <1>4, SessionRecord
<1>6. ASSUME ~raced PROVE SeqOK(m)'
  <2>1. stale = Current
    BY <1>1, <1>6 DEF Orderly, SeqOK, SeesAll
  <2>2. \A s \in Ids : TablesOverlap(sessions[s], call[c].tables) =>
          Cardinality(OpenedSince(s)) >= SessionLimit
    BY <1>1, <2>1, SearchSeesNewest
  <2>3. \A s \in Ids : TablesOverlap(sessions'[s], m.sessionRow.tables) =>
          Cardinality(OpenedSince(s)') >= SessionLimit
    BY <1>1, <1>4, <1>5, <2>2, ReadsChangeNothing DEF OpenedSince
  <2>. QED  BY <1>1, <1>5, <2>3
       DEF SeqOK, SeesAll, TablesFree, KeepsSession, ClosesSession, BillsSession, AddsUp
<1>7. ~At(c, "startBill", "putSession")
  BY <1>1 DEF At
<1>. QED  BY <1>1, <1>5, <1>6, <1>7, ReadsChangeNothing, SeqRead

LEMMA CreateSessionOrderly ==
  ASSUME Known, Orderly, NEW c \in Calls, c \in InFlight, CreateSession(c) PROVE Orderly'
<1>1. /\ call[c].op = "create" /\ call[c].step = "putSession" /\ Goto(c, "putOrder")
      /\ PutSession(c, call[c].sessionRow) /\ UNCHANGED <<bills, raced, died>>
  BY DEF CreateSession, At, Aside
<1>2. "putOrder" \in Steps /\ Typed /\ CallOK(c, call[c]) /\ c \in Ids
  BY DEF Known, Steps, Ids
<1>3. PICK m \in CallRecs :
        /\ call' = [call EXCEPT ![c] = m]
        /\ m.op = call[c].op /\ m.step = "putOrder"
  BY <1>1, <1>2, StepRecord
<1>4. SeqOK(m)'
  BY <1>1, <1>3
  DEF SeqOK, SeesAll, TablesFree, KeepsSession, ClosesSession, BillsSession, AddsUp
<1>5. sessions[c] = NoRow /\ \A s \in Ids : s # c => sessions'[s] = sessions[s]
  BY <1>1, <1>2 DEF CallOK, NotYet, PutSession, Typed
<1>6. ~At(c, "startBill", "putSession")
  BY <1>1 DEF At
<1>7. ~raced /\ ~died' => BillsOK
  BY <1>1 DEF Orderly
<1>8. ~raced /\ ~died' => BillsOK'
  BY <1>1, <1>3, <1>5, <1>6, <1>7, BillsStay
<1>. QED  BY <1>1, <1>3, <1>4, <1>8, SeqStep

LEMMA CreateFirstOrderOrderly ==
  ASSUME Known, Orderly, NEW c \in Calls, c \in InFlight, CreateFirstOrder(c) PROVE Orderly'
<1>1. /\ call' = [call EXCEPT ![c] = Blank("done")] /\ UNCHANGED <<sessions, bills, raced, died>>
      /\ ~At(c, "startBill", "putSession")
  BY DEF CreateFirstOrder, At, Aside, Finish
<1>. QED  BY <1>1, BlankRests, SeqRead

(* Putting a session back *)
LEMMA AddOrderReadsOrderly ==
  ASSUME Known, Orderly, NEW c \in Calls, c \in InFlight, AddOrderReads(c) PROVE Orderly'
<1>1. call[c].op = "addOrder" /\ call[c].step = "read" /\ Reads
  BY DEF AddOrderReads, At
<1>2. PICK row \in SeenSession(call[c].session) :
        IF Open(row) THEN call' = SetSession(c, "putOrder", row) ELSE Finish(c)
  BY DEF AddOrderReads, SetSession
<1>3. "putOrder" \in Steps /\ Typed /\ CallOK(c, call[c])
  BY DEF Known, Steps
<1>4. call[c].session \in Ids
  BY <1>1, <1>3 DEF CallOK, Asked, SessionKnown
<1>5. row \in SessionType \cup {NoRow}
  BY <1>4, SeesSession
<1>6. ~At(c, "startBill", "putSession")
  BY <1>1 DEF At
<1>7. CASE Open(row)
  <2>1. row \in SessionType
    BY <1>5, <1>7, OpenIsRow
  <2>2. PICK m \in CallRecs :
          /\ call' = [call EXCEPT ![c] = m]
          /\ m.op = call[c].op /\ m.step = "putOrder" /\ m.session = call[c].session
          /\ m.sessionRow = row
    BY <1>2, <1>3, <1>7, <2>1, SessionRecord
  <2>3. ASSUME ~raced PROVE SeqOK(m)'
    <3>1. stale = Current
      BY <1>1, <2>3 DEF Orderly, SeqOK, SeesAll
    <3>2. row = sessions[m.session]
      BY <1>4, <2>2, <3>1, SeesCurrent
    <3>3. Open(sessions'[m.session]) /\ Open(m.sessionRow) /\ m.sessionRow.bill = sessions'[m.session].bill
      BY <1>1, <1>7, <2>2, <3>2, ReadsChangeNothing
    <3>. QED  BY <1>1, <2>2, <3>3
         DEF SeqOK, SeesAll, TablesFree, KeepsSession, ClosesSession, BillsSession, AddsUp
  <2>. QED  BY <1>1, <1>6, <2>2, <2>3, ReadsChangeNothing, SeqRead
<1>8. CASE ~Open(row)
  BY <1>1, <1>2, <1>6, <1>8, FinishOrderly
<1>. QED  BY <1>7, <1>8

LEMMA AddOrderPutsOrderly ==
  ASSUME Known, Orderly, NEW c \in Calls, c \in InFlight, AddOrderPuts(c) PROVE Orderly'
<1>1. /\ call[c].op = "addOrder" /\ call[c].step = "putOrder" /\ Goto(c, "putSession")
      /\ UNCHANGED <<sessions, bills, raced, died>>
  BY DEF AddOrderPuts, At, Aside
<1>2. "putSession" \in Steps /\ Typed
  BY DEF Known, Steps
<1>3. PICK m \in CallRecs :
        /\ call' = [call EXCEPT ![c] = m]
        /\ m.op = call[c].op /\ m.step = "putSession" /\ m.session = call[c].session
        /\ m.sessionRow = call[c].sessionRow
  BY <1>1, <1>2, StepRecord
<1>4. ASSUME ~raced PROVE SeqOK(m)'
  <2>1. /\ Open(sessions[m.session]) /\ Open(m.sessionRow)
        /\ m.sessionRow.bill = sessions[m.session].bill
    BY <1>1, <1>3, <1>4 DEF Orderly, SeqOK, KeepsSession
  <2>2. /\ Open(sessions'[m.session]) /\ Open(m.sessionRow)
        /\ m.sessionRow.bill = sessions'[m.session].bill
    BY <1>1, <2>1
  <2>. QED  BY <1>1, <1>3, <2>2
       DEF SeqOK, SeesAll, TablesFree, KeepsSession, ClosesSession, BillsSession, AddsUp
<1>5. ~At(c, "startBill", "putSession")
  BY <1>1 DEF At
<1>. QED  BY <1>1, <1>3, <1>4, <1>5, SeqRead

LEMMA UpdateSessionReadsOrderly ==
  ASSUME Known, Orderly, NEW c \in Calls, c \in InFlight, UpdateSessionReads(c) PROVE Orderly'
<1>1. call[c].op = "updateSession" /\ call[c].step = "read" /\ Reads
  BY DEF UpdateSessionReads, At
<1>2. PICK row \in SeenSession(call[c].session) :
        IF Open(row)
          THEN call' = SetSession(c, "putSession",
                 [row EXCEPT !.tables = IF call[c].tables = {} THEN @ ELSE call[c].tables])
          ELSE Finish(c)
  BY DEF UpdateSessionReads, SetSession
<1>3. "putSession" \in Steps /\ Typed /\ CallOK(c, call[c])
  BY DEF Known, Steps
<1>4. call[c].session \in Ids
  BY <1>1, <1>3 DEF CallOK, Asked, SessionKnown
<1>5. row \in SessionType \cup {NoRow}
  BY <1>4, SeesSession
<1>6. ~At(c, "startBill", "putSession")
  BY <1>1 DEF At
<1>7. CASE Open(row)
  <2>1. row \in SessionType /\ call[c].tables \in SUBSET Tables
    BY <1>3, <1>5, <1>7, OpenIsRow, CallFieldTypes
  <2>2. PICK new : new = [row EXCEPT !.tables = IF call[c].tables = {} THEN @ ELSE call[c].tables]
    OBVIOUS
  <2>3. new \in SessionType /\ new.bill = row.bill /\ new.status = row.status
    BY <2>1, <2>2, SessionEdits
  <2>4. Open(new)
    BY <1>7, <2>3, ServiceAssumption DEF Open
  <2>5. call' = SetSession(c, "putSession", new)
    BY <1>2, <1>7, <2>2
  <2>6. PICK m \in CallRecs :
          /\ call' = [call EXCEPT ![c] = m]
          /\ m.op = call[c].op /\ m.step = "putSession" /\ m.session = call[c].session
          /\ m.sessionRow = new
    BY <1>3, <2>3, <2>5, SessionRecord
  <2>7. ASSUME ~raced PROVE SeqOK(m)'
    <3>1. stale = Current
      BY <1>1, <2>7 DEF Orderly, SeqOK, SeesAll
    <3>2. row = sessions[m.session]
      BY <1>4, <2>6, <3>1, SeesCurrent
    <3>3. Open(sessions'[m.session]) /\ Open(m.sessionRow) /\ m.sessionRow.bill = sessions'[m.session].bill
      BY <1>1, <1>7, <2>3, <2>4, <2>6, <3>2, ReadsChangeNothing
    <3>. QED  BY <1>1, <2>6, <3>3
         DEF SeqOK, SeesAll, TablesFree, KeepsSession, ClosesSession, BillsSession, AddsUp
  <2>. QED  BY <1>1, <1>6, <2>6, <2>7, ReadsChangeNothing, SeqRead
<1>8. CASE ~Open(row)
  BY <1>1, <1>2, <1>6, <1>8, FinishOrderly
<1>. QED  BY <1>7, <1>8

LEMMA PutSessionBackOrderly ==
  ASSUME Known, Orderly, NEW c \in Calls, c \in InFlight, PutSessionBack(c) PROVE Orderly'
<1>1. /\ call[c].op \in {"addOrder", "updateSession", "closeTable"}
      /\ call[c].step = "putSession"
      /\ PutSession(call[c].session, call[c].sessionRow)
      /\ call' = [call EXCEPT ![c] = Blank("done")] /\ UNCHANGED <<bills, raced, died>>
  BY DEF PutSessionBack, Finish, Aside
<1>2. Typed /\ CallOK(c, call[c])
  BY DEF Known
<1>3. call[c].session \in Ids
  BY <1>1, <1>2 DEF CallOK, Asked, SessionKnown
<1>4. ~At(c, "startBill", "putSession")
  BY <1>1 DEF At
<1>5. ASSUME ~raced, ~died' PROVE BillsOK'
  <2>1. BillsOK /\ call[c].sessionRow.bill = sessions[call[c].session].bill
    BY <1>1, <1>5 DEF Orderly, SeqOK, KeepsSession, ClosesSession
  <2>2. \A s \in Ids : sessions[s] # NoRow => sessions'[s].bill = sessions[s].bill
    BY <1>1, <1>2, <1>3, <2>1 DEF PutSession, Typed
  <2>. QED  BY <1>1, <1>4, <2>1, <2>2, BillsStay
<1>. QED  BY <1>1, <1>5, BlankRests, SeqStep

(* StartBill *)
LEMMA StartBillReadsOrderly ==
  ASSUME Known, Orderly, NEW c \in Calls, c \in InFlight, StartBillReads(c) PROVE Orderly'
<1>1. call[c].op = "startBill" /\ call[c].step = "read" /\ Reads
  BY DEF StartBillReads, At
<1>2. PICK row \in SeenSession(call[c].session) :
        IF row = NoRow THEN Finish(c) ELSE \E billRow \in SeenBillOf(row) :
          IF AlreadyBilled(row, billRow) THEN Finish(c) ELSE
            call' = SetBoth(c, "putBill", [row EXCEPT !.bill = c, !.status = "billing"],
                            NewBill(call[c].session))
  BY DEF StartBillReads, SetBoth, FirstPut
<1>3. "putBill" \in Steps /\ Typed /\ CallOK(c, call[c])
  BY DEF Known, Steps
<1>4. call[c].session \in Ids
  BY <1>1, <1>3 DEF CallOK, Asked, SessionKnown
<1>5. row \in SessionType \cup {NoRow} /\ SessionRowOK(call[c].session, row)
  BY <1>4, SeesSession
<1>6. ~At(c, "startBill", "putSession")
  BY <1>1 DEF At
<1>7. ASSUME row # NoRow, NEW billRow \in SeenBillOf(row), ~AlreadyBilled(row, billRow),
             call' = SetBoth(c, "putBill", [row EXCEPT !.bill = c, !.status = "billing"],
                             NewBill(call[c].session))
      PROVE  Orderly'
  <2>1. PICK new : new = [row EXCEPT !.bill = c, !.status = "billing"]
    OBVIOUS
  <2>2. new \in SessionType /\ new.status = "billing"
    BY <1>5, <1>7, <2>1, BilledRow
  <2>3. PICK bill \in BillType : bill = NewBill(call[c].session)
    BY <1>4, NewBillType
  <2>4. call' = SetBoth(c, "putBill", new, bill)
    BY <1>7, <2>1, <2>3
  <2>5. PICK m \in CallRecs :
          /\ call' = [call EXCEPT ![c] = m]
          /\ m.op = call[c].op /\ m.step = "putBill" /\ m.session = call[c].session
          /\ m.bill = call[c].bill /\ m.tables = call[c].tables
          /\ m.sessionRow = new /\ m.billRow = bill /\ m.todo = call[c].todo
    <3>1. "putBill" \in Steps /\ Typed /\ new \in SessionType /\ bill \in BillType
      BY <1>3, <2>2, <2>3
    <3>. QED  BY <2>4, <3>1, BothRecord
  <2>6. ASSUME ~raced PROVE SeqOK(m)'
    <3>1. stale = Current
      BY <1>1, <2>6 DEF Orderly, SeqOK, SeesAll
    <3>2. row = sessions[m.session]
      BY <1>4, <2>5, <3>1, SeesCurrent
    <3>3. billRow = NoRow /\ row.status = "live"
      BY <1>7 DEF AlreadyBilled
    <3>4. row.bill = NoBill
      <4>1. SUFFICES ASSUME row.bill # NoBill PROVE FALSE
        OBVIOUS
      <4>2. row.bill \in Calls /\ bills[row.bill] # NoRow
        BY <1>5, <1>7, <4>1 DEF SessionRowOK, BillOf
      <4>3. billRow = bills[row.bill]
        BY <1>7, <3>1, <4>1, <4>2, SeesCurrent DEF SeenBillOf
      <4>. QED  BY <3>3, <4>2, <4>3
    <3>5. sessions'[m.session].status = "live" /\ sessions'[m.session].bill = NoBill
      BY <1>1, <3>2, <3>3, <3>4, ReadsChangeNothing
    <3>. QED  BY <1>1, <2>2, <2>5, <3>5
         DEF SeqOK, SeesAll, TablesFree, KeepsSession, ClosesSession, BillsSession, AddsUp
  <2>. QED  BY <1>1, <1>6, <2>5, <2>6, ReadsChangeNothing, SeqRead
<1>8. CASE Finish(c)
  BY <1>1, <1>6, <1>8, FinishOrderly
<1>. QED  BY <1>2, <1>7, <1>8

LEMMA StartBillPutsBillOrderly ==
  ASSUME Known, Orderly, NEW c \in Calls, c \in InFlight, StartBillPutsBill(c) PROVE Orderly'
<1>1. /\ call[c].op = "startBill" /\ call[c].step = "putBill" /\ Goto(c, "putSession")
      /\ PutBill(c, call[c].billRow) /\ UNCHANGED <<sessions, raced, died>>
  BY DEF StartBillPutsBill, At, Aside
<1>2. "putSession" \in Steps /\ Typed
  BY DEF Known, Steps
<1>3. PICK m \in CallRecs :
        /\ call' = [call EXCEPT ![c] = m]
        /\ m.op = call[c].op /\ m.step = "putSession" /\ m.session = call[c].session
        /\ m.sessionRow = call[c].sessionRow
  BY <1>1, <1>2, StepRecord
<1>4. ASSUME ~raced PROVE SeqOK(m)'
  <2>1. /\ sessions[m.session].status = "live" /\ sessions[m.session].bill = NoBill
        /\ m.sessionRow.status = "billing"
    BY <1>1, <1>3, <1>4 DEF Orderly, SeqOK, BillsSession
  <2>2. /\ sessions'[m.session].status = "live" /\ sessions'[m.session].bill = NoBill
    BY <1>1, <2>1
  <2>. QED  BY <1>1, <1>3, <2>1, <2>2
       DEF SeqOK, SeesAll, TablesFree, KeepsSession, ClosesSession, BillsSession, AddsUp
<1>5. /\ call'[c] = m
      /\ \A d \in Calls : d # c => call'[d] = call[d]
  BY <1>2, <1>3, CallOfOthers
<1>6. ASSUME ~raced, ~died' PROVE BillsOK'
  <2>1. BillsOK
    BY <1>1, <1>6 DEF Orderly
  <2>2. \A b \in Calls : b # c => bills'[b] = bills[b]
    BY <1>1, <1>2 DEF PutBill, Typed
  <2>3. At(c, "startBill", "putSession")'
    BY <1>1, <1>3, <1>5 DEF At
  <2>4. ASSUME NEW b \in Calls, bills'[b] # NoRow
        PROVE  sessions'[bills'[b].session].bill = b \/ At(b, "startBill", "putSession")'
    <3>1. CASE b = c
      BY <2>3, <3>1
    <3>2. CASE b # c
      BY <1>1, <1>5, <2>1, <2>2, <2>4, <3>2 DEF BillsOK, At
    <3>. QED  BY <3>1, <3>2
  <2>. QED  BY <2>4 DEF BillsOK
<1>. QED  BY <1>1, <1>3, <1>4, <1>6, SeqStep

LEMMA StartBillPutsSessionOrderly ==
  ASSUME Known, Orderly, NEW c \in Calls, c \in InFlight, StartBillPutsSession(c) PROVE Orderly'
<1>1. /\ call[c].op = "startBill" /\ call[c].step = "putSession" /\ Goto(c, "readOrders")
      /\ PutSession(call[c].session, call[c].sessionRow) /\ UNCHANGED <<bills, raced, died>>
  BY DEF StartBillPutsSession, At, Aside
<1>2. "readOrders" \in Steps /\ Typed /\ CallOK(c, call[c])
  BY DEF Known, Steps
<1>3. PICK m \in CallRecs :
        /\ call' = [call EXCEPT ![c] = m]
        /\ m.op = call[c].op /\ m.step = "readOrders"
  BY <1>1, <1>2, StepRecord
<1>4. SeqOK(m)'
  BY <1>1, <1>3
  DEF SeqOK, SeesAll, TablesFree, KeepsSession, ClosesSession, BillsSession, AddsUp
<1>5. PICK s \in Ids : s = call[c].session
  BY <1>1, <1>2 DEF CallOK, Asked, SessionKnown
<1>6. /\ call[c].sessionRow.bill = c
      /\ sessions'[s] = call[c].sessionRow /\ \A t \in Ids : t # s => sessions'[t] = sessions[t]
  BY <1>1, <1>2, <1>5 DEF CallOK, HoldsNewBill, PutSession, Typed
<1>7. ASSUME ~raced, ~died' PROVE BillsOK'
  <2>1. BillsOK /\ Alone /\ sessions[s].bill = NoBill
    BY <1>1, <1>5, <1>7 DEF Orderly, SeqOK, BillsSession
  <2>2. ASSUME NEW b \in Calls, bills'[b] # NoRow PROVE sessions'[bills'[b].session].bill = b
    <3>1. bills'[b] = bills[b] /\ bills[b].session \in Ids
      BY <1>1, <2>2 DEF Known, RowsOK, BillRowOK, SessionKnown
    <3>2. sessions[bills[b].session].bill = b \/ At(b, "startBill", "putSession")
      BY <2>1, <2>2, <3>1 DEF BillsOK
    <3>3. CASE b = c
      <4>1. bills[b].session = s
        BY <1>1, <1>2, <1>5, <3>3 DEF CallOK, HoldsNewBill, BillOf
      <4>. QED  BY <1>6, <3>1, <3>3, <4>1
    <3>4. CASE b # c
      <4>1. ~At(b, "startBill", "putSession")
        BY <2>1, <3>4 DEF Alone, InFlight, At
      <4>2. bills[b].session # s
        BY <2>1, <3>2, <4>1, ServiceAssumption
      <4>. QED  BY <1>6, <3>1, <3>2, <4>1, <4>2
    <3>. QED  BY <3>3, <3>4
  <2>. QED  BY <2>2 DEF BillsOK
<1>. QED  BY <1>1, <1>3, <1>4, <1>7, SeqStep

LEMMA StartBillReadsOrdersOrderly ==
  ASSUME Known, Orderly, NEW c \in Calls, c \in InFlight, StartBillReadsOrders(c) PROVE Orderly'
<1>1. call[c].op = "startBill" /\ call[c].step = "readOrders" /\ Reads
  BY DEF StartBillReadsOrders, At
<1>2. PICK rows \in SeenOrders(call[c].session) :
        call' = SetStamped(c, "putOrders", c, SumOfPrices(rows),
                           {<<r[1], [r[2] EXCEPT !.bill = c]>> : r \in rows})
  BY DEF StartBillReadsOrders, SetStamped
<1>3. call \in [Calls -> CallRecs] /\ call[c] \in CallRecs
  BY DEF Known, Typed
<1>10. PICK n, todo :
         n = SumOfPrices(rows) /\ todo = {<<r[1], [r[2] EXCEPT !.bill = c]>> : r \in rows}
  OBVIOUS
<1>11. call' = SetStamped(c, "putOrders", c, n, todo)
  BY <1>2, <1>10
<1>4. PICK m : m = With(call[c], "putOrders", call[c].sessionRow,
                        Totalled(call[c].billRow, n), c, todo)
  OBVIOUS
<1>5. m.op = call[c].op /\ m.step = "putOrders"
  BY <1>4, WithFields
<1>6. call' = [call EXCEPT ![c] = m]
  BY <1>3, <1>4, <1>11, SetStampedWith
<1>7. m \in CallRecs
  <2>1. Known'
    BY StartBillReadsOrdersKnown
  <2>. QED  BY <1>3, <1>6, <2>1 DEF Known, Typed
<1>8. SeqOK(m)'
  BY <1>1, <1>5
  DEF SeqOK, SeesAll, TablesFree, KeepsSession, ClosesSession, BillsSession, AddsUp
<1>9. ~At(c, "startBill", "putSession")
  BY <1>1 DEF At
<1>. QED  BY <1>1, <1>6, <1>7, <1>8, <1>9, ReadsChangeNothing, SeqRead

(* The numbers UpdateBill adds up *)

(* The rows of the orders in S, added up order by order *)
Keyed(S, row) == {<<o, row[o]>> : o \in S}

LEMMA SumByOrder ==
  ASSUME NEW S \in SUBSET Ids, NEW row, \A o \in S : row[o] \in OrderType
  PROVE  SumOfLines(Keyed(S, row)) = SumFunction([o \in S |-> row[o].lines])
<1> DEFINE pair == [o \in S |-> <<o, row[o]>>]
           rows == Keyed(S, row)
           lines == [r \in rows |-> r[2].lines]
           byOrder == [o \in S |-> row[o].lines]
<1>1. IsFiniteSet(S)
  BY IdsFinite, FS_Subset
<1>2. \A o \in S : byOrder[o] \in Int
  BY DEF OrderType
<1>3. \A o, i \in S : pair[o] = pair[i] => o = i
  OBVIOUS
<1>4. \A o \in S : lines[pair[o]] = byOrder[o]
  BY DEF Keyed
<1>5. rows = {pair[o] : o \in S} /\ DOMAIN lines = rows /\ DOMAIN byOrder = S
  BY DEF Keyed
<1> HIDE DEF pair, lines, byOrder, rows
<1>6. SumFunctionOnSet(lines, {pair[o] : o \in S}) = SumFunctionOnSet(byOrder, S)
  BY <1>1, <1>2, <1>3, <1>4, SumRenamed
<1>7. SumFunction(lines) = SumFunction(byOrder)
  BY <1>5, <1>6 DEF SumFunction
<1>. QED  BY <1>7 DEF SumOfLines, lines, byOrder, rows

LEMMA CurrentOrders ==
  ASSUME Known, stale = Current, NEW s, NEW rows \in SeenOrders(s)
  PROVE  rows = {<<o, orders[o]>> : o \in OrdersOf(s)}
<1>1. PICK late \in SUBSET {o \in Ids : stale.orders[o] # orders[o]} :
        rows = RowsOf([o \in Ids |-> IF o \in late THEN stale.orders[o] ELSE orders[o]], s)
  BY DEF SeenOrders
<1>2. late = {}
  BY DEF Current
<1>3. PICK view : view = [o \in Ids |-> IF o \in late THEN stale.orders[o] ELSE orders[o]]
  OBVIOUS
<1>4. \A o \in Ids : view[o] = orders[o]
  BY <1>2, <1>3
<1>5. rows = {<<o, view[o]>> : o \in {i \in Ids : view[i] # NoRow /\ view[i].session = s}}
  BY <1>1, <1>3 DEF RowsOf
<1>. QED  BY <1>4, <1>5 DEF OrdersOf

LEMMA LinesAfterRows ==
  ASSUME NEW S, NEW row, NEW todo, todo = Keyed(S, row), NEW o \in S
  PROVE  LinesAfter(o, todo) = row[o].lines
<1>1. <<o, row[o]>> \in todo
  BY DEF Keyed
<1>2. \A r \in todo : r[1] = o => r[2] = row[o]
  BY DEF Keyed
<1>3. \E r \in todo : r[1] = o
  BY <1>1
<1>4. (CHOOSE r \in todo : r[1] = o) \in todo /\ (CHOOSE r \in todo : r[1] = o)[1] = o
  BY <1>3
<1>5. (CHOOSE r \in todo : r[1] = o)[2] = row[o]
  BY <1>2, <1>4
<1>. QED  BY <1>3, <1>5 DEF LinesAfter

LEMMA LinesAfterNone == \A o : LinesAfter(o, {}) = orders[o].lines
BY DEF LinesAfter

LEMMA OrdersOfTypes ==
  ASSUME Known, NEW s
  PROVE  /\ OrdersOf(s) \in SUBSET Ids
         /\ \A o \in OrdersOf(s) : orders[o] \in OrderType /\ <<o, orders[o]>> \in Rows(s)
BY DEF OrdersOf, Known, Typed, RowsOK, Rows

(* UpdateBill: what it remembers when it has read every order *)
LEMMA RollsUp ==
  ASSUME Known, NEW m, NEW s, m.billRow.session = s,
         NEW S \in SUBSET Ids, S = OrdersOf(s), NEW row,
         \A o \in S : row[o] \in OrderType /\ row[o].session = s,
         m.todo = Keyed(S, row) \/ (m.todo = {} /\ \A o \in S : row[o] = orders[o]),
         m.billRow.subtotal = SumOfLines(Keyed(S, row)),
         m.step = "putOrders"
  PROVE  AddsUp(m)
<1>1. \A o \in S : LinesAfter(o, m.todo) = row[o].lines
  <2>1. CASE m.todo = Keyed(S, row)
    BY <2>1, LinesAfterRows
  <2>2. CASE m.todo = {} /\ \A o \in S : row[o] = orders[o]
    BY <2>2, LinesAfterNone
  <2>. QED  BY <2>1, <2>2
<1>2. [o \in S |-> LinesAfter(o, m.todo)] = [o \in S |-> row[o].lines]
  BY <1>1
<1>3. m.billRow.subtotal = SumFunction([o \in S |-> row[o].lines])
  BY SumByOrder
<1>4. \A r, q \in m.todo : r[1] = q[1] => r = q
  BY DEF Keyed
<1>5. \A r \in m.todo : r[1] \in OrdersOf(s) /\ r[2].session = s
  BY DEF Keyed
<1>6. m.billRow.subtotal = SumFunction([o \in OrdersOf(m.billRow.session) |-> LinesAfter(o, m.todo)])
  BY <1>2, <1>3
<1>. QED  BY <1>4, <1>5, <1>6 DEF AddsUp

LEMMA UpdateBillReadsOrderly ==
  ASSUME Known, Orderly, NEW c \in Calls, c \in InFlight, UpdateBillReads(c) PROVE Orderly'
<1>1. call[c].op = "updateBill" /\ call[c].step = "read" /\ Reads
  BY DEF UpdateBillReads, At
<1>2. PICK row \in SeenBill(call[c].bill) :
        IF row = NoRow THEN Finish(c)
        ELSE \E paid \in {row.paid, TRUE, FALSE} :
               call' = SetBill(c, "readOrders", [row EXCEPT !.paid = paid])
  BY DEF UpdateBillReads, SetBill
<1>3. "readOrders" \in Steps /\ Typed /\ CallOK(c, call[c])
  BY DEF Known, Steps
<1>4. call[c].bill \in Calls
  BY <1>1, <1>3 DEF CallOK, Asked
<1>5. row \in BillType \cup {NoRow}
  BY <1>4, SeesBill
<1>6. ~At(c, "startBill", "putSession")
  BY <1>1 DEF At
<1>7. CASE row # NoRow
  <2>1. PICK paid \in {row.paid, TRUE, FALSE} :
          call' = SetBill(c, "readOrders", [row EXCEPT !.paid = paid])
    BY <1>2, <1>7
  <2>2. paid \in BOOLEAN /\ row \in BillType
    BY <1>5, <1>7, <2>1, PaidIsBoolean
  <2>3. PICK new : new = [row EXCEPT !.paid = paid]
    OBVIOUS
  <2>4. new \in BillType
    BY <2>2, <2>3, BillEdits
  <2>5. call' = SetBill(c, "readOrders", new)
    BY <2>1, <2>3
  <2>6. PICK m \in CallRecs :
          /\ call' = [call EXCEPT ![c] = m]
          /\ m.op = call[c].op /\ m.step = "readOrders" /\ m.todo = call[c].todo
    BY <1>3, <2>4, <2>5, BillRecord
  <2>7. ASSUME ~raced PROVE SeqOK(m)'
    <3>1. stale = Current /\ call[c].todo = {}
      BY <1>1, <2>7 DEF Orderly, SeqOK, SeesAll, AddsUp
    <3>2. (stale = Current)'
      BY <1>1, <3>1, ReadsChangeNothing DEF Current
    <3>. QED  BY <1>1, <2>6, <3>1, <3>2
         DEF SeqOK, SeesAll, TablesFree, KeepsSession, ClosesSession, BillsSession, AddsUp
  <2>. QED  BY <1>1, <1>6, <2>6, <2>7, ReadsChangeNothing, SeqRead
<1>8. CASE row = NoRow
  BY <1>1, <1>2, <1>6, <1>8, FinishOrderly
<1>. QED  BY <1>7, <1>8

(* ... in particular with the lines of one order edited, *)
LEMMA RollsUpEdited ==
  ASSUME Known, NEW m, NEW s, m.billRow.session = s, NEW rows,
         rows = {<<o, orders[o]>> : o \in OrdersOf(s)},
         NEW i, NEW p \in Nat, m.todo = EditedRows(rows, i, p),
         m.billRow.subtotal = SumOfLines(m.todo), m.step = "putOrders"
  PROVE  AddsUp(m)
<1>1. PICK S \in SUBSET Ids : S = OrdersOf(s)
  BY OrdersOfTypes
<1>2. \A o \in S : orders[o] \in OrderType /\ <<o, orders[o]>> \in Rows(s)
  BY <1>1, OrdersOfTypes
<1>3. PICK row : row = [o \in S |-> EditedPair(<<o, orders[o]>>, i, p)[2]]
  OBVIOUS
<1>4. ASSUME NEW o \in S
      PROVE  /\ EditedPair(<<o, orders[o]>>, i, p) = <<o, row[o]>>
             /\ row[o] \in OrderType /\ row[o].session = s
  <2>1. PICK r : r = <<o, orders[o]>>
    OBVIOUS
  <2>2. r \in Rows(s)
    BY <1>2, <2>1
  <2>3. EditedPair(r, i, p) \in Rows(s)
    BY <2>2, EditedPairType
  <2>4. EditedPair(r, i, p)[2] \in OrderType /\ EditedPair(r, i, p)[2].session = s
    BY <2>3 DEF Rows
  <2>5. EditedPair(r, i, p) = <<o, EditedPair(r, i, p)[2]>>
    BY <2>1 DEF EditedPair
  <2>. QED  BY <1>3, <2>1, <2>4, <2>5
<1>5. m.todo = Keyed(S, row)
  <2>1. rows \subseteq Ids \X OrderType
    BY <1>1, <1>2
  <2>2. m.todo = {EditedPair(r, i, p) : r \in rows}
    BY <2>1, EditedRowsAre
  <2>3. ASSUME NEW x PROVE x \in m.todo <=> x \in Keyed(S, row)
    <3>1. x \in m.todo <=> \E o \in S : x = EditedPair(<<o, orders[o]>>, i, p)
      BY <1>1, <2>2
    <3>2. x \in Keyed(S, row) <=> \E o \in S : x = <<o, row[o]>>
      BY DEF Keyed
    <3>. QED  BY <1>4, <3>1, <3>2
  <2>. QED  BY <2>3
<1>6. m.billRow.subtotal = SumOfLines(Keyed(S, row))
  BY <1>5
<1>7. \A o \in S : row[o] \in OrderType /\ row[o].session = s
  BY <1>4
<1>. QED  BY <1>1, <1>5, <1>6, <1>7, RollsUp

(* ... or without edits. *)
LEMMA RollsUpAsIs ==
  ASSUME Known, NEW m, NEW s, m.billRow.session = s, NEW rows,
         rows = {<<o, orders[o]>> : o \in OrdersOf(s)},
         m.todo = {}, m.billRow.subtotal = SumOfLines(rows), m.step = "putOrders"
  PROVE  AddsUp(m)
<1>1. PICK S \in SUBSET Ids : S = OrdersOf(s)
  BY OrdersOfTypes
<1>2. PICK row : row = [o \in S |-> orders[o]]
  OBVIOUS
<1>3. \A o \in S : row[o] = orders[o] /\ row[o] \in OrderType /\ row[o].session = s
  BY <1>1, <1>2, OrdersOfTypes DEF OrdersOf
<1>4. m.billRow.subtotal = SumOfLines(Keyed(S, row))
  <2>1. rows = Keyed(S, row)
    BY <1>1, <1>3 DEF Keyed
  <2>. QED  BY <2>1
<1>. QED  BY <1>1, <1>3, <1>4, RollsUp

LEMMA UpdateBillReadsOrdersOrderly ==
  ASSUME Known, Orderly, NEW c \in Calls, c \in InFlight, UpdateBillReadsOrders(c) PROVE Orderly'
<1>1. /\ Reads /\ call[c].op = "updateBill" /\ call[c].step = "readOrders"
  BY DEF UpdateBillReadsOrders, At
<1>2. PICK rows \in SeenOrders(call[c].billRow.session) :
        \/ call' = SetTotal(c, "putOrders", SumOfLines(rows))
        \/ \E r \in rows, p \in Prices :
             call' = SetTotalTodo(c, "putOrders", SumOfLines(EditedRows(rows, r[1], p)),
                                  EditedRows(rows, r[1], p))
  BY DEF UpdateBillReadsOrders, SetTotal, SetTotalTodo
<1>3. "putOrders" \in Steps /\ Typed /\ CallOK(c, call[c])
  BY DEF Known, Steps
<1>4. call[c].billRow \in BillType
  BY <1>1, <1>3, CallFieldTypes DEF CallOK, HoldsBill
<1>5. rows \subseteq Rows(call[c].billRow.session) /\ IsFiniteSet(rows)
  BY SeesOrders
<1>6. ~At(c, "startBill", "putSession")
  BY <1>1 DEF At
<1>7. PICK s : s = call[c].billRow.session
  OBVIOUS
<1>8. ~raced => /\ call[c].todo = {}
                /\ rows = {<<o, orders[o]>> : o \in OrdersOf(s)}
  <2>1. ~raced => stale = Current /\ call[c].todo = {}
    BY <1>1 DEF Orderly, SeqOK, SeesAll, AddsUp
  <2>. QED  BY <1>7, <2>1, CurrentOrders
<1>9. ASSUME NEW m \in CallRecs, call' = [call EXCEPT ![c] = m],
             m.op = call[c].op, m.step = "putOrders", ~raced => AddsUp(m)
      PROVE  Orderly'
  <2>1. UNCHANGED orders
    BY <1>1, ReadsChangeNothing
  <2>2. ~raced => AddsUp(m)'
    BY <1>9, <2>1 DEF AddsUp, OrdersOf, LinesAfter
  <2>3. ~raced => SeqOK(m)'
    BY <1>1, <1>9, <2>2 DEF SeqOK, SeesAll, TablesFree, KeepsSession, ClosesSession, BillsSession
  <2>. QED  BY <1>1, <1>6, <1>9, <2>3, ReadsChangeNothing, SeqRead
<1>10. CASE call' = SetTotal(c, "putOrders", SumOfLines(rows))
  <2>1. PICK n \in Nat : n = SumOfLines(rows)
    BY <1>5, SumsAreNat DEF Rows
  <2>2. call' = SetTotal(c, "putOrders", n)
    BY <1>10, <2>1
  <2>3. PICK m \in CallRecs :
          /\ call' = [call EXCEPT ![c] = m]
          /\ m.op = call[c].op /\ m.step = "putOrders" /\ m.bill = call[c].bill
          /\ m.billRow = Totalled(call[c].billRow, n) /\ m.todo = call[c].todo
    BY <1>3, <1>4, <2>2, TotalRecord
  <2>4. m.billRow.session = s /\ m.billRow.subtotal = SumOfLines(rows)
    BY <1>4, <1>7, <2>1, <2>3, TotalledType
  <2>5. ~raced => AddsUp(m)
    BY <1>8, <2>3, <2>4, RollsUpAsIs
  <2>. QED  BY <1>9, <2>3, <2>5
<1>11. ASSUME NEW r \in rows, NEW p \in Prices,
             call' = SetTotalTodo(c, "putOrders", SumOfLines(EditedRows(rows, r[1], p)),
                                  EditedRows(rows, r[1], p))
      PROVE  Orderly'
  <2>1. PICK o : o = r[1]
    OBVIOUS
  <2>2. p \in Nat
    BY ServiceAssumption
  <2>3. PICK todo : todo = EditedRows(rows, o, p)
    OBVIOUS
  <2>4. todo \subseteq Rows(s) /\ IsFiniteSet(todo)
    BY <1>5, <1>7, <2>2, <2>3, EditedRowsOK
  <2>5. todo \subseteq Ids \X OrderType
    BY <2>4 DEF Rows
  <2>6. PICK n \in Nat : n = SumOfLines(todo)
    BY <2>4, <2>5, SumsAreNat
  <2>7. call' = SetTotalTodo(c, "putOrders", n, todo)
    BY <1>11, <2>1, <2>3, <2>6
  <2>8. todo \in SUBSET (Ids \X OrderType)
    BY <2>5
  <2>9. PICK m \in CallRecs :
          /\ call' = [call EXCEPT ![c] = m]
          /\ m.op = call[c].op /\ m.step = "putOrders" /\ m.bill = call[c].bill
          /\ m.billRow = Totalled(call[c].billRow, n) /\ m.todo = todo
    BY <1>3, <1>4, <2>7, <2>8, TotalTodoRecord
  <2>10. m.billRow.session = s /\ m.billRow.subtotal = SumOfLines(m.todo)
    BY <1>4, <1>7, <2>6, <2>9, TotalledType
  <2>11. m.todo = EditedRows(rows, o, p)
    BY <2>3, <2>9
  <2>12. ~raced => AddsUp(m)
    BY <1>8, <2>2, <2>9, <2>10, <2>11, RollsUpEdited
  <2>. QED  BY <1>9, <2>9, <2>12
<1>. QED  BY <1>2, <1>10, <1>11

(* One round of the loop leaves what the lines will add up to. *)
LEMMA PutKeepsLines ==
  ASSUME Known, NEW s, NEW todo, NEW r \in todo, r[1] \in Ids, r[2] \in OrderType,
         r[1] \in OrdersOf(s), r[2].session = s,
         \A x, y \in todo : x[1] = y[1] => x = y,
         PutOrder(r[1], r[2])
  PROVE  /\ OrdersOf(s)' = OrdersOf(s)
         /\ \A o \in OrdersOf(s) : LinesAfter(o, todo \ {r})' = LinesAfter(o, todo)
<1>1. orders'[r[1]] = r[2] /\ \A o \in Ids : o # r[1] => orders'[o] = orders[o]
  BY DEF PutOrder, Known, Typed
<1>2. OrdersOf(s)' = OrdersOf(s)
  BY <1>1, ServiceAssumption DEF OrdersOf
<1>3. ASSUME NEW o \in OrdersOf(s)
      PROVE  LinesAfter(o, todo \ {r})' = LinesAfter(o, todo)
  <2>1. CASE o = r[1]
    <3>1. ~\E x \in todo \ {r} : x[1] = o
      BY <2>1
    <3>2. (CHOOSE x \in todo : x[1] = o) \in todo /\ (CHOOSE x \in todo : x[1] = o)[1] = o
      BY <2>1
    <3>3. (CHOOSE x \in todo : x[1] = o) = r
      BY <2>1, <3>2
    <3>4. LinesAfter(o, todo) = r[2].lines
      BY <2>1, <3>3 DEF LinesAfter
    <3>5. LinesAfter(o, todo \ {r})' = orders'[o].lines
      BY <3>1 DEF LinesAfter
    <3>. QED  BY <1>1, <2>1, <3>4, <3>5
  <2>2. CASE o # r[1] /\ \E x \in todo : x[1] = o
    <3>1. \E x \in todo \ {r} : x[1] = o
      BY <2>2
    <3>2. (CHOOSE x \in todo : x[1] = o) \in todo /\ (CHOOSE x \in todo : x[1] = o)[1] = o
      BY <2>2
    <3>3. /\ (CHOOSE x \in todo \ {r} : x[1] = o) \in todo \ {r}
          /\ (CHOOSE x \in todo \ {r} : x[1] = o)[1] = o
      BY <3>1
    <3>4. (CHOOSE x \in todo \ {r} : x[1] = o) = (CHOOSE x \in todo : x[1] = o)
      BY <3>2, <3>3
    <3>. QED  BY <2>2, <3>1, <3>4 DEF LinesAfter
  <2>3. CASE o # r[1] /\ ~\E x \in todo : x[1] = o
    BY <1>1, <2>3 DEF LinesAfter, OrdersOf
  <2>. QED  BY <2>1, <2>2, <2>3
<1>. QED  BY <1>2, <1>3

LEMMA PutNextOrderOrderly ==
  ASSUME Known, Orderly, NEW c \in Calls, c \in InFlight, PutNextOrder(c) PROVE Orderly'
<1>1. call[c].step = "putOrders" /\ UNCHANGED <<sessions, bills, raced, died>>
  BY DEF PutNextOrder, Aside
<1>2. PICK r \in call[c].todo :
        PutOrder(r[1], r[2]) /\ call' = SetTodo(c, call[c].todo \ {r})
  BY DEF PutNextOrder, SetTodo
<1>3. Typed /\ CallOK(c, call[c])
  BY DEF Known
<1>4. r[1] \in Ids /\ r[2] \in OrderType
  BY <1>3, CallFieldTypes
<1>5. PICK todo : todo = call[c].todo \ {r}
  OBVIOUS
<1>6. todo \in SUBSET (Ids \X OrderType) /\ todo \subseteq call[c].todo /\ call' = SetTodo(c, todo)
  BY <1>2, <1>3, <1>5, CallFieldTypes
<1>7. PICK m \in CallRecs :
        /\ call' = [call EXCEPT ![c] = m]
        /\ m.op = call[c].op /\ m.step = call[c].step /\ m.session = call[c].session
        /\ m.bill = call[c].bill /\ m.tables = call[c].tables
        /\ m.sessionRow = call[c].sessionRow /\ m.billRow = call[c].billRow /\ m.todo = todo
  <2>1. todo \in SUBSET (Ids \X OrderType) /\ call' = SetTodo(c, todo)
    BY <1>6
  <2>. QED  BY <1>3, <2>1, TodoRecord
<1>8. ASSUME ~raced PROVE AddsUp(m)'
  <2>1. CASE m.op # "updateBill"
    BY <2>1 DEF AddsUp
  <2>2. CASE m.op = "updateBill"
    <3>1. PICK s, all : s = call[c].billRow.session /\ all = call[c].todo
      OBVIOUS
    <3>2. /\ \A x, y \in all : x[1] = y[1] => x = y
          /\ \A x \in all : x[1] \in OrdersOf(s) /\ x[2].session = s
          /\ m.billRow.subtotal = SumFunction([o \in OrdersOf(s) |-> LinesAfter(o, all)])
      BY <1>1, <1>7, <1>8, <2>2, <3>1 DEF Orderly, SeqOK, AddsUp
    <3>3. r \in all /\ PutOrder(r[1], r[2]) /\ r[1] \in OrdersOf(s) /\ r[2].session = s
      BY <1>2, <3>1, <3>2
    <3>4. /\ OrdersOf(s)' = OrdersOf(s)
          /\ \A o \in OrdersOf(s) : LinesAfter(o, all \ {r})' = LinesAfter(o, all)
      BY <1>4, <3>2, <3>3, PutKeepsLines
    <3>5. m.todo = all \ {r} /\ m.billRow.session = s
      BY <1>5, <1>7, <3>1
    <3>6. [o \in OrdersOf(s)' |-> LinesAfter(o, m.todo)'] = [o \in OrdersOf(s) |-> LinesAfter(o, all)]
      BY <3>4, <3>5
    <3>7. m.billRow.subtotal = SumFunction([o \in OrdersOf(m.billRow.session)' |-> LinesAfter(o, m.todo)'])
      BY <3>2, <3>5, <3>6
    <3>8. \A x \in m.todo : x[1] \in OrdersOf(m.billRow.session)' /\ x[2].session = m.billRow.session
      BY <3>2, <3>4, <3>5
    <3>9. \A x, y \in m.todo : x[1] = y[1] => x = y
      BY <3>2, <3>5
    <3>. QED  BY <1>1, <1>7, <3>7, <3>8, <3>9 DEF AddsUp
  <2>. QED  BY <2>1, <2>2
<1>9. ~raced => SeqOK(m)'
  BY <1>1, <1>7, <1>8 DEF SeqOK, SeesAll, TablesFree, KeepsSession, ClosesSession, BillsSession
<1>10. ~At(c, "startBill", "putSession")
  BY <1>1 DEF At
<1>. QED  BY <1>1, <1>7, <1>9, <1>10, SeqRead

(* A call that puts a bill of the session it was a bill of, and ends or goes on *)
LEMMA SeqBillPut ==
  ASSUME Known, Orderly, NEW c \in Calls, c \in InFlight, NEW m \in CallRecs,
         call' = [call EXCEPT ![c] = m], UNCHANGED <<sessions, raced, died>>,
         ~At(c, "startBill", "putSession"),
         NEW b \in Calls, NEW row \in BillType, BillOf(b, row.session), PutBill(b, row),
         ~raced => SeqOK(m)'
  PROVE  Orderly'
<1>1. bills'[b] = row /\ \A d \in Calls : d # b => bills'[d] = bills[d]
  BY DEF PutBill, Known, Typed
<1>2. \A d \in Calls : bills'[d] # NoRow => bills[d] # NoRow /\ bills'[d].session = bills[d].session
  BY <1>1 DEF BillOf
<1>3. ~raced /\ ~died' => BillsOK
  BY DEF Orderly
<1>4. ~raced /\ ~died' => BillsOK'
  BY <1>2, <1>3, BillsStay
<1>. QED  BY <1>4, SeqStep

LEMMA PutTotalOrderly ==
  ASSUME Known, Orderly, NEW c \in Calls, c \in InFlight, PutTotal(c) PROVE Orderly'
<1>1. /\ call[c].step = "putOrders" /\ PutBill(call[c].bill, call[c].billRow)
      /\ call' = [call EXCEPT ![c] = Blank("done")] /\ UNCHANGED <<sessions, raced, died>>
  BY DEF PutTotal, Finish, Aside
<1>2. Typed /\ CallOK(c, call[c])
  BY DEF Known
<1>3. call[c].billRow # NoRow /\ BillOf(call[c].bill, call[c].billRow.session)
  BY <1>1, <1>2 DEF CallOK, HoldsNewBill, HoldsBill
<1>4. PICK row \in BillType, b \in Calls : row = call[c].billRow /\ b = call[c].bill
  BY <1>2, <1>3, CallFieldTypes DEF BillOf
<1>5. BillOf(b, row.session) /\ PutBill(b, row) /\ ~At(c, "startBill", "putSession")
  BY <1>1, <1>3, <1>4 DEF At
<1>. QED  BY <1>1, <1>5, BlankRests, SeqBillPut

LEMMA NumberReadsOrderly ==
  ASSUME Known, Orderly, NEW c \in Calls, c \in InFlight, NumberReads(c) PROVE Orderly'
<1>1. call[c].op = "number" /\ call[c].step = "read" /\ Reads
  BY DEF NumberReads, At
<1>2. PICK row \in SeenBill(call[c].bill) :
        IF row = NoRow THEN Finish(c)
        ELSE call' = SetBill(c, "putBill", [row EXCEPT !.numbered = TRUE])
  BY DEF NumberReads, SetBill
<1>3. "putBill" \in Steps /\ Typed /\ CallOK(c, call[c])
  BY DEF Known, Steps
<1>4. call[c].bill \in Calls
  BY <1>1, <1>3 DEF CallOK, Asked
<1>5. row \in BillType \cup {NoRow}
  BY <1>4, SeesBill
<1>6. ~At(c, "startBill", "putSession")
  BY <1>1 DEF At
<1>7. CASE row # NoRow
  <2>1. PICK new : new = [row EXCEPT !.numbered = TRUE]
    OBVIOUS
  <2>2. new \in BillType
    BY <1>5, <1>7, <2>1, BillEdits
  <2>5. call' = SetBill(c, "putBill", new)
    BY <1>2, <1>7, <2>1
  <2>3. PICK m \in CallRecs :
          /\ call' = [call EXCEPT ![c] = m]
          /\ m.op = call[c].op /\ m.step = "putBill" /\ m.session = call[c].session
          /\ m.bill = call[c].bill /\ m.billRow = new /\ m.todo = call[c].todo
    BY <1>3, <2>2, <2>5, BillRecord
  <2>4. SeqOK(m)'
    BY <1>1, <2>3
    DEF SeqOK, SeesAll, TablesFree, KeepsSession, ClosesSession, BillsSession, AddsUp
  <2>. QED  BY <1>1, <1>6, <2>3, <2>4, ReadsChangeNothing, SeqRead
<1>8. CASE row = NoRow
  BY <1>1, <1>2, <1>6, <1>8, FinishOrderly
<1>. QED  BY <1>7, <1>8

LEMMA NumberPutsOrderly ==
  ASSUME Known, Orderly, NEW c \in Calls, c \in InFlight, NumberPuts(c) PROVE Orderly'
<1>1. /\ call[c].op = "number" /\ call[c].step = "putBill"
      /\ PutBill(call[c].bill, call[c].billRow)
      /\ call' = [call EXCEPT ![c] = Blank("done")] /\ UNCHANGED <<sessions, raced, died>>
  BY DEF NumberPuts, Finish, At, Aside
<1>2. Typed /\ CallOK(c, call[c])
  BY DEF Known
<1>3. call[c].billRow # NoRow /\ BillOf(call[c].bill, call[c].billRow.session)
  BY <1>1, <1>2 DEF CallOK, HoldsBill
<1>4. PICK row \in BillType, b \in Calls : row = call[c].billRow /\ b = call[c].bill
  BY <1>2, <1>3, CallFieldTypes DEF BillOf
<1>5. BillOf(b, row.session) /\ PutBill(b, row) /\ ~At(c, "startBill", "putSession")
  BY <1>1, <1>3, <1>4 DEF At
<1>. QED  BY <1>1, <1>5, BlankRests, SeqBillPut

(* CloseTable *)
LEMMA CloseReadsSessionOrderly ==
  ASSUME Known, Orderly, NEW c \in Calls, c \in InFlight, CloseReadsSession(c) PROVE Orderly'
<1>1. call[c].op = "closeTable" /\ call[c].step = "read" /\ Reads
  BY DEF CloseReadsSession, At
<1>2. PICK row \in SeenSession(call[c].session) :
        IF row # NoRow /\ BillMatches(row, call[c].bill)
          THEN call' = SetSession(c, "readBill", [row EXCEPT !.status = "closed"])
          ELSE Finish(c)
  BY DEF CloseReadsSession, SetSession
<1>3. "readBill" \in Steps /\ Typed /\ CallOK(c, call[c])
  BY DEF Known, Steps
<1>4. call[c].session \in Ids
  BY <1>1, <1>3 DEF CallOK, Asked, SessionKnown
<1>5. row \in SessionType \cup {NoRow}
  BY <1>4, SeesSession
<1>6. ~At(c, "startBill", "putSession")
  BY <1>1 DEF At
<1>7. CASE row # NoRow /\ BillMatches(row, call[c].bill)
  <2>1. row \in SessionType /\ row.bill = call[c].bill
    BY <1>5, <1>7 DEF BillMatches
  <2>2. PICK new : new = [row EXCEPT !.status = "closed"]
    OBVIOUS
  <2>3. new \in SessionType /\ new.bill = row.bill /\ new.status = "closed"
    BY <2>1, <2>2, SessionEdits
  <2>4. call' = SetSession(c, "readBill", new)
    BY <1>2, <1>7, <2>2
  <2>5. PICK m \in CallRecs :
          /\ call' = [call EXCEPT ![c] = m]
          /\ m.op = call[c].op /\ m.step = "readBill" /\ m.session = call[c].session
          /\ m.bill = call[c].bill /\ m.sessionRow = new
    BY <1>3, <2>3, <2>4, SessionRecord
  <2>6. ASSUME ~raced PROVE SeqOK(m)'
    <3>1. stale = Current
      BY <1>1, <2>6 DEF Orderly, SeqOK, SeesAll
    <3>2. row = sessions[m.session]
      BY <1>4, <2>5, <3>1, SeesCurrent
    <3>3. (stale = Current)'
      BY <1>1, <3>1, ReadsChangeNothing DEF Current
    <3>4. sessions'[m.session].bill = m.bill
      BY <1>1, <2>1, <2>5, <3>2, ReadsChangeNothing
    <3>. QED  BY <1>1, <2>1, <2>3, <2>5, <3>3, <3>4
         DEF SeqOK, SeesAll, TablesFree, KeepsSession, ClosesSession, BillsSession, AddsUp
  <2>. QED  BY <1>1, <1>6, <2>5, <2>6, ReadsChangeNothing, SeqRead
<1>8. CASE ~(row # NoRow /\ BillMatches(row, call[c].bill))
  BY <1>1, <1>2, <1>6, <1>8, FinishOrderly
<1>. QED  BY <1>7, <1>8

LEMMA CloseReadsBillOrderly ==
  ASSUME Known, Orderly, NEW c \in Calls, c \in InFlight, CloseReadsBill(c) PROVE Orderly'
<1>1. call[c].op = "closeTable" /\ call[c].step = "readBill" /\ Reads
  BY DEF CloseReadsBill, At
<1>2. PICK row \in SeenBill(call[c].bill) :
        IF row = NoRow THEN Finish(c)
        ELSE call' = SetBill(c, "putBill", [row EXCEPT !.paid = TRUE])
  BY DEF CloseReadsBill, SetBill
<1>3. "putBill" \in Steps /\ Typed /\ CallOK(c, call[c])
  BY DEF Known, Steps
<1>4. call[c].bill \in Calls
  BY <1>1, <1>3 DEF CallOK, Asked
<1>5. row \in BillType \cup {NoRow}
  BY <1>4, SeesBill
<1>6. ~At(c, "startBill", "putSession")
  BY <1>1 DEF At
<1>7. CASE row # NoRow
  <2>1. PICK new : new = [row EXCEPT !.paid = TRUE]
    OBVIOUS
  <2>2. new \in BillType /\ new.paid = TRUE
    BY <1>5, <1>7, <2>1, BillEdits
  <2>3. call' = SetBill(c, "putBill", new)
    BY <1>2, <1>7, <2>1
  <2>4. PICK m \in CallRecs :
          /\ call' = [call EXCEPT ![c] = m]
          /\ m.op = call[c].op /\ m.step = "putBill" /\ m.session = call[c].session
          /\ m.bill = call[c].bill /\ m.sessionRow = call[c].sessionRow /\ m.billRow = new
    BY <1>3, <2>2, <2>3, BillRecord
  <2>5. ASSUME ~raced PROVE SeqOK(m)'
    <3>1. /\ sessions[m.session].bill = m.bill
          /\ m.sessionRow.bill = m.bill /\ m.sessionRow.status = "closed"
      BY <1>1, <2>4, <2>5 DEF Orderly, SeqOK, ClosesSession
    <3>2. sessions'[m.session].bill = m.bill
      BY <1>1, <3>1, ReadsChangeNothing
    <3>. QED  BY <1>1, <2>2, <2>4, <3>1, <3>2
         DEF SeqOK, SeesAll, TablesFree, KeepsSession, ClosesSession, BillsSession, AddsUp
  <2>. QED  BY <1>1, <1>6, <2>4, <2>5, ReadsChangeNothing, SeqRead
<1>8. CASE row = NoRow
  BY <1>1, <1>2, <1>6, <1>8, FinishOrderly
<1>. QED  BY <1>7, <1>8

LEMMA ClosePutsBillOrderly ==
  ASSUME Known, Orderly, NEW c \in Calls, c \in InFlight, ClosePutsBill(c) PROVE Orderly'
<1>1. /\ call[c].op = "closeTable" /\ call[c].step = "putBill" /\ Goto(c, "putSession")
      /\ PutBill(call[c].bill, call[c].billRow) /\ UNCHANGED <<sessions, raced, died>>
  BY DEF ClosePutsBill, At, Aside
<1>2. "putSession" \in Steps /\ Typed /\ CallOK(c, call[c])
  BY DEF Known, Steps
<1>3. call[c].billRow # NoRow /\ BillOf(call[c].bill, call[c].billRow.session)
  BY <1>1, <1>2 DEF CallOK, HoldsBill
<1>4. PICK row \in BillType, b \in Calls : row = call[c].billRow /\ b = call[c].bill
  BY <1>2, <1>3, CallFieldTypes DEF BillOf
<1>5. BillOf(b, row.session) /\ PutBill(b, row) /\ ~At(c, "startBill", "putSession")
  BY <1>1, <1>3, <1>4 DEF At
<1>6. PICK m \in CallRecs :
        /\ call' = [call EXCEPT ![c] = m]
        /\ m.op = call[c].op /\ m.step = "putSession" /\ m.session = call[c].session
        /\ m.bill = call[c].bill /\ m.sessionRow = call[c].sessionRow
  BY <1>1, <1>2, StepRecord
<1>7. ASSUME ~raced PROVE SeqOK(m)'
  <2>1. /\ sessions[m.session].bill = m.bill /\ row.paid
        /\ m.sessionRow.bill = m.bill /\ m.sessionRow.status = "closed"
    BY <1>1, <1>4, <1>6, <1>7 DEF Orderly, SeqOK, ClosesSession
  <2>2. sessions'[m.session].bill = m.bill /\ bills'[m.bill].paid
    BY <1>1, <1>2, <1>4, <1>5, <1>6, <2>1 DEF PutBill, Typed
  <2>. QED  BY <1>1, <1>6, <2>1, <2>2
       DEF SeqOK, SeesAll, TablesFree, KeepsSession, ClosesSession, BillsSession, AddsUp
<1>. QED  BY <1>1, <1>5, <1>6, <1>7, SeqBillPut

(* UpdateOrder and the kitchen's patches *)
LEMMA EditReadsOrderly ==
  ASSUME Known, Orderly, NEW c \in Calls, c \in InFlight, EditReads(c) PROVE Orderly'
<1>1. call[c].op = "editOrder" /\ call[c].step = "read" /\ Reads
  BY DEF EditReads, At
<1>2. PICK todo : call' = SetStepTodo(c, "putOrder", todo)
  BY DEF EditReads, SetStepTodo
<1>3. call \in [Calls -> CallRecs] /\ call[c] \in CallRecs
  BY DEF Known, Typed
<1>4. PICK m : m = With(call[c], "putOrder", call[c].sessionRow, call[c].billRow, call[c].bill, todo)
  OBVIOUS
<1>5. m.op = call[c].op /\ m.step = "putOrder"
  BY <1>4, WithFields
<1>6. call' = [call EXCEPT ![c] = m]
  BY <1>2, <1>3, <1>4, SetStepTodoWith
<1>7. m \in CallRecs
  <2>1. Known'
    BY EditReadsKnown
  <2>. QED  BY <1>3, <1>6, <2>1 DEF Known, Typed
<1>8. SeqOK(m)'
  BY <1>1, <1>5
  DEF SeqOK, SeesAll, TablesFree, KeepsSession, ClosesSession, BillsSession, AddsUp
<1>9. ~At(c, "startBill", "putSession")
  BY <1>1 DEF At
<1>. QED  BY <1>1, <1>6, <1>7, <1>8, <1>9, ReadsChangeNothing, SeqRead

LEMMA EditPutsOrderly ==
  ASSUME Known, Orderly, NEW c \in Calls, c \in InFlight, EditPuts(c) PROVE Orderly'
<1>1. /\ call' = [call EXCEPT ![c] = Blank("done")] /\ UNCHANGED <<sessions, bills, raced, died>>
      /\ ~At(c, "startBill", "putSession")
  BY DEF EditPuts, At, Aside, Finish
<1>. QED  BY <1>1, BlankRests, SeqRead

-----------------------------------------------------------------------------
(* The second invariant: theorems *)

LEMMA StutterOrderly == ASSUME Orderly, UNCHANGED vars PROVE Orderly'
<1>1. UNCHANGED <<sessions, orders, bills, stale, call, raced, died>>
  BY DEF vars, tables
<1>2. \A c \in Calls : TablesFree(call[c]) => TablesFree(call[c])'
  BY <1>1 DEF TablesFree, OpenedSince
<1>. QED  BY <1>1, <1>2
     DEF Orderly, Alone, InFlight, SeqOK, SeesAll, KeepsSession, ClosesSession,
         BillsSession, AddsUp, LinesAfter, OrdersOf, BillsOK, At, Current, TablesOverlap

LEMMA NextOrderly == Known /\ Orderly /\ [Next]_vars => Orderly'
<1> SUFFICES ASSUME Known, Orderly, [Next]_vars PROVE Orderly'
  OBVIOUS
<1>1. CASE UNCHANGED vars
  BY <1>1, StutterOrderly
<1>2. CASE CatchUp
  BY <1>2, CatchUpOrderly
<1>3. CASE AllDone
  BY <1>3, StutterOrderly DEF AllDone
<1>4. ASSUME NEW c \in Calls, Start(c) \/ Step(c) \/ Die(c) PROVE Orderly'
  <2>1. CASE Start(c)
    BY <2>1, StartOrderly
  <2>2. CASE Die(c)
    BY <2>2, DieOrderly
  <2>3. CASE Step(c)
    <3>1. c \in InFlight
      BY <2>3, StepMoves
    <3>2. CASE FindsTableOpen(c)
      BY <3>1, <3>2, FinishOrderly DEF FindsTableOpen, At
    <3>3. CASE FindsTablesFree(c) \/ CreateSession(c) \/ CreateFirstOrder(c)
      BY <3>1, <3>3, FindsTablesFreeOrderly, CreateSessionOrderly, CreateFirstOrderOrderly
    <3>4. CASE AddOrderReads(c) \/ AddOrderPuts(c) \/ UpdateSessionReads(c) \/ PutSessionBack(c)
      BY <3>1, <3>4, AddOrderReadsOrderly, AddOrderPutsOrderly, UpdateSessionReadsOrderly,
         PutSessionBackOrderly
    <3>5. CASE StartBillReads(c) \/ StartBillPutsBill(c) \/ StartBillPutsSession(c)
      BY <3>1, <3>5, StartBillReadsOrderly, StartBillPutsBillOrderly, StartBillPutsSessionOrderly
    <3>6. CASE StartBillReadsOrders(c) \/ PutNextOrder(c) \/ PutTotal(c)
      BY <3>1, <3>6, StartBillReadsOrdersOrderly, PutNextOrderOrderly, PutTotalOrderly
    <3>7. CASE UpdateBillReads(c) \/ UpdateBillReadsOrders(c) \/ NumberReads(c) \/ NumberPuts(c)
      BY <3>1, <3>7, UpdateBillReadsOrderly, UpdateBillReadsOrdersOrderly, NumberReadsOrderly,
         NumberPutsOrderly
    <3>8. CASE CloseReadsSession(c) \/ CloseReadsBill(c) \/ ClosePutsBill(c)
      BY <3>1, <3>8, CloseReadsSessionOrderly, CloseReadsBillOrderly, ClosePutsBillOrderly
    <3>9. CASE EditReads(c) \/ EditPuts(c)
      BY <3>1, <3>9, EditReadsOrderly, EditPutsOrderly
    <3>. QED  BY <2>3, <3>2, <3>3, <3>4, <3>5, <3>6, <3>7, <3>8, <3>9 DEF Step
  <2>. QED  BY <1>4, <2>1, <2>2, <2>3
<1>. QED  BY <1>1, <1>2, <1>3, <1>4 DEF Next

THEOREM ServiceOrderly == Spec => []Orderly
BY InitKnown, NextKnown, InitOrderly, NextOrderly, PTL DEF Spec

(* Calls stay one after the other only if they were. *)
LEMMA RacedStays == ASSUME Next, ~raced' PROVE ~raced
<1>1. CASE CatchUp \/ AllDone
  BY <1>1 DEF CatchUp, AllDone, vars
<1>2. ASSUME NEW c \in Calls, Start(c) \/ Die(c) PROVE ~raced
  BY <1>2 DEF Start, Die
<1>3. ASSUME NEW c \in Calls, Step(c) PROVE ~raced
  BY <1>3 DEF Step, Reads, Aside, FindsTablesFree, FindsTableOpen, CreateSession,
     CreateFirstOrder, AddOrderReads, AddOrderPuts, UpdateSessionReads, PutSessionBack,
     StartBillReads, StartBillPutsBill, StartBillPutsSession, StartBillReadsOrders,
     PutNextOrder, PutTotal, UpdateBillReads, UpdateBillReadsOrders, NumberReads, NumberPuts,
     CloseReadsSession, CloseReadsBill, ClosePutsBill, EditReads, EditPuts
<1>. QED  BY <1>1, <1>2, <1>3 DEF Next

(* Three steps put a session. *)
LEMMA SessionPuts ==
  ASSUME Next
  PROVE  \/ UNCHANGED sessions
         \/ \E c \in Calls : CreateSession(c) \/ PutSessionBack(c) \/ StartBillPutsSession(c)
<1>1. CASE CatchUp \/ AllDone
  BY <1>1 DEF CatchUp, AllDone, vars, tables
<1>2. ASSUME NEW c \in Calls, Start(c) \/ Die(c) PROVE UNCHANGED sessions
  BY <1>2 DEF Start, Die, tables
<1>3. ASSUME NEW c \in Calls, Step(c)
      PROVE  UNCHANGED sessions \/ CreateSession(c) \/ PutSessionBack(c) \/ StartBillPutsSession(c)
  BY <1>3 DEF Step, Reads, tables, FindsTablesFree, FindsTableOpen,
     CreateFirstOrder, AddOrderReads, AddOrderPuts, UpdateSessionReads,
     StartBillReads, StartBillPutsBill, StartBillReadsOrders,
     PutNextOrder, PutTotal, UpdateBillReads, UpdateBillReadsOrders, NumberReads, NumberPuts,
     CloseReadsSession, CloseReadsBill, ClosePutsBill, EditReads, EditPuts
<1>. QED  BY <1>1, <1>2, <1>3 DEF Next

(* What each of them puts *)
LEMMA PutsOnlyItsSession ==
  ASSUME Known, NEW s \in Ids, NEW row, PutSession(s, row)
  PROVE  sessions'[s] = row /\ \A t \in Ids : t # s => sessions'[t] = sessions[t]
BY DEF PutSession, Known, Typed

(* One call after the other, a session starts only on tables that no other *)
(* open session holds (findOpenSessionForAnyTable, then the put), also     *)
(* after tables were joined, moved or closed, unless at least SessionLimit *)
(* other sessions were opened since the one that holds the table: the      *)
(* search looks no further (billing_service.go:75).                        *)
THEOREM ServiceNewSessionsGetFreeTables == Spec => NewSessionsGetFreeTables
<1>1. ASSUME Known, Orderly, Next, NEW s \in Ids, ~raced', sessions[s] = NoRow,
             sessions'[s] # NoRow, NEW t \in Ids,
             TablesOverlap(sessions[t], sessions'[s].tables)
      PROVE  Cardinality(OpenedSince(t)) >= SessionLimit
  <2>1. ~raced /\ Typed
    BY <1>1, RacedStays DEF Known
  <2>2. PICK c \in Calls : CreateSession(c) \/ PutSessionBack(c) \/ StartBillPutsSession(c)
    BY <1>1, SessionPuts
  <2>3. CallOK(c, call[c]) /\ SeqOK(call[c])
    BY <1>1, <2>1 DEF Known, Orderly
  <2>4. CASE CreateSession(c)
    <3>1. /\ call[c].op = "create" /\ call[c].step = "putSession" /\ c \in Ids
          /\ PutSession(c, call[c].sessionRow)
      BY <2>4 DEF CreateSession, At, Ids
    <3>2. \A i \in Ids : TablesOverlap(sessions[i], call[c].sessionRow.tables) =>
            Cardinality(OpenedSince(i)) >= SessionLimit
      BY <2>3, <3>1 DEF SeqOK, TablesFree
    <3>3. sessions'[c] = call[c].sessionRow /\ \A i \in Ids : i # c => sessions'[i] = sessions[i]
      BY <1>1, <3>1, PutsOnlyItsSession
    <3>4. s = c
      BY <1>1, <3>3
    <3>. QED  BY <1>1, <3>2, <3>3, <3>4
  <2>5. CASE PutSessionBack(c) \/ StartBillPutsSession(c)
    <3>1. PutSession(call[c].session, call[c].sessionRow)
      BY <2>5 DEF PutSessionBack, StartBillPutsSession
    <3>2. call[c].session \in Ids /\ sessions[call[c].session] # NoRow
      BY <2>3, <2>5 DEF PutSessionBack, StartBillPutsSession, At, CallOK, Asked, SessionKnown
    <3>3. \A i \in Ids : i # call[c].session => sessions'[i] = sessions[i]
      BY <1>1, <3>1, <3>2, PutsOnlyItsSession
    <3>. QED  BY <1>1, <3>2, <3>3
  <2>. QED  BY <2>2, <2>4, <2>5
<1>2. Known /\ Orderly /\ [Next]_vars =>
        [\A s \in Ids : (~raced' /\ sessions[s] = NoRow /\ sessions'[s] # NoRow) =>
           \A t \in Ids : TablesOverlap(sessions[t], sessions'[s].tables) =>
             Cardinality(OpenedSince(t)) >= SessionLimit]_vars
  BY <1>1
<1>. QED  BY <1>2, ServiceKnown, ServiceOrderly, PTL DEF Spec, NewSessionsGetFreeTables

(* For calls that come one after the other: when CloseTable puts a session *)
(* closed, the session's own bill is paid, and it stays closed.            *)
THEOREM ServiceClosedIsSettled == Spec => ClosedIsSettled
<1>1. ASSUME Known, Orderly, Next, ~raced', NEW s \in Ids
      PROVE  /\ IsClosed(sessions[s]) => IsClosed(sessions'[s])
             /\ (~IsClosed(sessions[s]) /\ IsClosed(sessions'[s])) =>
                  sessions[s].bill # NoBill /\ bills[sessions[s].bill].paid
  <2>1. ~raced /\ Typed
    BY <1>1, RacedStays DEF Known
  <2>2. CASE UNCHANGED sessions
    BY <2>2 DEF IsClosed
  <2>3. ASSUME NEW c \in Calls, CreateSession(c)
        PROVE  sessions'[s] = sessions[s] \/ (~IsClosed(sessions[s]) /\ ~IsClosed(sessions'[s]))
    <3>1. /\ call[c].op = "create" /\ call[c].step = "putSession" /\ c \in Ids
          /\ PutSession(c, call[c].sessionRow) /\ sessions[c] = NoRow
          /\ call[c].sessionRow.status = "live"
      BY <1>1, <2>3 DEF CreateSession, At, Ids, Known, CallOK, NotYet, HoldsSession
    <3>2. sessions'[c] = call[c].sessionRow /\ \A i \in Ids : i # c => sessions'[i] = sessions[i]
      BY <1>1, <3>1, PutsOnlyItsSession
    <3>. QED  BY <3>1, <3>2 DEF IsClosed
  <2>4. ASSUME NEW c \in Calls, PutSessionBack(c) \/ StartBillPutsSession(c)
        PROVE  \/ sessions'[s] = sessions[s]
               \/ ~IsClosed(sessions[s]) /\ ~IsClosed(sessions'[s])
               \/ /\ IsClosed(sessions'[s])
                  /\ sessions[s].bill # NoBill /\ bills[sessions[s].bill].paid
    <3>1. CallOK(c, call[c]) /\ SeqOK(call[c])
      BY <1>1, <2>1 DEF Known, Orderly
    <3>2. PutSession(call[c].session, call[c].sessionRow)
      BY <2>4 DEF PutSessionBack, StartBillPutsSession
    <3>3. call[c].session \in Ids
      BY <2>4, <3>1 DEF PutSessionBack, StartBillPutsSession, At, CallOK, Asked, SessionKnown
    <3>4. /\ sessions'[call[c].session] = call[c].sessionRow
          /\ \A i \in Ids : i # call[c].session => sessions'[i] = sessions[i]
      BY <1>1, <3>2, <3>3, PutsOnlyItsSession
    <3>5. CASE StartBillPutsSession(c)
      <4>1. /\ sessions[call[c].session].status = "live" /\ call[c].sessionRow.status = "billing"
        BY <3>1, <3>5 DEF StartBillPutsSession, At, SeqOK, BillsSession
      <4>. QED  BY <3>4, <4>1 DEF IsClosed
    <3>6. CASE PutSessionBack(c) /\ call[c].op # "closeTable"
      <4>1. Open(sessions[call[c].session]) /\ Open(call[c].sessionRow)
        BY <3>1, <3>6 DEF PutSessionBack, SeqOK, KeepsSession
      <4>. QED  BY <3>4, <4>1 DEF IsClosed, Open
    <3>7. CASE PutSessionBack(c) /\ call[c].op = "closeTable"
      <4>1. /\ sessions[call[c].session].bill = call[c].bill
            /\ call[c].sessionRow.status = "closed" /\ bills[call[c].bill].paid
        BY <3>1, <3>7 DEF PutSessionBack, SeqOK, ClosesSession
      <4>2. call[c].sessionRow # NoRow /\ call[c].bill # NoBill
        BY <3>1, <3>7, ServiceAssumption DEF PutSessionBack, CallOK, HoldsSession, Asked
      <4>. QED  BY <3>4, <4>1, <4>2 DEF IsClosed
    <3>. QED  BY <2>4, <3>5, <3>6, <3>7
  <2>. QED  BY <1>1, <2>2, <2>3, <2>4, SessionPuts
<1>2. Known /\ Orderly /\ [Next]_vars =>
        [~raced' => \A s \in Ids :
           /\ IsClosed(sessions[s]) => IsClosed(sessions'[s])
           /\ (~IsClosed(sessions[s]) /\ IsClosed(sessions'[s])) =>
                sessions[s].bill # NoBill /\ bills[sessions[s].bill].paid]_vars
  BY <1>1
<1>. QED  BY <1>2, ServiceKnown, ServiceOrderly, PTL DEF Spec, ClosedIsSettled

(* One call after the other, none dying half way, a session has at most    *)
(* one bill, however often StartBill is retried.                           *)
THEOREM ServiceOneBillPerSession == Spec => []OneBillPerSession
<1>1. Known /\ Orderly => OneBillPerSession
  <2> SUFFICES ASSUME Known, Orderly, ~raced, ~died, NEW s \in Ids
               PROVE  Cardinality(BillsOf(s)) <= 1
    BY DEF OneBillPerSession
  <2>1. Alone /\ BillsOK
    BY DEF Orderly
  <2>2. ASSUME NEW a \in BillsOf(s), NEW b \in BillsOf(s), sessions[s].bill = a,
               At(b, "startBill", "putSession")
        PROVE  a = b
    <3>1. BillOf(b, call[b].session) /\ sessions[call[b].session].bill = NoBill
      BY <2>2 DEF Known, CallOK, HoldsNewBill, Orderly, SeqOK, BillsSession, At, BillsOf
    <3>2. call[b].session = s /\ a \in Calls
      BY <3>1 DEF BillsOf, BillOf
    <3>. QED  BY <2>2, <3>1, <3>2, ServiceAssumption
  <2>3. ASSUME NEW a \in BillsOf(s), NEW b \in BillsOf(s) PROVE a = b
    <3>1. /\ sessions[s].bill = a \/ At(a, "startBill", "putSession")
          /\ sessions[s].bill = b \/ At(b, "startBill", "putSession")
          /\ a \in Calls /\ b \in Calls
      BY <2>1 DEF BillsOK, BillsOf
    <3>2. CASE At(a, "startBill", "putSession") /\ At(b, "startBill", "putSession")
      BY <2>1, <3>1, <3>2 DEF Alone, InFlight, At
    <3>. QED  BY <2>2, <3>1, <3>2
  <2>4. CASE BillsOf(s) = {}
    BY <2>4, FS_EmptySet
  <2>5. ASSUME NEW b \in BillsOf(s) PROVE Cardinality(BillsOf(s)) <= 1
    <3>1. BillsOf(s) = {b}
      BY <2>3
    <3>2. Cardinality({b}) = 1
      BY FS_Singleton
    <3>. QED  BY <3>1, <3>2
  <2>. QED  BY <2>4, <2>5
<1>. QED  BY <1>1, ServiceKnown, ServiceOrderly, PTL

(* When UpdateBill has put the bill, its subtotal is what the lines of all *)
(* orders of the session add up to, the edits just made included.          *)
THEOREM ServiceRolledUp == Spec => RolledUp
<1>1. ASSUME Known, Orderly, Next, NEW c \in Calls,
             ~raced', call[c].op = "updateBill", call[c].step = "putOrders",
             call[c].todo = {}, bills'[call[c].bill] = call[c].billRow
      PROVE  bills'[call[c].bill].subtotal =
               SumFunction([o \in OrdersOf(bills[call[c].bill].session) |-> orders[o].lines])
  <2>1. ~raced
    BY <1>1, RacedStays
  <2>2. BillOf(call[c].bill, call[c].billRow.session)
    BY <1>1 DEF Known, CallOK, HoldsBill
  <2>3. PICK s : s = call[c].billRow.session /\ bills[call[c].bill].session = s
    BY <2>2 DEF BillOf
  <2>4. call[c].billRow.subtotal = SumFunction([o \in OrdersOf(s) |-> LinesAfter(o, {})])
    BY <1>1, <2>1, <2>3 DEF Orderly, SeqOK, AddsUp
  <2>5. [o \in OrdersOf(s) |-> LinesAfter(o, {})] = [o \in OrdersOf(s) |-> orders[o].lines]
    BY LinesAfterNone
  <2>6. call[c].billRow.subtotal = SumFunction([o \in OrdersOf(s) |-> orders[o].lines])
    BY <2>4, <2>5
  <2>. QED  BY <1>1, <2>3, <2>6
<1>2. Known /\ Orderly /\ [Next]_vars =>
        [\A c \in Calls :
           (/\ ~raced' /\ call[c].op = "updateBill" /\ call[c].step = "putOrders"
            /\ call[c].todo = {} /\ call'[c].step = "done"
            /\ bills'[call[c].bill] = call[c].billRow) =>
           bills'[call[c].bill].subtotal =
             SumFunction([o \in OrdersOf(bills[call[c].bill].session) |-> orders[o].lines])]_vars
  BY <1>1
<1>. QED  BY <1>2, ServiceKnown, ServiceOrderly, PTL DEF Spec, RolledUp

=============================================================================
