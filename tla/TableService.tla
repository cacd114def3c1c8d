---------------------------- MODULE TableService ----------------------------
(***************************************************************************)
(* Table sessions, their orders and their bill: the waiter half of         *)
(* api/billing/billing_service.go.  A call is one Lambda invocation.  It   *)
(* reads rows, decides, and puts whole rows back without any condition;    *)
(* calls interleave at every request to the store and may die there.       *)
(*                                                                         *)
(* No read is consistent here: a get or a query may miss what was written  *)
(* last.  "stale" is the oldest copy of each row a read may still see.     *)
(*                                                                         *)
(* Every id is generated (a uuid), so the session, order or bill a call    *)
(* creates is named after the call.  "first" is a session, with one order, *)
(* opened earlier.  An order is reduced to the total it records and what   *)
(* its lines add up to; a bill to its subtotal, payment and number.        *)
(***************************************************************************)
EXTENDS Integers, FiniteSets, Functions

CONSTANTS
  Calls,       \* the Lambda invocations
  first,       \* the session and the order that exist at the start
  Tables,      \* physical tables
  Prices,      \* what an order may be edited to, in paise
  Times,       \* what the clock may show, in coarse steps
  SessionLimit,\* how many sessions a search looks at (500 in the code)
  MaxInFlight, \* bound: calls that may be under way at once
  NoRow,       \* the store has no such row
  NoBill,      \* a session or an order without a bill
  NoSession    \* a request that names no session

VARIABLES
  sessions,  \* the sessions table
  orders,    \* the orders table
  bills,     \* the bills table
  stale,     \* the three tables as lagging replicas and indexes show them
  call,      \* call[c]: what invocation c does, was asked, and holds in memory
  raced,     \* history: a call began beside another one, or before all that
             \* was written earlier was visible everywhere
  died       \* history: a call ended before its last step

tables == <<sessions, orders, bills>>
vars == <<tables, stale, call, raced, died>>

Ids == Calls \cup {first}
Statuses == {"live", "billing", "closed"}
Bills == Calls \cup {NoBill}

SessionType == [tables : SUBSET Tables, status : Statuses, bill : Bills, openedAt : Times]
OrderType == [session : Ids, price : Nat, lines : Nat, bill : Bills]
BillType == [session : Ids, subtotal : Nat, paid : BOOLEAN, numbered : BOOLEAN]

ASSUME ServiceAssumption ==
  /\ IsFiniteSet(Calls)
  /\ first \notin Calls
  /\ Prices \subseteq Nat
  /\ Times \subseteq Nat
  /\ SessionLimit \in Nat \ {0}
  /\ MaxInFlight \in Nat
  /\ NoRow \notin SessionType \cup OrderType \cup BillType
  /\ NoBill \notin Calls
  /\ NoSession \notin Ids

Ops == {"create", "addOrder", "updateSession", "startBill", "updateBill",
        "closeTable", "editOrder", "number", "none"}
Steps == {"idle", "read", "readBill", "readOrders", "putSession", "putBill",
          "putOrder", "putOrders", "putTotal", "done"}

StoreType ==
  [sessions : [Ids -> SessionType \cup {NoRow}],
   orders : [Ids -> OrderType \cup {NoRow}],
   bills : [Calls -> BillType \cup {NoRow}]]

CallType ==
  [op : Ops, step : Steps,
   session : Ids \cup {NoSession}, bill : Bills, tables : SUBSET Tables,
   sessionRow : SessionType \cup {NoRow}, billRow : BillType \cup {NoRow}]

Current == [sessions |-> sessions, orders |-> orders, bills |-> bills]

(* The part of a call record besides the orders it has yet to put *)
CallFields(c) ==
  [op |-> call[c].op, step |-> call[c].step,
   session |-> call[c].session, bill |-> call[c].bill, tables |-> call[c].tables,
   sessionRow |-> call[c].sessionRow, billRow |-> call[c].billRow]

TypeOK ==
  /\ sessions \in [Ids -> SessionType \cup {NoRow}]
  /\ orders \in [Ids -> OrderType \cup {NoRow}]
  /\ bills \in [Calls -> BillType \cup {NoRow}]
  /\ DOMAIN stale = {"sessions", "orders", "bills"}
  /\ stale.sessions \in [Ids -> SessionType \cup {NoRow}]
  /\ stale.orders \in [Ids -> OrderType \cup {NoRow}]
  /\ stale.bills \in [Calls -> BillType \cup {NoRow}]
  /\ \A c \in Calls : CallFields(c) \in CallType /\ call[c].todo \subseteq Ids \X OrderType
  /\ raced \in BOOLEAN
  /\ died \in BOOLEAN

-----------------------------------------------------------------------------
(* Rows *)

NewOrder(s, b) == [session |-> s, price |-> 1, lines |-> 1, bill |-> b]
NewSession(ts, now) == [tables |-> ts, status |-> "live", bill |-> NoBill, openedAt |-> now]

(* The bill of session s, and its slip of not naming the session *)
NewBill_detached(s) == [session |-> NoSession, subtotal |-> 0, paid |-> FALSE, numbered |-> FALSE]
NewBill(s) == [session |-> s, subtotal |-> 0, paid |-> FALSE, numbered |-> FALSE]

Open(row) == row # NoRow /\ row.status \in {"live", "billing"}

(* What a get may return *)
SeenSession(s) == {sessions[s], stale.sessions[s]}
SeenOrder(o) == {orders[o], stale.orders[o]}
SeenBill(b) == {bills[b], stale.bills[b]}

(* What a query for the orders of a session may return, as <<id, row>> *)
RowsOf(view, s) ==
  {<<o, view[o]>> : o \in {i \in Ids : view[i] # NoRow /\ view[i].session = s}}
SeenOrders(s) ==
  {RowsOf([o \in Ids |-> IF o \in late THEN stale.orders[o] ELSE orders[o]], s) :
     late \in SUBSET {o \in Ids : stale.orders[o] # orders[o]}}

(* StartBill adds up the totals the orders record, UpdateBill their lines *)
SumOfPrices(rows) == SumFunction([r \in rows |-> r[2].price])
SumOfLines_asPriced(rows) == SumFunction([r \in rows |-> r[2].price])
SumOfLines(rows) == SumFunction([r \in rows |-> r[2].lines])

PutSession(s, row) == sessions' = [sessions EXCEPT ![s] = row]
PutOrder(o, row) == orders' = [orders EXCEPT ![o] = row]
PutBill(b, row) == bills' = [bills EXCEPT ![b] = row]

-----------------------------------------------------------------------------
(* A call's bookkeeping *)

Blank(step) ==
  [op |-> "none", step |-> step, session |-> NoSession, bill |-> NoBill, tables |-> {},
   sessionRow |-> NoRow, billRow |-> NoRow, todo |-> {}]

At(c, o, step) == call[c].op = o /\ call[c].step = step
Goto(c, step) == call' = [call EXCEPT ![c].step = step]
Finish(c) == call' = [call EXCEPT ![c] = Blank("done")]
InFlight == {c \in Calls : call[c].step \notin {"idle", "done"}}

Reads == UNCHANGED <<tables, stale, raced, died>>
Aside == UNCHANGED <<stale, raced, died>>

Init ==
  /\ \E ts \in SUBSET Tables \ {{}}, at \in Times :
       sessions = [s \in Ids |-> IF s = first THEN NewSession(ts, at) ELSE NoRow]
  /\ orders = [o \in Ids |-> IF o = first THEN NewOrder(first, NoBill) ELSE NoRow]
  /\ bills = [b \in Calls |-> NoRow]
  /\ stale = Current
  /\ call = [c \in Calls |-> Blank("idle")]
  /\ raced = FALSE
  /\ died = FALSE

(* What clients ask for: tables for a new session or for an update, which  *)
(* may leave them alone; otherwise rows that exist.                        *)
Request(o, s, b, ts) ==
  [Blank("read") EXCEPT !.op = o, !.session = s, !.bill = b, !.tables = ts]

Requests ==
  LET known == {s \in Ids : sessions[s] # NoRow}
      billed == {b \in Calls : bills[b] # NoRow}
  IN {Request("create", NoSession, NoBill, ts) : ts \in SUBSET Tables \ {{}}}
     \cup {Request("updateSession", s, NoBill, ts) : s \in known, ts \in SUBSET Tables}
     \cup {Request(o, s, NoBill, {}) : o \in {"addOrder", "startBill"}, s \in known}
     \cup {Request("closeTable", s, b, {}) : s \in known, b \in billed}
     \cup {Request(o, NoSession, b, {}) : o \in {"updateBill", "number"}, b \in billed}
     \cup {Request("editOrder", NoSession, NoBill, {})}

Start(c) ==
  /\ call[c].step = "idle"
  /\ Cardinality(InFlight) < MaxInFlight
  /\ \E r \in Requests : call' = [call EXCEPT ![c] = r]
  /\ raced' = (raced \/ InFlight # {} \/ stale # Current)
  /\ UNCHANGED <<tables, stale, died>>

-----------------------------------------------------------------------------
(* CreateSessionAndFirstOrder *)

TablesOverlap(row, ts) == Open(row) /\ row.tables \cap ts # {}

(* What a query for the sessions of the venue may come from *)
SessionViews ==
  {[s \in Ids |-> IF s \in late THEN stale.sessions[s] ELSE sessions[s]] :
     late \in SUBSET {s \in Ids : stale.sessions[s] # sessions[s]}}

(* It lists the newest sessions, open or not, up to the limit; the order   *)
(* of those opened at the same time is any.  The slip lists the oldest.    *)
Newest_oldest(view, listed) ==
  LET shown == {s \in Ids : view[s] # NoRow} IN
    /\ listed \subseteq shown /\ Cardinality(listed) <= SessionLimit
    /\ listed = shown \/ Cardinality(listed) = SessionLimit
    /\ \A s \in listed, o \in shown \ listed : view[s].openedAt <= view[o].openedAt
Newest(view, listed) ==
  LET shown == {s \in Ids : view[s] # NoRow} IN
    /\ listed \subseteq shown /\ Cardinality(listed) <= SessionLimit
    /\ listed = shown \/ Cardinality(listed) = SessionLimit
    /\ \A s \in listed, o \in shown \ listed : view[o].openedAt <= view[s].openedAt

(* findOpenSessionForAnyTable over what the query lists *)
TablesSeemFree(ts) ==
  \E view \in SessionViews, listed \in SUBSET Ids :
    Newest(view, listed) /\ \A s \in listed : ~TablesOverlap(view[s], ts)
TablesSeemTaken(ts) ==
  \E view \in SessionViews, listed \in SUBSET Ids :
    Newest(view, listed) /\ \E s \in listed : TablesOverlap(view[s], ts)

(* The clock is read after the search and never behind a stored session *)
FindsTablesFree(c) ==
  /\ At(c, "create", "read")
  /\ TablesSeemFree(call[c].tables)
  /\ \E now \in Times :
       /\ \A s \in Ids : sessions[s] # NoRow => sessions[s].openedAt <= now
       /\ call' = [call EXCEPT ![c].step = "putSession",
                               ![c].sessionRow = NewSession(call[c].tables, now)]
  /\ Reads

FindsTableOpen(c) ==
  /\ At(c, "create", "read")
  /\ TablesSeemTaken(call[c].tables)
  /\ Finish(c)
  /\ Reads

CreateSession(c) ==
  /\ At(c, "create", "putSession")
  /\ PutSession(c, call[c].sessionRow)
  /\ Goto(c, "putOrder")
  /\ Aside /\ UNCHANGED <<orders, bills>>

CreateFirstOrder(c) ==
  /\ At(c, "create", "putOrder")
  /\ PutOrder(c, NewOrder(c, NoBill))
  /\ Finish(c)
  /\ Aside /\ UNCHANGED <<sessions, bills>>

-----------------------------------------------------------------------------
(* AddOrder and UpdateSession *)

AddOrderReads(c) ==
  /\ At(c, "addOrder", "read")
  /\ \E row \in SeenSession(call[c].session) :
       IF Open(row)
         THEN call' = [call EXCEPT ![c].step = "putOrder", ![c].sessionRow = row]
         ELSE Finish(c)
  /\ Reads

AddOrderPuts(c) ==
  /\ At(c, "addOrder", "putOrder")
  /\ PutOrder(c, NewOrder(call[c].session, call[c].sessionRow.bill))
  /\ Goto(c, "putSession")
  /\ Aside /\ UNCHANGED <<sessions, bills>>

UpdateSessionReads(c) ==
  /\ At(c, "updateSession", "read")
  /\ \E row \in SeenSession(call[c].session) :
       IF Open(row)
         THEN call' = [call EXCEPT
                ![c].step = "putSession",
                ![c].sessionRow = [row EXCEPT
                   !.tables = IF call[c].tables = {} THEN @ ELSE call[c].tables]]
         ELSE Finish(c)
  /\ Reads

(* The last step of AddOrder, UpdateSession and CloseTable: the session    *)
(* row, as it was read and edited, is put back.                            *)
PutSessionBack(c) ==
  /\ call[c].op \in {"addOrder", "updateSession", "closeTable"}
  /\ call[c].step = "putSession"
  /\ PutSession(call[c].session, call[c].sessionRow)
  /\ Finish(c)
  /\ Aside /\ UNCHANGED <<orders, bills>>

-----------------------------------------------------------------------------
(* StartBill *)

(* A session whose bill is seen, or past live, gets no new bill: it is     *)
(* answered with that bill, with one the index shows, or with an error.    *)
AlreadyBilled_never(row, billRow) == FALSE
AlreadyBilled(row, billRow) == billRow # NoRow \/ row.status # "live"
SeenBillOf(row) == IF row.bill = NoBill THEN {NoRow} ELSE SeenBill(row.bill)

(* The order of the two puts *)
FirstPut_session == "putSession"
FirstPut == "putBill"

StartBillReads(c) ==
  /\ At(c, "startBill", "read")
  /\ \E row \in SeenSession(call[c].session) :
       IF row = NoRow THEN Finish(c) ELSE \E billRow \in SeenBillOf(row) :
         IF AlreadyBilled(row, billRow) THEN Finish(c) ELSE
           call' = [call EXCEPT
             ![c].step = FirstPut,
             ![c].sessionRow = [row EXCEPT !.bill = c, !.status = "billing"],
             ![c].billRow = NewBill(call[c].session)]
  /\ Reads

StartBillPutsBill(c) ==
  /\ At(c, "startBill", "putBill")
  /\ PutBill(c, call[c].billRow)
  /\ Goto(c, "putSession")
  /\ Aside /\ UNCHANGED <<sessions, orders>>

StartBillPutsSession(c) ==
  /\ At(c, "startBill", "putSession")
  /\ PutSession(call[c].session, call[c].sessionRow)
  /\ Goto(c, "readOrders")
  /\ Aside /\ UNCHANGED <<orders, bills>>

(* The session's orders are read, stamped with the bill and added up *)
StartBillReadsOrders(c) ==
  /\ At(c, "startBill", "readOrders")
  /\ \E rows \in SeenOrders(call[c].session) :
       call' = [call EXCEPT
         ![c].step = "putOrders",
         ![c].bill = c,
         ![c].billRow.subtotal = SumOfPrices(rows),
         ![c].todo = {<<r[1], [r[2] EXCEPT !.bill = c]>> : r \in rows}]
  /\ Reads

(* One round of the loop of PutOrder in StartBill and UpdateBill *)
PutNextOrder(c) ==
  /\ call[c].step = "putOrders"
  /\ \E r \in call[c].todo :
       /\ PutOrder(r[1], r[2])
       /\ call' = [call EXCEPT ![c].todo = @ \ {r}]
  /\ Aside /\ UNCHANGED <<sessions, bills>>

(* The loop is over: StartBill and UpdateBill put the bill and return *)
PutTotal(c) ==
  /\ call[c].step = "putOrders"
  /\ call[c].todo = {}
  /\ PutBill(call[c].bill, call[c].billRow)
  /\ Finish(c)
  /\ Aside /\ UNCHANGED <<sessions, orders>>

-----------------------------------------------------------------------------
(* UpdateBill *)

(* The payment status is whatever the request says, if it says anything *)
UpdateBillReads(c) ==
  /\ At(c, "updateBill", "read")
  /\ \E row \in SeenBill(call[c].bill) :
       IF row = NoRow
         THEN Finish(c)
         ELSE \E paid \in {row.paid, TRUE, FALSE} :
                call' = [call EXCEPT ![c].step = "readOrders",
                                     ![c].billRow = [row EXCEPT !.paid = paid]]
  /\ Reads

(* Line edits change an order's lines, and then every order is put back    *)
(* with its total recomputed; without edits the orders are only added up.  *)
EditedRows(rows, o, p) ==
  {<<r[1], [r[2] EXCEPT !.lines = IF r[1] = o THEN p ELSE @,
                        !.price = IF r[1] = o THEN p ELSE r[2].lines]>> : r \in rows}

UpdateBillReadsOrders(c) ==
  /\ At(c, "updateBill", "readOrders")
  /\ \E rows \in SeenOrders(call[c].billRow.session) :
       \/ call' = [call EXCEPT ![c].step = "putOrders",
                               ![c].billRow.subtotal = SumOfLines(rows)]
       \/ \E r \in rows, p \in Prices :
            call' = [call EXCEPT
              ![c].step = "putOrders",
              ![c].billRow.subtotal = SumOfLines(EditedRows(rows, r[1], p)),
              ![c].todo = EditedRows(rows, r[1], p)]
  /\ Reads

-----------------------------------------------------------------------------
(* The invoice-number endpoint: the bill is read, a number fetched for it, *)
(* and the bill put back as it was read, with the number                   *)

NumberReads(c) ==
  /\ At(c, "number", "read")
  /\ \E row \in SeenBill(call[c].bill) :
       IF row = NoRow
         THEN Finish(c)
         ELSE call' = [call EXCEPT ![c].step = "putBill",
                                   ![c].billRow = [row EXCEPT !.numbered = TRUE]]
  /\ Reads

NumberPuts(c) ==
  /\ At(c, "number", "putBill")
  /\ PutBill(call[c].bill, call[c].billRow)
  /\ Finish(c)
  /\ Aside /\ UNCHANGED <<sessions, orders>>

-----------------------------------------------------------------------------
(* CloseTable *)

BillMatches_any(row, b) == TRUE
BillMatches(row, b) == row.bill = b

CloseReadsSession(c) ==
  /\ At(c, "closeTable", "read")
  /\ \E row \in SeenSession(call[c].session) :
       IF row # NoRow /\ BillMatches(row, call[c].bill)
         THEN call' = [call EXCEPT ![c].step = "readBill",
                                   ![c].sessionRow = [row EXCEPT !.status = "closed"]]
         ELSE Finish(c)
  /\ Reads

CloseReadsBill(c) ==
  /\ At(c, "closeTable", "readBill")
  /\ \E row \in SeenBill(call[c].bill) :
       IF row = NoRow
         THEN Finish(c)
         ELSE call' = [call EXCEPT ![c].step = "putBill",
                                   ![c].billRow = [row EXCEPT !.paid = TRUE]]
  /\ Reads

ClosePutsBill(c) ==
  /\ At(c, "closeTable", "putBill")
  /\ PutBill(call[c].bill, call[c].billRow)
  /\ Goto(c, "putSession")
  /\ Aside /\ UNCHANGED <<sessions, orders>>

-----------------------------------------------------------------------------
(* UpdateOrder and the kitchen's patches, reduced to the row they put back:*)
(* new items with their total, a total overridden, or units cancelled,     *)
(* which leaves the recorded total alone (module KitchenOrder)             *)

EditReads(c) ==
  /\ At(c, "editOrder", "read")
  /\ \E o \in Ids, p \in Prices :
       \E row \in SeenOrder(o) \ {NoRow} :
         \E edited \in {[row EXCEPT !.price = p, !.lines = p],
                        [row EXCEPT !.price = p], [row EXCEPT !.lines = p]} :
           call' = [call EXCEPT ![c].step = "putOrder", ![c].todo = {<<o, edited>>}]
  /\ Reads

EditPuts(c) ==
  /\ At(c, "editOrder", "putOrder")
  /\ \E r \in call[c].todo : PutOrder(r[1], r[2])
  /\ Finish(c)
  /\ Aside /\ UNCHANGED <<sessions, bills>>

-----------------------------------------------------------------------------

Step(c) ==
  \/ FindsTablesFree(c) \/ FindsTableOpen(c) \/ CreateSession(c) \/ CreateFirstOrder(c)
  \/ AddOrderReads(c) \/ AddOrderPuts(c) \/ UpdateSessionReads(c) \/ PutSessionBack(c)
  \/ StartBillReads(c) \/ StartBillPutsBill(c) \/ StartBillPutsSession(c)
  \/ StartBillReadsOrders(c) \/ PutNextOrder(c) \/ PutTotal(c)
  \/ UpdateBillReads(c) \/ UpdateBillReadsOrders(c)
  \/ NumberReads(c) \/ NumberPuts(c)
  \/ CloseReadsSession(c) \/ CloseReadsBill(c) \/ ClosePutsBill(c)
  \/ EditReads(c) \/ EditPuts(c)

(* The Lambda is killed, or the store fails a request *)
Die(c) ==
  /\ c \in InFlight
  /\ Finish(c)
  /\ died' = TRUE
  /\ UNCHANGED <<tables, stale, raced>>

(* Replicas and indexes catch up *)
CatchUp ==
  /\ stale # Current
  /\ stale' = Current
  /\ UNCHANGED <<tables, call, raced, died>>

AllDone ==
  /\ \A c \in Calls : call[c].step = "done"
  /\ UNCHANGED vars

Next ==
  \/ \E c \in Calls : Start(c) \/ Step(c) \/ Die(c)
  \/ CatchUp
  \/ AllDone

Spec == Init /\ [][Next]_vars

-----------------------------------------------------------------------------
(* Properties.  Nothing orders the calls, so most of what the service      *)
(* promises holds only while calls come one after the other ("raced" is    *)
(* FALSE); what survives every race, lag and crash is References.          *)

(* The rows refer to rows: a session's or an order's bill exists and is a  *)
(* bill of that very session, and an order's session exists, after any     *)
(* race, stale read or death in the middle of the puts of a call.          *)
References ==
  /\ \A s \in Ids : (sessions[s] # NoRow /\ sessions[s].bill # NoBill) =>
       bills[sessions[s].bill] # NoRow /\ bills[sessions[s].bill].session = s
  /\ \A o \in Ids : orders[o] # NoRow =>
       /\ sessions[orders[o].session] # NoRow
       /\ orders[o].bill # NoBill =>
            bills[orders[o].bill] # NoRow /\ bills[orders[o].bill].session = orders[o].session

(* One call after the other: a session starts only on tables that no other *)
(* open session holds, also after tables were joined, moved or closed,     *)
(* unless that session has slipped out of the newest SessionLimit ones,    *)
(* which are all the search looks at.                                      *)
OpenedSince(t) ==
  {o \in Ids \ {t} : sessions[o] # NoRow /\ sessions[t].openedAt <= sessions[o].openedAt}
NewSessionsGetFreeTables ==
  [][\A s \in Ids : (~raced' /\ sessions[s] = NoRow /\ sessions'[s] # NoRow) =>
       \A t \in Ids : TablesOverlap(sessions[t], sessions'[s].tables) =>
         Cardinality(OpenedSince(t)) >= SessionLimit]_vars

(* api.md:488: one call after the other, none dying half way, a session    *)
(* has at most one bill, however often StartBill is retried.               *)
BillsOf(s) == {b \in Calls : bills[b] # NoRow /\ bills[b].session = s}
OneBillPerSession ==
  (~raced /\ ~died) => \A s \in Ids : Cardinality(BillsOf(s)) <= 1

(* billing_models.go:20, "payment settled", for calls that come one after  *)
(* the other: when a session gets closed its own bill is paid, and it      *)
(* stays closed.  Calls that overlap can break either half.                *)
IsClosed(row) == row # NoRow /\ row.status = "closed"
ClosedIsSettled ==
  [][~raced' => \A s \in Ids :
       /\ IsClosed(sessions[s]) => IsClosed(sessions'[s])
       /\ (~IsClosed(sessions[s]) /\ IsClosed(sessions'[s])) =>
            sessions[s].bill # NoBill /\ bills[sessions[s].bill].paid]_vars

(* "Rolls up totals": when UpdateBill has put the bill, its subtotal is    *)
(* what the lines of all orders of the session add up to, the edits just   *)
(* made included.                                                          *)
OrdersOf(s) == {o \in Ids : orders[o] # NoRow /\ orders[o].session = s}
RolledUp ==
  [][\A c \in Calls :
       (/\ ~raced' /\ call[c].op = "updateBill" /\ call[c].step = "putOrders"
        /\ call[c].todo = {} /\ call'[c].step = "done"
        /\ bills'[call[c].bill] = call[c].billRow) =>
       bills'[call[c].bill].subtotal =
         SumFunction([o \in OrdersOf(bills[call[c].bill].session) |-> orders[o].lines])]_vars

(* api.md:488: StartBill "is idempotent for a session", with no proviso *)
NeverTwoBills == \A s \in Ids : Cardinality(BillsOf(s)) <= 1

(* billing_models.go:20: closing means "payment settled".  Even with calls *)
(* one after the other and none dying, what the table is closed with is    *)
(* what its orders add up to.                                              *)
SettledInFull ==
  [][\A s \in Ids :
       (~raced' /\ ~died' /\ ~IsClosed(sessions[s]) /\ IsClosed(sessions'[s])) =>
       bills[sessions[s].bill].subtotal =
         SumFunction([o \in OrdersOf(s) |-> orders[o].lines])]_vars

=============================================================================
