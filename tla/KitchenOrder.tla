---------------------------- MODULE KitchenOrder ----------------------------
(***************************************************************************)
(* One order and its line items, as waiters, kitchen, plating and billing  *)
(* edit it: the order half of api/billing/billing_service.go with          *)
(* line_item_utils.go.  Every operation reads the whole row, changes it in *)
(* memory and puts the whole row back without a condition, so a put may    *)
(* overwrite what others wrote since the read.  A read from a replica that *)
(* lags is a read made earlier, which the interleavings contain.           *)
(*                                                                         *)
(* A stored line has exactly as many unit states as its quantity, and its  *)
(* status is derived from them whenever it is read or written: neither is  *)
(* a field here.  Parcel flags, notes and times are left out.              *)
(***************************************************************************)
EXTENDS Integers, Sequences, FiniteSets, Functions

CONSTANTS
  Calls,      \* the Lambda invocations that edit the order
  Lines,      \* line item ids
  Tickets,    \* the items clients send, as functions from line ids to items
  Edits,      \* the UpdateOrder bodies clients send, see EditType
  Prices,     \* what a price may be overridden to, in paise
  NoTicket,   \* an UpdateOrder without items
  NoStatus,   \* ... without a kitchen status
  NoTotal     \* ... without a total

VARIABLES
  order,  \* the stored row
  call    \* call[c]: what c is about to put, and for which operation

vars == <<order, call>>

UnitStates == {"pending", "fulfilled", "cancelled"}
Statuses == {"pending", "preparing", "ready", "served", "cancelled"}
Ops == {"none", "newItems", "updateOrder", "lineStatus", "unit", "kitchenStatus",
        "updateBill", "startBill"}

(* A line as stored, and as clients send it *)
LineType == [units : Seq(UnitStates), price : Nat, removed : BOOLEAN]
ItemType == [quantity : Int, units : Seq(UnitStates), status : Statuses,
             price : Nat, removed : BOOLEAN]
EditType == [items : Tickets \cup {NoTicket}, kitchen : Statuses \cup {NoStatus},
             done : BOOLEAN, remove : SUBSET Lines, total : Nat \cup {NoTotal}]

ASSUME KitchenAssumption ==
  /\ \A t \in Tickets :
       /\ DOMAIN t \subseteq Lines /\ IsFiniteSet(DOMAIN t)
       /\ \A l \in DOMAIN t : t[l] \in ItemType
  /\ Edits \subseteq EditType
  /\ Prices \subseteq Nat
  /\ NoTicket \notin Tickets
  /\ NoStatus \notin Statuses
  /\ NoTotal \notin Nat

(* "manual" is history: the total was last set by hand, not added up. *)
IsOrder(o) ==
  /\ DOMAIN o = {"items", "kitchen", "done", "total", "manual"}
  /\ DOMAIN o.items \subseteq Lines
  /\ \A l \in DOMAIN o.items : o.items[l] \in LineType /\ o.items[l].units # <<>>
  /\ o.kitchen \in Statuses
  /\ o.done \in BOOLEAN
  /\ o.total \in Nat
  /\ o.manual \in BOOLEAN

TypeOK ==
  /\ IsOrder(order)
  /\ \A c \in Calls :
       /\ DOMAIN call[c] = {"step", "op", "row", "clean"}
       /\ call[c].step \in {"idle", "put", "done"}
       /\ call[c].op \in Ops
       /\ call[c].clean \in BOOLEAN
       /\ IsOrder(call[c].row)

-----------------------------------------------------------------------------
(* Line items *)

(* legacyUnitStates: an item without unit states has them from its status *)
LegacyUnit(status) ==
  IF status = "cancelled" THEN "cancelled"
  ELSE IF status \in {"ready", "served"} THEN "fulfilled" ELSE "pending"

(* padUnitStates: units beyond those given *)
PaddedUnit(status) == IF status = "cancelled" THEN "cancelled" ELSE "pending"

(* NormalizeLineItem, and its slip of keeping the units as they came *)
Normalize_unpadded(item) ==
  [units |-> item.units, price |-> item.price, removed |-> item.removed]

Normalize(item) ==
  LET qty == IF item.quantity <= 0 THEN 1 ELSE item.quantity
      Unit(i) == IF item.units = <<>> THEN LegacyUnit(item.status)
                 ELSE IF i <= Len(item.units) THEN item.units[i]
                 ELSE PaddedUnit(item.status)
  IN [units |-> [i \in 1..qty |-> Unit(i)], price |-> item.price, removed |-> item.removed]

NormalizeAll(ticket) == [l \in DOMAIN ticket |-> Normalize(ticket[l])]

(* BillableQty and SumLineItems.  An overridden quantity plays no part. *)
BillableQty(line) ==
  IF line.removed THEN 0
  ELSE Cardinality({i \in DOMAIN line.units : line.units[i] # "cancelled"})

SumLineItems(items) ==
  SumFunction([l \in DOMAIN items |-> items[l].price * BillableQty(items[l])])

AddedUp(o) == [o EXCEPT !.total = SumLineItems(o.items), !.manual = FALSE]

(* The kitchen's status for all units of a line; a cancelled unit stays so *)
UnitsAs_revived(units, status) == [i \in DOMAIN units |-> LegacyUnit(status)]
UnitsAs(units, status) ==
  [i \in DOMAIN units |->
     IF units[i] = "cancelled" THEN "cancelled" ELSE LegacyUnit(status)]

ApplyToAll(items, status) == [l \in DOMAIN items |->
  [items[l] EXCEPT !.units = UnitsAs(@, status)]]

PendingUnits(o) ==
  {u \in UNION {{l} \X DOMAIN o.items[l].units : l \in DOMAIN o.items} :
     o.items[u[1]].units[u[2]] = "pending"}

(* recomputeOrderKitchenState, and its slip of leaving a finished order be *)
Recompute_sticky(o) ==
  IF o.kitchen = "served" THEN o
  ELSE [o EXCEPT !.kitchen = IF PendingUnits(o) # {} THEN "pending" ELSE "ready"]

Recompute(o) ==
  [o EXCEPT !.kitchen = IF PendingUnits(o) # {} THEN "pending" ELSE "ready"]

(* KitchenUnitBoard: the pending units of an order neither served nor      *)
(* cancelled; KitchenItemBoard counts the same units by line.  Both list   *)
(* the newest 500 orders only: this is an order among them.                *)
UnitBoard(o) == IF o.kitchen \in {"served", "cancelled"} THEN {} ELSE PendingUnits(o)

-----------------------------------------------------------------------------
(* What the operations make of the row they read *)

(* UpdateOrderWithClock, in the order of its branches *)
WithItems(o, ticket) ==
  IF ticket = NoTicket THEN o ELSE AddedUp([o EXCEPT !.items = NormalizeAll(ticket)])

WithStatus(o, status) ==
  IF status = NoStatus THEN o
  ELSE [o EXCEPT !.kitchen = status, !.items = ApplyToAll(@, status)]

Removed(items, gone) == [l \in DOMAIN items |->
  IF l \in gone THEN [items[l] EXCEPT !.removed = TRUE, !.units = UnitsAs(@, "cancelled")]
  ELSE items[l]]

WithoutLines(o, gone) ==
  IF gone = {} THEN o ELSE AddedUp([o EXCEPT !.items = Removed(@, gone)])

WithTotal(o, total) ==
  IF total = NoTotal THEN o ELSE [o EXCEPT !.total = total, !.manual = TRUE]

Edited(o, r) ==
  LET changed == WithoutLines(WithStatus(WithItems(o, r.items), r.kitchen), r.remove)
  IN WithTotal(Recompute([changed EXCEPT !.done = @ \/ r.done]), r.total)

(* PatchLineItemStatus: the total stays as it is *)
LinePatched(o, l, status) == Recompute([o EXCEPT !.items[l].units = UnitsAs(@, status)])

(* PatchLineItemUnit: one unit; toggling a parcel flag moves no unit *)
UnitAfter(unit, action) ==
  IF action = "fulfill" /\ unit # "cancelled" THEN "fulfilled"
  ELSE IF action = "unfulfill" /\ unit = "fulfilled" THEN "pending"
  ELSE IF action = "cancel" THEN "cancelled" ELSE unit

UnitPatched(o, l, i, action) ==
  Recompute(AddedUp([o EXCEPT !.items[l].units[i] = UnitAfter(@, action)]))

(* PatchOrderKitchenStatus: neither the total nor the status is recomputed *)
KitchenPatched(o, status) == [o EXCEPT !.kitchen = status, !.items = ApplyToAll(@, status)]

(* UpdateBill's line edit: a price override, or removed set or cleared *)
BillEdited_unsummed(o, l, price, removed) ==
  [o EXCEPT !.items[l].price = price, !.items[l].removed = removed]
BillEdited(o, l, price, removed) ==
  AddedUp([o EXCEPT !.items[l].price = price, !.items[l].removed = removed])

-----------------------------------------------------------------------------

(* A new order (CreateSessionAndFirstOrder, AddOrder) *)
NewOrder(ticket) ==
  AddedUp([items |-> NormalizeAll(ticket), kitchen |-> "pending", done |-> FALSE,
           total |-> 0, manual |-> FALSE])

(* A call with nothing in memory *)
EmptyOrder == [items |-> <<>>, kitchen |-> "pending", done |-> FALSE, total |-> 0, manual |-> FALSE]
Blank(step) == [step |-> step, op |-> "none", row |-> EmptyOrder, clean |-> TRUE]

Init ==
  /\ \E t \in Tickets : order = NewOrder(t)
  /\ call = [c \in Calls |-> Blank("idle")]

(* Call c has read the order and will put row back *)
WillPut(c, op, row) ==
  /\ call[c].step = "idle"
  /\ call' = [call EXCEPT ![c] = [step |-> "put", op |-> op, row |-> row, clean |-> TRUE]]
  /\ UNCHANGED order

(* An order marked done may not be edited *)
Editable_always(o) == TRUE
Editable(o) == ~o.done

UpdateOrder(c) ==
  /\ Editable(order)
  /\ \E r \in Edits :
       WillPut(c, IF r.items = NoTicket THEN "updateOrder" ELSE "newItems", Edited(order, r))

PatchLineItemStatus(c) ==
  \E l \in DOMAIN order.items, s \in Statuses : WillPut(c, "lineStatus", LinePatched(order, l, s))

PatchLineItemUnit(c) ==
  /\ Editable(order)
  /\ \E l \in DOMAIN order.items, a \in {"fulfill", "unfulfill", "cancel", "toggle_parcel"} :
       \E i \in DOMAIN order.items[l].units : WillPut(c, "unit", UnitPatched(order, l, i, a))

PatchOrderKitchenStatus(c) ==
  \E s \in Statuses : WillPut(c, "kitchenStatus", KitchenPatched(order, s))

UpdateBill(c) ==
  \E l \in DOMAIN order.items, removed \in BOOLEAN :
    \E p \in Prices \cup {order.items[l].price} :
      WillPut(c, "updateBill", BillEdited(order, l, p, removed))

(* StartBill stamps the order with the bill and puts it back *)
StartBill(c) == WillPut(c, "startBill", order)

(* Refused (marked done, no such line or unit), failed, or killed *)
GiveUp(c) ==
  /\ call[c].step # "done"
  /\ call' = [call EXCEPT ![c] = Blank("done")]
  /\ UNCHANGED order

(* PutOrder; what the others hold in memory is no longer what is stored *)
Put(c) ==
  /\ call[c].step = "put"
  /\ order' = call[c].row
  /\ call' = [d \in Calls |-> IF d = c THEN Blank("done")
                              ELSE [call[d] EXCEPT !.clean = call[d].step # "put"]]

AllDone ==
  /\ \A c \in Calls : call[c].step = "done"
  /\ UNCHANGED vars

Next ==
  \/ \E c \in Calls :
       \/ UpdateOrder(c) \/ PatchLineItemStatus(c) \/ PatchLineItemUnit(c)
       \/ PatchOrderKitchenStatus(c) \/ UpdateBill(c) \/ StartBill(c)
       \/ Put(c) \/ GiveUp(c)
  \/ AllDone

Spec == Init /\ [][Next]_vars

-----------------------------------------------------------------------------
(* Properties *)

(* No unit that is still to be cooked is hidden from the kitchen's boards: *)
(* an order that they skip, or that is called ready, has none.  It holds   *)
(* of every row any overlapping edits leave behind.                        *)
BoardShowsPending ==
  /\ PendingUnits(order) = UnitBoard(order)
  /\ order.kitchen = "ready" => PendingUnits(order) = {}

(* Unless it was set by hand, the recorded total, which StartBill adds up, *)
(* never falls below what the units not cancelled cost: kitchen and        *)
(* plating, which leave it alone, only ever make an order cheaper.         *)
NeverUndercharged == order.manual \/ order.total >= SumLineItems(order.items)

(* A call nobody overtook: a unit once cancelled stays cancelled, whatever *)
(* status its line or its order is set to, unless the items are replaced.  *)
CancelledStays ==
  [][\A c \in Calls :
       (/\ call[c].step = "put" /\ call'[c].step = "done" /\ order' = call[c].row
        /\ call[c].clean /\ call[c].op # "newItems") =>
       \A l \in DOMAIN order.items : \A i \in DOMAIN order.items[l].units :
         order.items[l].units[i] = "cancelled" => order'.items[l].units[i] = "cancelled"]_vars

(* What becomes of a row o may be the kitchen's doing: nothing is charged  *)
(* otherwise than before; or the bill's: no unit and no status moves, and  *)
(* the total is added up again.                                            *)
SameLines(o, p) ==
  /\ DOMAIN p.items = DOMAIN o.items
  /\ \A l \in DOMAIN o.items : DOMAIN p.items[l].units = DOMAIN o.items[l].units
OnlyUnitsMoved(o, p) ==
  /\ p.total = o.total
  /\ \A l \in DOMAIN o.items :
       p.items[l].price = o.items[l].price /\ p.items[l].removed = o.items[l].removed
OnlyCharged(o, p) ==
  /\ p.kitchen = o.kitchen /\ p.total = SumLineItems(p.items)
  /\ \A l \in DOMAIN o.items : p.items[l].units = o.items[l].units

(* billing_models.go:119 says the mark "locks edits".  UpdateOrder and     *)
(* PatchLineItemUnit refuse a marked order; the two status patches and     *)
(* UpdateBill never look at the mark.  What it does lock, against every    *)
(* call that read the order after it: the mark stays, no line and no unit  *)
(* comes or goes, and one edit either moves units or charges otherwise,    *)
(* never both.  Units may still be cancelled, and lines still be removed   *)
(* and repriced.                                                           *)
DoneFreezesTicket ==
  [][\A c \in Calls :
       (/\ order.done /\ call[c].step = "put" /\ call'[c].step = "done"
        /\ order' = call[c].row /\ call[c].clean) =>
       /\ order'.done /\ SameLines(order, order')
       /\ OnlyUnitsMoved(order, order') \/ OnlyCharged(order, order')]_vars

(* billing_models.go:115: the total is of "billable units only". *)
TotalIsBillable == order.manual \/ order.total = SumLineItems(order.items)

=============================================================================
