--------------------------- MODULE MCKitchenOrder ---------------------------
(***************************************************************************)
(* Bounds for KitchenOrder: an order of two lines, tickets as new and old  *)
(* clients send them (without unit states, with fewer than the quantity,   *)
(* with a quantity of zero), and edits that use every field of the body.   *)
(***************************************************************************)
EXTENDS KitchenOrder, TLC

CONSTANTS l1, l2

Item(quantity, units, status) ==
  [quantity |-> quantity, units |-> units, status |-> status, price |-> 1, removed |-> FALSE]

MCTickets ==
  { l1 :> Item(2, <<>>, "pending"),
    l1 :> Item(2, <<"fulfilled">>, "pending") @@ l2 :> Item(0, <<>>, "cancelled"),
    l1 :> Item(1, <<"pending", "pending">>, "ready") @@ l2 :> Item(1, <<>>, "served") }

NoEdit == [items |-> NoTicket, kitchen |-> NoStatus, done |-> FALSE, remove |-> {},
           total |-> NoTotal]

MCEdits ==
  {[NoEdit EXCEPT !.items = t] : t \in MCTickets}
  \cup {[NoEdit EXCEPT !.kitchen = s] : s \in Statuses}
  \cup {[NoEdit EXCEPT !.remove = {l}, !.done = d] : l \in Lines, d \in BOOLEAN}
  \cup {[NoEdit EXCEPT !.done = TRUE, !.kitchen = "served"], [NoEdit EXCEPT !.total = 1]}

Symmetry == Permutations(Calls)
=============================================================================
