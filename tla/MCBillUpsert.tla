---------------------------- MODULE MCBillUpsert ----------------------------
(***************************************************************************)
(* Bounds for BillUpsert, and the claims about awards they are enough for. *)
(* A point is worth 1 and 2 must be spent to earn one, so small subtotals  *)
(* redeem and earn.  u1 has a wallet of 3 points, u2 has none yet.         *)
(***************************************************************************)
EXTENDS BillUpsert, FiniteSetsExt, TLC

CONSTANTS k1, k2, u1, u2

Create(k, u, points, settled) ==
  [key |-> k, id |-> NoId, customer |-> Nobody, user |-> u, byPhone |-> TRUE,
   subtotal |-> 4, points |-> points, other |-> 0, stacked |-> FALSE, settled |-> settled]

Update(id, u, settled) ==
  [key |-> k1, id |-> id, customer |-> Nobody, user |-> u, byPhone |-> TRUE,
   subtotal |-> 4, points |-> 0, other |-> 0, stacked |-> FALSE, settled |-> settled]

(* The same request, with another customer on the bill than the one whose  *)
(* points move                                                             *)
Naming(r, v) == [r EXCEPT !.customer = v]

(* Two state keys that want the same points, one of them settled at once;  *)
(* creates for a customer without a wallet, on a bill for another one, and *)
(* for nobody; an update that settles and one that does not, but names     *)
(* another customer.                                                       *)
MCRequests ==
  { Create(k1, u1, 2, FALSE), Create(k2, u1, 2, TRUE),
    Naming(Create(k2, u2, 0, TRUE), u1), Create(k2, Nobody, 0, TRUE),
    Update(<<0, 1>>, u1, TRUE), Naming(Update(<<0, 1>>, Nobody, FALSE), u2) }

(* One bill, with settles and plain updates overlapping *)
OneBillRequests ==
  { Create(k1, u1, 0, FALSE), Update(<<0, 1>>, u1, TRUE), Update(<<0, 1>>, Nobody, FALSE) }

MCInitialWallet ==
  [u \in Users |-> IF u = u1 THEN [balance |-> 3, earned |-> 3, redeemed |-> 0]
                   ELSE NoWallet]

(* Amounts around whole rupees and halves of a paisa; a line sent with a   *)
(* quantity of zero; round-off lines told by their id and by their name.   *)
MCLineLists ==
  {<<[price |-> p, quantity |-> q], [price |-> 7, quantity |-> 0]>> :
     p \in {0, 1, 50, 99, 100, 333, 4999}, q \in {1, 3}}
Gst == [rate |-> 250, amount |-> 0, byId |-> FALSE, byName |-> FALSE]
Fee == [rate |-> 0, amount |-> 30, byId |-> FALSE, byName |-> FALSE]
MCTaxLists ==
  {<<>>, <<Gst>>, <<Gst, [Gst EXCEPT !.byName = TRUE]>>, <<Gst, Fee>>, <<Gst, RoundOffLine(55)>>,
   <<[RoundOffLine(7) EXCEPT !.byId = FALSE], Gst>>, <<[RoundOffLine(7) EXCEPT !.byName = FALSE]>>}
MCAsked == {[points |-> 0, other |-> d, stacked |-> d > 0] : d \in {-5, 0, 1, 100, 20000}}
           \cup {[points |-> p, other |-> 0, stacked |-> FALSE] : p \in {1, 2, 500}}
           \cup {[points |-> 2, other |-> -5, stacked |-> s] : s \in BOOLEAN}

(* Calls are interchangeable: each may carry any request. *)
Symmetry == Permutations(Calls)

(* api.md:633: a bill awards its points once.  No wallet gets more than    *)
(* one award of the largest request for each bill it was credited for.     *)
LargestAward == Max({EarnedPoints(r.subtotal, 0) : r \in Requests})
AwardedOnce ==
  \A u \in Funded :
    wallet[u].earned <= InitialWallet[u].earned + Cardinality(AwardedTo(u)) * LargestAward
=============================================================================
