------------------------------ MODULE LoyaltyV1 ------------------------------
(***************************************************************************)
(* Points on table bills: AddPointsForBill and ApplyDiscount of            *)
(* api/loyalty/loyalty_service.go.  Each reads the bill and the wallet,    *)
(* puts the wallet, then puts the bill, neither under a condition.         *)
(***************************************************************************)
EXTENDS CustomerStore

CONSTANTS
  EarnPer,     \* what must be spent to earn one point
  PerBlock,    \* what a block of points is worth
  RedeemBlock  \* points in a block

ASSUME LoyaltyAssumption ==
  EarnPer \in Nat \ {0} /\ PerBlock \in Nat \ {0} /\ RedeemBlock \in Nat \ {0}

PointsFromSpend(total) == total \div EarnPer

(* What the points would buy, as GetPointsDiscount also answers it *)
RedeemableDiscount(balance) == (balance \div RedeemBlock) * PerBlock

(* ... in whole blocks that the bill can take *)
Discount_uncapped(total, balance) == RedeemableDiscount(balance)
Discount(total, balance) ==
  IF RedeemableDiscount(balance) > total
    THEN (total \div PerBlock) * PerBlock
    ELSE RedeemableDiscount(balance)

PointsFor(discount) == (discount \div PerBlock) * RedeemBlock

Points(wallet) == IF wallet = NoRow THEN EmptyWallet ELSE wallet

ForAnother(bill, u) == bill.owner \notin {NoUser, u}
Awarded_never(bill) == FALSE
Awarded(bill) == bill.earned > 0 \/ bill.processed
Redeemed(bill) == bill.redeemed > 0 \/ bill.discount > 0

Credited(wallet, n) == [wallet EXCEPT !.balance = @ + n, !.earned = @ + n]
Debited_inPaise(wallet, discount) ==
  [wallet EXCEPT !.balance = @ - discount, !.redeemed = @ + PointsFor(discount)]
Debited_unrecorded(wallet, discount) ==
  [wallet EXCEPT !.balance = @ - PointsFor(discount)]
Debited(wallet, discount) ==
  [wallet EXCEPT !.balance = @ - PointsFor(discount), !.redeemed = @ + PointsFor(discount)]

AwardedBill(bill, u) ==
  [bill EXCEPT !.owner = u, !.earned = PointsFromSpend(bill.total), !.processed = TRUE]

RedeemedBill(bill, u, discount) ==
  [bill EXCEPT !.owner = u, !.redeemed = PointsFor(discount), !.discount = @ + discount,
               !.total = IF @ >= discount THEN @ - discount ELSE 0]

-----------------------------------------------------------------------------

ReadsBill(c) ==
  /\ At(c, "readBill")
  /\ \E bill \in SeenBill(call[c].arg) :
       call' = [call EXCEPT ![c].step = "readPoints", ![c].billRow = bill]
  /\ Reads

(* A bill of somebody else, or one that was dealt with, ends the call *)
AddPointsDecides(c) ==
  /\ Doing(c, "addPoints", "readPoints")
  /\ LET bill == call[c].billRow
         u == call[c].user
     IN \E w \in SeenWallet(u) :
          IF ForAnother(bill, u) \/ Awarded(bill) THEN Over(c) ELSE
            call' = [call EXCEPT
              ![c].step = "putPoints",
              ![c].row = Credited(Points(w), PointsFromSpend(bill.total)),
              ![c].billRow = AwardedBill(bill, u)]
  /\ Reads

RedeemDecides(c) ==
  /\ Doing(c, "redeem", "readPoints")
  /\ LET bill == call[c].billRow
         u == call[c].user
     IN \E w \in SeenWallet(u) :
          LET discount == Discount(bill.total, Points(w).balance) IN
          IF ForAnother(bill, u) \/ Redeemed(bill) \/ discount = 0 THEN Over(c) ELSE
            call' = [call EXCEPT
              ![c].step = "putPoints",
              ![c].row = Debited(Points(w), discount),
              ![c].billRow = RedeemedBill(bill, u, discount)]
  /\ Reads

PutsPoints(c) ==
  /\ At(c, "putPoints")
  /\ db' = [db EXCEPT !.wallets[call[c].user] = call[c].row]
  /\ Goto(c, "putBill")
  /\ Aside

PutsBill(c) ==
  /\ At(c, "putBill")
  /\ db' = [db EXCEPT !.bills[call[c].arg] = call[c].billRow]
  /\ Over(c)
  /\ Aside

LoyaltyStep(c) ==
  ReadsBill(c) \/ AddPointsDecides(c) \/ RedeemDecides(c) \/ PutsPoints(c) \/ PutsBill(c)

=============================================================================
