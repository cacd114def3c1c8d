-------------------------- MODULE BillUpsert_proofs --------------------------
(***************************************************************************)
(* Bill upserts for any number of calls, keys, customers and requests.     *)
(***************************************************************************)
EXTENDS BillUpsert, InvoiceCounter_proofs, Sums_proofs, SequenceTheorems

-----------------------------------------------------------------------------
(* The arithmetic of a bill stays within the naturals *)

LEMMA DivisionIsNat == \A a \in Nat, d \in Nat \ {0} : a \div d \in Nat
OBVIOUS

LEMMA ProductIsNat == \A a, b \in Nat : a * b \in Nat
OBVIOUS

(* A discount is capped by the subtotal, whatever was asked for. *)
LEMMA CapDiscountBounds ==
  ASSUME NEW discount \in Int, NEW subtotal \in Nat
  PROVE  CapDiscount(discount, subtotal) \in 0..subtotal
BY DEF CapDiscount

LEMMA EarnedPointsIsNat ==
  ASSUME NEW discount \in Nat, NEW subtotal \in Nat
  PROVE  EarnedPoints(subtotal, discount) \in Nat
<1>1. CASE subtotal - discount <= 0
  BY <1>1 DEF EarnedPoints
<1>2. CASE ~(subtotal - discount <= 0)
  <2>1. subtotal - discount \in Nat
    BY <1>2
  <2> QED
    BY <1>2, <2>1, DivisionIsNat, TotalsAssumption DEF EarnedPoints
<1> QED
  BY <1>1, <1>2

(* No bill redeems more points than the wallet was seen to hold. *)
LEMMA RedeemedPointsBounds ==
  ASSUME NEW subtotal \in Nat, NEW points \in Nat, NEW other \in Int, NEW balance \in Nat
  PROVE  RedeemedPoints(subtotal, points, other, balance) \in 0..balance
<1>1. RequestedPoints(points) \in Nat
  BY DivisionIsNat, TotalsAssumption DEF RequestedPoints
<1>2. MaxPointsByBill(subtotal, other) \in Nat
  <2>1. CASE subtotal - other > 0
    <3>1. subtotal - other \in Nat
      BY <2>1
    <3> QED
      BY <2>1, <3>1, DivisionIsNat, TotalsAssumption DEF MaxPointsByBill
  <2>2. CASE ~(subtotal - other > 0)
    BY <2>2 DEF MaxPointsByBill
  <2> QED
    BY <2>1, <2>2
<1> QED
  BY <1>1, <1>2 DEF RedeemedPoints, Lower

LEMMA NewBillType ==
  ASSUME NEW r \in RequestType, NEW balance \in Nat
  PROVE  NewBill(r, balance) \in BillType
<1>1. /\ r.key \in Keys /\ r.subtotal \in Nat /\ OrElse(r.customer, r.user) \in Users \cup {Nobody}
      /\ r.points \in Nat /\ r.other \in Int /\ r.settled \in BOOLEAN
  BY DEF RequestType, OrElse
<1> DEFINE redeemed == RedeemedPoints(r.subtotal, r.points, r.other, balance)
<1> DEFINE points == redeemed * PaisePerPoint
<1>2. redeemed \in Nat
  <2>1. redeemed \in 0..balance
    BY <1>1, RedeemedPointsBounds
  <2> QED
    BY <2>1
<1>3. points \in Nat
  BY <1>2, ProductIsNat, TotalsAssumption
<1> HIDE DEF redeemed
<1>4. EarnedPoints(r.subtotal, CapDiscount(r.other + points, r.subtotal)) \in Nat
  <2> HIDE DEF points
  <2> DEFINE d == r.other + points
  <2>1. d \in Int
    BY <1>1, <1>3
  <2> HIDE DEF d
  <2>2. CapDiscount(d, r.subtotal) \in 0..r.subtotal
    BY <1>1, <2>1, CapDiscountBounds
  <2>3. CapDiscount(d, r.subtotal) \in Nat
    BY <1>1, <2>2
  <2> QED
    BY <1>1, <2>3, EarnedPointsIsNat DEF d
<1> HIDE DEF points
<1>5. NewBill(r, balance) =
       [key |-> r.key, customer |-> OrElse(r.customer, r.user), points |-> points, redeemed |-> redeemed,
        earned |-> IF r.settled /\ Linked(r)
                     THEN EarnedPoints(r.subtotal, CapDiscount(r.other + points, r.subtotal))
                     ELSE 0,
        settled |-> r.settled /\ Linked(r),
        processed |-> r.settled /\ Linked(r)]
  BY DEF NewBill, points, redeemed
<1> QED
  BY <1>1, <1>2, <1>3, <1>4, <1>5 DEF BillType

LEMMA UpdatedBillType ==
  ASSUME NEW r \in RequestType, NEW old \in BillType
  PROVE  /\ UpdatedBill(r, old) \in BillType
         /\ FrozenFields(UpdatedBill(r, old)) = FrozenFields(old)
<1> DEFINE named == OrElse(r.customer, OrElse(old.customer, r.user))
<1>1. /\ r.subtotal \in Nat /\ r.other \in Int /\ r.settled \in BOOLEAN
      /\ named \in Users \cup {Nobody}
  BY DEF RequestType, BillType, OrElse
<1>2. old.points \in Nat /\ old.earned \in Nat
  BY DEF BillType
<1>3. EarnedPoints(r.subtotal, CapDiscount(old.points + r.other, r.subtotal)) \in Nat
  <2> DEFINE d == old.points + r.other
  <2>1. d \in Int
    BY <1>1, <1>2
  <2> HIDE DEF d
  <2>2. CapDiscount(d, r.subtotal) \in 0..r.subtotal
    BY <1>1, <2>1, CapDiscountBounds
  <2>3. CapDiscount(d, r.subtotal) \in Nat
    BY <1>1, <2>2
  <2> QED
    BY <1>1, <2>3, EarnedPointsIsNat DEF d
<1> DEFINE e == EarnedPoints(r.subtotal, CapDiscount(old.points + r.other, r.subtotal))
<1>4. ShouldEarn(r, old) \in BOOLEAN
  BY DEF ShouldEarn
<1> HIDE DEF e, named
<1>5. UpdatedBill(r, old) =
       [old EXCEPT
          !.customer = named,
          !.settled = @ \/ r.settled,
          !.processed = @ \/ ShouldEarn(r, old),
          !.earned = IF ShouldEarn(r, old) THEN e ELSE @]
  BY DEF UpdatedBill, e, named
<1>6. UpdatedBill(r, old) \in BillType
  BY <1>1, <1>2, <1>3, <1>4, <1>5 DEF BillType, e
<1>7. FrozenFields(UpdatedBill(r, old)) = FrozenFields(old)
  BY <1>5 DEF BillType, FrozenFields
<1> QED
  BY <1>6, <1>7

(* Points move only where the wallet condition lets them: the balance      *)
(* stays a natural number and the wallet keeps accounting for itself.      *)
LEMMA MovePointsType ==
  ASSUME NEW w \in WalletType, NEW redeem \in Nat, NEW earn \in Nat,
         redeem > 0 => w.balance >= redeem
  PROVE  /\ MovePoints(w, redeem, earn) \in WalletType
         /\ Balanced(w) => Balanced(MovePoints(w, redeem, earn))
<1>1. w.balance \in Nat /\ w.earned \in Nat /\ w.redeemed \in Nat
  BY DEF WalletType
<1> DEFINE b == (w.balance + earn) - redeem
           e == w.earned + earn
           r == w.redeemed + redeem
<1>2. b \in Nat /\ e \in Nat /\ r \in Nat
  BY <1>1
<1>3. MovePoints(w, redeem, earn) \in WalletType
  <2>1. MovePoints(w, redeem, earn) =
          [w EXCEPT !.balance = b, !.earned = e, !.redeemed = r]
    BY DEF MovePoints
  <2> HIDE DEF b, e, r
  <2> QED
    BY <1>2, <2>1 DEF WalletType
<1>4. /\ MovePoints(w, redeem, earn).balance = (w.balance + earn) - redeem
      /\ MovePoints(w, redeem, earn).earned = w.earned + earn
      /\ MovePoints(w, redeem, earn).redeemed = w.redeemed + redeem
  BY DEF MovePoints, WalletType
<1> QED
  BY <1>1, <1>3, <1>4 DEF Balanced

-----------------------------------------------------------------------------
(* Type correctness *)

LEMMA RequestsTyped ==
  ASSUME TypeOK, NEW c \in Calls
  PROVE  /\ req[c] \in RequestType
         /\ req[c].user \in Users \cup {Nobody}
         /\ req[c].key \in Keys
         /\ req[c].id \in Ids \cup {NoId}
BY UpsertAssumption DEF TypeOK, RequestType

LEMMA PriceTypes ==
  ASSUME TypeOK, NEW c \in Calls, NEW balance \in Nat, Price(c, balance)
  PROVE  pc' \in [Calls -> Steps] /\ draft' \in [Calls -> BillType]
<1>1. NewBill(req[c], balance) \in BillType
  BY RequestsTyped, NewBillType
<1> QED
  BY <1>1 DEF Price, Goto, TypeOK, Steps

LEMMA PayPointsTypes ==
  ASSUME TypeOK, NEW u, NEW redeem \in Nat, NEW earn \in Nat,
         WalletCondition(u, redeem, earn), PayPoints(u, redeem, earn)
  PROVE  /\ wallet' \in [Users -> WalletType \cup {NoWallet}]
         /\ WalletsBalance => WalletsBalance'
<1>1. CASE (redeem > 0 \/ earn > 0) /\ u \in Users
  <2>1. u \in Users /\ wallet[u] # NoWallet /\ wallet[u] \in WalletType
    BY <1>1 DEF WalletCondition, TypeOK
  <2>2. redeem > 0 => wallet[u].balance >= redeem
    BY <1>1 DEF WalletCondition
  <2>3. /\ MovePoints(wallet[u], redeem, earn) \in WalletType
        /\ Balanced(wallet[u]) => Balanced(MovePoints(wallet[u], redeem, earn))
    BY <2>1, <2>2, MovePointsType
  <2>4. wallet' = [wallet EXCEPT ![u] = MovePoints(wallet[u], redeem, earn)]
    BY <1>1 DEF PayPoints
  <2> QED
    BY <2>1, <2>3, <2>4 DEF TypeOK, WalletsBalance
<1>2. CASE ~((redeem > 0 \/ earn > 0) /\ u \in Users)
  <2>1. wallet' = wallet
    BY <1>2 DEF PayPoints, TypeOK
  <2> QED
    BY <2>1 DEF TypeOK, WalletsBalance
<1> QED
  BY <1>1, <1>2

(* The parts of TypeOK that an action of a call may disturb *)
LEMMA TypeParts ==
  ASSUME TypeOK, UNCHANGED <<replica, year, req>>, CounterTypeOK',
         bills' \in [Ids -> BillType \cup {NoBill}],
         indexed' \subseteq Ids,
         wallet' \in [Users -> WalletType \cup {NoWallet}],
         pc' \in [Calls -> Steps],
         target' \in [Calls -> Ids \cup {NoId}],
         stamp' \in [Calls -> Years],
         draft' \in [Calls -> BillType],
         answer' \in [Calls -> Ids \cup {NoId}],
         payer' \in [Ids -> Users \cup {Nobody}],
         earner' \in [Ids -> Users \cup {Nobody}]
  PROVE  TypeOK'
BY DEF TypeOK

(* Where a call may be: one that creates has no target until it has taken  *)
(* a number, one that updates has the target it was asked for.             *)
CreateSteps == {"queryKey", "route", "number", "create", "recheck"}
UpdateSteps == {"readBill", "settle", "recheckSettled", "put"}

OnTrack(step, r, t) ==
  /\ step = "idle" => t = NoId
  /\ r.id = NoId => step \notin UpdateSteps
  /\ r.id # NoId => step \notin CreateSteps
  /\ (r.id # NoId /\ step # "idle") => t = r.id
  /\ (r.id # NoId /\ step = "resolve") => Linked(r)
  /\ r.id = NoId => IF step \in {"create", "recheck", "done", "failed"}
                      THEN step \in {"create", "recheck"} => t \in Ids
                      ELSE t = NoId

Tracked == \A c \in Calls : OnTrack(pc[c], req[c], target[c])

LEMMA StepTypes ==
  ASSUME TypeOK, Tracked, NEW c \in Calls, Step(c)
  PROVE  TypeOK'
<1>1. ASSUME NEW s \in Steps, Goto(c, s) PROVE pc' \in [Calls -> Steps]
  BY <1>1 DEF Goto, TypeOK
<1>2. ASSUME NEW id \in Ids \cup {NoId}, Answer(c, id)
      PROVE  pc' \in [Calls -> Steps] /\ answer' \in [Calls -> Ids \cup {NoId}]
  BY <1>2 DEF Goto, Answer, Steps, TypeOK
<1>3. ASSUME UNCHANGED counterVars PROVE CounterTypeOK'
  BY <1>3 DEF counterVars, TypeOK, CounterTypeOK
<1>4. \A u \in Users : BalanceOf(wallet[u]) \in Nat /\ BalanceOf(replica[u]) \in Nat
  BY DEF BalanceOf, TypeOK, WalletType
<1>5. req[c] \in RequestType /\ req[c].user \in Users \cup {Nobody}
  BY RequestsTyped
<1>6. draft[c] \in BillType /\ draft[c].redeemed \in Nat /\ draft[c].earned \in Nat
  BY DEF TypeOK, BillType
<1>7. CASE FoundByKey(c)
  <2>1. PICK id \in indexed : Answer(c, id)
    BY <1>7 DEF FoundByKey
  <2>2. pc' \in [Calls -> Steps] /\ answer' \in [Calls -> Ids \cup {NoId}]
    BY <1>2, <2>1 DEF TypeOK
  <2> QED
    BY <1>3, <1>7, <2>2, TypeParts DEF FoundByKey, TypeOK, storeVars
<1>8. CASE NotFoundByKey(c)
  BY <1>3, <1>8, TypeParts DEF NotFoundByKey, TypeOK, storeVars, Goto, Steps
<1>9. CASE ResolveNobody(c)
  <2>1. pc' \in [Calls -> Steps] /\ draft' \in [Calls -> BillType]
    BY <1>9, PriceTypes DEF ResolveNobody
  <2> QED
    BY <1>3, <1>9, <2>1, TypeParts DEF ResolveNobody, TypeOK, storeVars
<1>10. CASE ReadWallet(c)
  <2>1. pc' \in [Calls -> Steps] /\ draft' \in [Calls -> BillType]
    <3>1. req[c].user \in Users
      BY <1>5, <1>10 DEF ReadWallet, Linked
    <3>2. PICK seen \in {wallet[req[c].user], replica[req[c].user]} :
            \/ Goto(c, "putWallet") /\ UNCHANGED draft
            \/ Price(c, BalanceOf(seen))
            \/ Goto(c, "settle") /\ UNCHANGED draft
      BY <1>10 DEF ReadWallet
    <3>3. CASE Price(c, BalanceOf(seen))
      BY <1>4, <3>1, <3>2, <3>3, PriceTypes
    <3>4. CASE ~Price(c, BalanceOf(seen))
      BY <3>2, <3>4 DEF Goto, Steps, TypeOK
    <3> QED
      BY <3>3, <3>4
  <2> QED
    BY <1>3, <1>10, <2>1, TypeParts DEF ReadWallet, TypeOK, storeVars
<1>11. CASE PutEmptyWallet(c)
  <2>1. pc' \in [Calls -> Steps] /\ draft' \in [Calls -> BillType]
    <3>1. CASE Price(c, 0)
      BY <3>1, PriceTypes
    <3>2. CASE ~Price(c, 0)
      BY <1>11, <3>2 DEF PutEmptyWallet, Goto, Steps, TypeOK
    <3> QED
      BY <3>1, <3>2
  <2>2. wallet' \in [Users -> WalletType \cup {NoWallet}]
    BY <1>11 DEF PutEmptyWallet, EmptyWallet, WalletType, TypeOK
  <2> QED
    BY <1>3, <1>11, <2>1, <2>2, TypeParts DEF PutEmptyWallet, TypeOK
<1>12. CASE RouteInvoice(c)
  BY <1>3, <1>12, TypeParts DEF RouteInvoice, TypeOK, storeVars, Goto, Steps
<1>13. CASE TakeNumber(c)
  <2>1. stamp[c] \in Years /\ req[c].key \in Keys
    BY RequestsTyped DEF TypeOK
  <2>2. CounterTypeOK' /\ byBill'[stamp[c]][req[c].key] \in Sequences
    BY <1>13, <2>1, NextInvoiceTypes DEF TakeNumber, TypeOK
  <2>3. target' \in [Calls -> Ids \cup {NoId}]
    BY <1>13, <2>1, <2>2 DEF TakeNumber, TypeOK, Ids
  <2> QED
    BY <1>13, <2>2, <2>3, TypeParts DEF TakeNumber, TypeOK, storeVars, Goto, Steps
<1>14. CASE CommitCreate(c)
  <2>1. wallet' \in [Users -> WalletType \cup {NoWallet}]
    BY <1>6, <1>14, PayPointsTypes DEF CommitCreate
  <2>2. bills' \in [Ids -> BillType \cup {NoBill}]
    BY <1>6, <1>14 DEF CommitCreate, TypeOK
  <2>3. pc' \in [Calls -> Steps] /\ answer' \in [Calls -> Ids \cup {NoId}]
    BY <1>14 DEF CommitCreate, Answer, Goto, Steps, TypeOK
  <2>4. /\ payer' \in [Ids -> Users \cup {Nobody}]
        /\ earner' \in [Ids -> Users \cup {Nobody}]
    BY <1>5, <1>14 DEF CommitCreate, TypeOK
  <2> QED
    BY <1>3, <1>14, <2>1, <2>2, <2>3, <2>4, TypeParts DEF CommitCreate, TypeOK
<1>15. CASE RefuseCreate(c)
  BY <1>3, <1>15, TypeParts DEF RefuseCreate, TypeOK, storeVars, Goto, Steps
<1>16. CASE Recheck(c)
  <2>1. pc' \in [Calls -> Steps] /\ answer' \in [Calls -> Ids \cup {NoId}]
    BY <1>16 DEF Recheck, Answer, Goto, Steps, TypeOK
  <2> QED
    BY <1>3, <1>16, <2>1, TypeParts DEF Recheck, TypeOK, storeVars
<1>17. CASE ReadBill(c)
  <2>1. pc' \in [Calls -> Steps]
    BY <1>17 DEF ReadBill, Goto, Steps, TypeOK
  <2>2. draft' \in [Calls -> BillType]
    <3>1. CASE bills[target[c]] = NoBill
      BY <1>17, <3>1 DEF ReadBill, TypeOK
    <3>2. CASE bills[target[c]] # NoBill /\ target[c] \in Ids
      <4>1. bills[target[c]] \in BillType
        BY <3>2 DEF TypeOK
      <4>2. UpdatedBill(req[c], bills[target[c]]) \in BillType
        BY <1>5, <4>1, UpdatedBillType
      <4> QED
        BY <1>17, <3>2, <4>2 DEF ReadBill, TypeOK
    <3>3. target[c] \in Ids
      BY <1>5, <1>17 DEF ReadBill, At, Tracked, OnTrack, UpdateSteps, RequestType
    <3> QED
      BY <3>1, <3>2, <3>3
  <2> QED
    BY <1>3, <1>17, <2>1, <2>2, TypeParts DEF ReadBill, TypeOK, storeVars
<1>18. CASE CommitSettle(c)
  <2>1. wallet' \in [Users -> WalletType \cup {NoWallet}]
    BY <1>6, <1>18, PayPointsTypes DEF CommitSettle
  <2>2. bills' \in [Ids -> BillType \cup {NoBill}]
    BY <1>6, <1>18 DEF CommitSettle, TypeOK
  <2>3. pc' \in [Calls -> Steps] /\ answer' \in [Calls -> Ids \cup {NoId}]
    BY <1>18 DEF CommitSettle, Answer, Goto, Steps, TypeOK
  <2>4. earner' \in [Ids -> Users \cup {Nobody}]
    BY <1>5, <1>18 DEF CommitSettle, TypeOK
  <2> QED
    BY <1>3, <1>18, <2>1, <2>2, <2>3, <2>4, TypeParts DEF CommitSettle, TypeOK
<1>19. CASE RefuseSettle(c)
  BY <1>3, <1>19, TypeParts DEF RefuseSettle, TypeOK, storeVars, Goto, Steps
<1>20. CASE RecheckSettled(c)
  <2>1. pc' \in [Calls -> Steps] /\ answer' \in [Calls -> Ids \cup {NoId}]
    BY <1>20 DEF RecheckSettled, Answer, Goto, Steps, TypeOK
  <2> QED
    BY <1>3, <1>20, <2>1, TypeParts DEF RecheckSettled, TypeOK, storeVars
<1>21. CASE PutBill(c)
  <2>1. pc' \in [Calls -> Steps] /\ answer' \in [Calls -> Ids \cup {NoId}]
    BY <1>21 DEF PutBill, Answer, Goto, Steps, TypeOK
  <2>2. bills' \in [Ids -> BillType \cup {NoBill}]
    BY <1>6, <1>21 DEF PutBill, TypeOK
  <2> QED
    BY <1>3, <1>21, <2>1, <2>2, TypeParts DEF PutBill, TypeOK
<1> QED
  BY <1>7, <1>8, <1>9, <1>10, <1>11, <1>12, <1>13, <1>14, <1>15, <1>16, <1>17,
     <1>18, <1>19, <1>20, <1>21 DEF Step

LEMMA StepTracked ==
  ASSUME TypeOK, Tracked, NEW c \in Calls, Start(c) \/ Step(c) \/ Die(c)
  PROVE  Tracked'
<1> DEFINE Goal ==
      /\ req' = req
      /\ \A d \in Calls : d # c => pc'[d] = pc[d] /\ target'[d] = target[d]
      /\ OnTrack(pc'[c], req[c], target'[c])
<1> SUFFICES Goal
  BY DEF Tracked
<1>1. OnTrack(pc[c], req[c], target[c])
  BY DEF Tracked
<1>2. pc \in [Calls -> Steps] /\ target \in [Calls -> Ids \cup {NoId}] /\ NoId \notin Ids
  BY UpsertAssumption DEF TypeOK
<1>3. req[c].id \in Ids \cup {NoId}
  BY RequestsTyped
<1> USE DEF OnTrack, CreateSteps, UpdateSteps, Goto, At
<1>4. CASE Start(c)
  BY <1>1, <1>2, <1>3, <1>4 DEF Start
<1>5. CASE FoundByKey(c)
  BY <1>1, <1>2, <1>3, <1>5 DEF FoundByKey, Answer
<1>6. CASE NotFoundByKey(c)
  BY <1>1, <1>2, <1>3, <1>6 DEF NotFoundByKey
<1>7. CASE ResolveNobody(c)
  BY <1>1, <1>2, <1>3, <1>7 DEF ResolveNobody, Price
<1>8. CASE ReadWallet(c)
  BY <1>1, <1>2, <1>3, <1>8 DEF ReadWallet, Price
<1>9. CASE PutEmptyWallet(c)
  BY <1>1, <1>2, <1>3, <1>9 DEF PutEmptyWallet, Price
<1>10. CASE RouteInvoice(c)
  BY <1>1, <1>2, <1>3, <1>10 DEF RouteInvoice
<1>11. CASE TakeNumber(c)
  <2>1. stamp[c] \in Years /\ req[c].key \in Keys
    BY RequestsTyped DEF TypeOK
  <2>2. byBill'[stamp[c]][req[c].key] \in Sequences
    BY <1>11, <2>1, NextInvoiceTypes DEF TakeNumber, TypeOK
  <2>3. <<stamp[c], byBill'[stamp[c]][req[c].key]>> \in Ids
    BY <2>1, <2>2 DEF Ids
  <2> QED
    BY <1>1, <1>2, <1>3, <1>11, <2>3 DEF TakeNumber
<1>12. CASE CommitCreate(c)
  BY <1>1, <1>2, <1>3, <1>12 DEF CommitCreate, Answer
<1>13. CASE RefuseCreate(c)
  BY <1>1, <1>2, <1>3, <1>13 DEF RefuseCreate
<1>14. CASE Recheck(c)
  BY <1>1, <1>2, <1>3, <1>14 DEF Recheck, Answer
<1>15. CASE ReadBill(c)
  BY <1>1, <1>2, <1>3, <1>15 DEF ReadBill, ShouldEarn
<1>16. CASE CommitSettle(c)
  BY <1>1, <1>2, <1>3, <1>16 DEF CommitSettle, Answer
<1>17. CASE RefuseSettle(c)
  BY <1>1, <1>2, <1>3, <1>17 DEF RefuseSettle
<1>18. CASE RecheckSettled(c)
  BY <1>1, <1>2, <1>3, <1>18 DEF RecheckSettled, Answer
<1>19. CASE PutBill(c)
  BY <1>1, <1>2, <1>3, <1>19 DEF PutBill, Answer
<1>20. CASE Die(c)
  BY <1>1, <1>2, <1>3, <1>20 DEF Die, Ended
<1> QED
  BY <1>4, <1>5, <1>6, <1>7, <1>8, <1>9, <1>10, <1>11, <1>12,
     <1>13, <1>14, <1>15, <1>16, <1>17, <1>18, <1>19, <1>20 DEF Step

-----------------------------------------------------------------------------
(* Who owns a number, and what an update may write *)

(* A bill lies under a number that was issued to its state key. *)
BillsOwnNumbers ==
  \A id \in Ids : bills[id] # NoBill => byInvoice[id[1]][id[2]] = bills[id].key

(* A call that creates writes its own state key under its own number. *)
CreatesOwnNumbers ==
  \A c \in Calls : req[c].id = NoId =>
    /\ draft[c].key = req[c].key
    /\ pc[c] \in {"create", "recheck"} =>
         byInvoice[target[c][1]][target[c][2]] = req[c].key

(* A call that updates is about to write back the frozen fields. *)
UpdatesKeepFrozen ==
  \A c \in Calls : (req[c].id # NoId /\ pc[c] \in {"resolve", "putWallet", "settle", "put"}) =>
    /\ bills[target[c]] # NoBill
    /\ FrozenFields(draft[c]) = FrozenFields(bills[target[c]])

IndexShowsBills == \A id \in indexed : bills[id] # NoBill

BillsStay ==
  \A id \in Ids : bills[id] # NoBill =>
    bills'[id] # NoBill /\ FrozenFields(bills'[id]) = FrozenFields(bills[id])

IInv ==
  /\ TypeOK /\ MapsAgree /\ WalletsBalance /\ Tracked
  /\ BillsOwnNumbers /\ CreatesOwnNumbers /\ UpdatesKeepFrozen
  /\ IndexShowsBills /\ AnswersAreBills

(* A step of one call leaves the others alone. *)
LEMMA StepFrame ==
  ASSUME TypeOK, NEW c \in Calls, Start(c) \/ Step(c) \/ Die(c)
  PROVE  /\ UNCHANGED <<indexed, replica, year, req>>
         /\ \A d \in Calls : d # c =>
              /\ pc'[d] = pc[d] /\ target'[d] = target[d]
              /\ draft'[d] = draft[d] /\ answer'[d] = answer[d]
BY DEF Start, Step, Die, FoundByKey, NotFoundByKey, ResolveNobody, ReadWallet,
       PutEmptyWallet, RouteInvoice, TakeNumber, CommitCreate, RefuseCreate, Recheck,
       ReadBill, CommitSettle, RefuseSettle, RecheckSettled, PutBill,
       Price, Answer, Goto, TypeOK, storeVars

(* Only three steps write a bill. *)
LEMMA StepWritesBill ==
  ASSUME NEW c \in Calls, Start(c) \/ Step(c) \/ Die(c)
  PROVE  \/ bills' = bills
         \/ CommitCreate(c)
         \/ CommitSettle(c) \/ PutBill(c)
BY DEF Start, Step, Die, FoundByKey, NotFoundByKey, ResolveNobody, ReadWallet,
       PutEmptyWallet, RouteInvoice, TakeNumber, RefuseCreate, Recheck,
       ReadBill, RefuseSettle, RecheckSettled, storeVars

(* Only one step takes a number. *)
LEMMA StepTakesNumber ==
  ASSUME NEW c \in Calls, Start(c) \/ Step(c) \/ Die(c)
  PROVE  UNCHANGED counterVars \/ TakeNumber(c)
BY DEF Start, Step, Die, FoundByKey, NotFoundByKey, ResolveNobody, ReadWallet,
       PutEmptyWallet, RouteInvoice, CommitCreate, RefuseCreate, Recheck,
       ReadBill, CommitSettle, RefuseSettle, RecheckSettled, PutBill

(* What is on record under a number stays there. *)
LEMMA InvoicesStay ==
  ASSUME IInv, NEW c \in Calls, Start(c) \/ Step(c) \/ Die(c),
         NEW id \in Ids, byInvoice[id[1]][id[2]] # NoKey
  PROVE  byInvoice'[id[1]][id[2]] = byInvoice[id[1]][id[2]]
<1>1. CASE UNCHANGED counterVars
  BY <1>1 DEF counterVars
<1>2. CASE TakeNumber(c)
  <2> DEFINE y == stamp[c]
             k == req[c].key
  <2>1. y \in Years /\ k \in Keys
    BY RequestsTyped DEF IInv, TypeOK
  <2>2. CASE ReturnExisting(y, k)
    BY <2>2 DEF ReturnExisting, counterVars
  <2>3. CASE IssueNew(y, k)
    <3>1. counter[y] \in Nat /\ counter[y] + 1 \in Sequences
      BY <2>1, <2>3, IssueNewEffect DEF IInv, TypeOK
    <3>2. byInvoice[y][counter[y] + 1] = NoKey
      BY <2>1, <3>1 DEF IInv, MapsAgree
    <3>3. id[1] \in Years /\ id[2] \in Sequences
      BY DEF Ids
    <3>4. id[1] # y \/ id[2] # counter[y] + 1
      BY <3>2
    <3>5. CASE id[1] # y
      BY <2>1, <2>3, <3>3, <3>5, IssueNewEffect DEF IInv, TypeOK
    <3>6. CASE id[1] = y /\ id[2] # counter[y] + 1
      <4>1. byInvoice'[y][id[2]] = byInvoice[y][id[2]]
        BY <2>1, <2>3, <3>3, <3>6, IssueNewEffect DEF IInv, TypeOK
      <4> QED
        BY <3>6, <4>1
    <3> QED
      BY <3>4, <3>5, <3>6
  <2> QED
    BY <1>2, <2>2, <2>3 DEF TakeNumber, NextInvoice
<1> QED
  BY <1>1, <1>2, StepTakesNumber

(* No step of a call removes a bill or touches its frozen fields. *)
LEMMA StepKeepsFrozen ==
  ASSUME IInv, NEW c \in Calls, Start(c) \/ Step(c) \/ Die(c)
  PROVE  BillsStay
<1> USE DEF IInv
<1>1. draft[c] \in BillType /\ draft[c] # NoBill
  BY UpsertAssumption DEF TypeOK
<1>2. CASE bills' = bills
  BY <1>2 DEF BillsStay
<1>3. CASE CommitCreate(c)
  BY <1>3 DEF CommitCreate, CreateCondition, BillsStay, TypeOK
<1>4. CASE CommitSettle(c)
  <2>1. req[c].id # NoId /\ pc[c] = "settle"
    BY <1>4 DEF CommitSettle, At, Tracked, OnTrack, UpdateSteps
  <2>2. bills[target[c]] # NoBill /\ FrozenFields(draft[c]) = FrozenFields(bills[target[c]])
    BY <2>1 DEF UpdatesKeepFrozen
  <2>3. bills' = [bills EXCEPT ![target[c]] = draft[c]]
    BY <1>4 DEF CommitSettle
  <2> QED
    BY <1>1, <2>2, <2>3 DEF BillsStay, TypeOK
<1>5. CASE PutBill(c)
  <2>1. req[c].id # NoId /\ pc[c] = "put"
    BY <1>5 DEF PutBill, At, Tracked, OnTrack, UpdateSteps
  <2>2. bills[target[c]] # NoBill /\ FrozenFields(draft[c]) = FrozenFields(bills[target[c]])
    BY <2>1 DEF UpdatesKeepFrozen
  <2>3. bills' = [bills EXCEPT ![target[c]] = draft[c]]
    BY <1>5 DEF PutBill
  <2> QED
    BY <1>1, <2>2, <2>3 DEF BillsStay, TypeOK
<1> QED
  BY <1>2, <1>3, <1>4, <1>5, StepWritesBill

(* Bills keep lying under their own numbers. *)
LEMMA StepBillsOwn ==
  ASSUME IInv, NEW c \in Calls, Start(c) \/ Step(c) \/ Die(c)
  PROVE  BillsOwnNumbers'
<1> USE DEF IInv
<1>1. ASSUME NEW id \in Ids, bills[id] # NoBill
      PROVE  byInvoice'[id[1]][id[2]] = bills'[id].key
  <2>1. byInvoice[id[1]][id[2]] = bills[id].key /\ bills[id].key \in Keys
    BY <1>1 DEF BillsOwnNumbers, TypeOK, BillType
  <2>2. byInvoice'[id[1]][id[2]] = byInvoice[id[1]][id[2]]
    BY <2>1, InvoicesStay, CounterAssumption
  <2>3. bills'[id].key = bills[id].key
    BY <1>1, StepKeepsFrozen DEF BillsStay, FrozenFields
  <2> QED
    BY <2>1, <2>2, <2>3
<1>2. ASSUME NEW id \in Ids, bills[id] = NoBill, bills'[id] # NoBill
      PROVE  byInvoice'[id[1]][id[2]] = bills'[id].key
  <2>1. CommitCreate(c) /\ id = target[c] /\ bills'[id] = draft[c]
    <3>1. CASE bills' = bills
      BY <1>2, <3>1
    <3>2. CASE CommitCreate(c)
      BY <1>2, <3>2 DEF CommitCreate, TypeOK
    <3>3. CASE CommitSettle(c) \/ PutBill(c)
      <4>1. req[c].id # NoId /\ pc[c] \in {"settle", "put"}
        BY <3>3 DEF CommitSettle, PutBill, At, Tracked, OnTrack, UpdateSteps
      <4>2. bills[target[c]] # NoBill /\ bills' = [bills EXCEPT ![target[c]] = draft[c]]
        BY <3>3, <4>1 DEF CommitSettle, PutBill, UpdatesKeepFrozen
      <4> QED
        BY <1>2, <4>2 DEF TypeOK
    <3> QED
      BY <3>1, <3>2, <3>3, StepWritesBill
  <2>2. req[c].id = NoId /\ pc[c] = "create"
    BY <2>1 DEF CommitCreate, At, Tracked, OnTrack, CreateSteps
  <2>3. draft[c].key = req[c].key /\ byInvoice[id[1]][id[2]] = req[c].key
    BY <2>1, <2>2 DEF CreatesOwnNumbers
  <2>4. byInvoice' = byInvoice
    BY <2>1 DEF CommitCreate, counterVars
  <2> QED
    BY <2>1, <2>3, <2>4
<1> QED
  BY <1>1, <1>2 DEF BillsOwnNumbers

LEMMA StepMapsAgree ==
  ASSUME IInv, NEW c \in Calls, Start(c) \/ Step(c) \/ Die(c)
  PROVE  MapsAgree'
<1>1. CASE UNCHANGED counterVars
  BY <1>1 DEF counterVars, IInv, MapsAgree
<1>2. CASE TakeNumber(c)
  BY <1>2, RequestsTyped, NextInvoiceKeepsMaps DEF TakeNumber, IInv, TypeOK
<1> QED
  BY <1>1, <1>2, StepTakesNumber

(* The number a call takes is its own, and stays so until it has written. *)
LEMMA StepCreatesOwn ==
  ASSUME IInv, NEW c \in Calls, Start(c) \/ Step(c) \/ Die(c)
  PROVE  CreatesOwnNumbers'
<1> USE DEF IInv
<1>1. req' = req
  BY StepFrame
<1>2. ASSUME NEW d \in Calls, req[d].id = NoId PROVE draft'[d].key = req[d].key
  <2>1. CASE draft'[d] = draft[d]
    BY <1>2, <2>1 DEF CreatesOwnNumbers
  <2>2. CASE d = c /\ \E balance : Price(c, balance)
    BY <2>2 DEF Price, NewBill, TypeOK
  <2>3. draft'[d] = draft[d] \/ (d = c /\ \E balance : Price(c, balance))
    <3>1. CASE ReadBill(c) /\ d = c
      BY <1>2, <3>1 DEF ReadBill, At, Tracked, OnTrack, UpdateSteps
    <3>2. CASE ~ReadBill(c) /\ d = c
      BY <3>2 DEF Start, Step, Die, FoundByKey, NotFoundByKey, ResolveNobody, ReadWallet,
           PutEmptyWallet, RouteInvoice, TakeNumber, CommitCreate, RefuseCreate, Recheck,
           CommitSettle, RefuseSettle, RecheckSettled, PutBill
    <3> QED
      BY <3>1, <3>2, StepFrame
  <2> QED
    BY <2>1, <2>2, <2>3
<1>3. ASSUME NEW d \in Calls, req[d].id = NoId, pc'[d] \in {"create", "recheck"}
      PROVE  byInvoice'[target'[d][1]][target'[d][2]] = req[d].key
  <2>1. CASE target'[d] = target[d] /\ pc[d] \in {"create", "recheck"}
    <3>1. target[d] \in Ids
      BY <1>3, <2>1 DEF Tracked, OnTrack
    <3>2. byInvoice[target[d][1]][target[d][2]] = req[d].key /\ req[d].key \in Keys
      BY <1>3, <2>1, RequestsTyped DEF CreatesOwnNumbers
    <3> QED
      BY <2>1, <3>1, <3>2, InvoicesStay, CounterAssumption
  <2>2. CASE d = c /\ TakeNumber(c)
    <3> DEFINE y == stamp[c]
               k == req[c].key
    <3>1. y \in Years /\ k \in Keys
      BY RequestsTyped DEF TypeOK
    <3>2. byBill'[y][k] \in Sequences
      BY <2>2, <3>1, NextInvoiceTypes DEF TakeNumber, TypeOK
    <3>3. byInvoice'[y][byBill'[y][k]] = k
      BY <3>1, <3>2, StepMapsAgree DEF MapsAgree, Sequences
    <3>4. target'[c] = <<y, byBill'[y][k]>>
      BY <2>2 DEF TakeNumber, TypeOK
    <3> QED
      BY <2>2, <3>3, <3>4
  <2>3. \/ target'[d] = target[d] /\ pc[d] \in {"create", "recheck"}
        \/ d = c /\ TakeNumber(c)
    <3>1. CASE d # c
      BY <1>3, <3>1, StepFrame
    <3>2. CASE d = c
      BY <1>3, <3>2 DEF Start, Step, Die, FoundByKey, NotFoundByKey, ResolveNobody, ReadWallet,
           PutEmptyWallet, RouteInvoice, CommitCreate, RefuseCreate, Recheck, ReadBill,
           CommitSettle, RefuseSettle, RecheckSettled, PutBill, Price, Answer, Goto, At, TypeOK
    <3> QED
      BY <3>1, <3>2
  <2> QED
    BY <2>1, <2>2, <2>3
<1> QED
  BY <1>1, <1>2, <1>3 DEF CreatesOwnNumbers

(* From its read of the bill to its write, an update keeps the frozen      *)
(* fields it read, and the bill keeps them as well.                        *)
LEMMA StepUpdatesFrozen ==
  ASSUME IInv, NEW c \in Calls, Start(c) \/ Step(c) \/ Die(c)
  PROVE  UpdatesKeepFrozen'
<1> USE DEF IInv
<1> DEFINE Busy == {"resolve", "putWallet", "settle", "put"}
<1>1. SUFFICES ASSUME NEW d \in Calls, req[d].id # NoId, pc'[d] \in Busy
               PROVE  /\ bills'[target'[d]] # NoBill
                      /\ FrozenFields(draft'[d]) = FrozenFields(bills'[target'[d]])
  BY StepFrame DEF UpdatesKeepFrozen
<1>2. CASE pc[d] \in Busy /\ target'[d] = target[d] /\ draft'[d] = draft[d]
  <2>1. target[d] \in Ids
    BY <1>1, <1>2, RequestsTyped DEF Tracked, OnTrack
  <2>2. bills[target[d]] # NoBill /\ FrozenFields(draft[d]) = FrozenFields(bills[target[d]])
    BY <1>1, <1>2 DEF UpdatesKeepFrozen
  <2> QED
    BY <1>2, <2>1, <2>2, StepKeepsFrozen DEF BillsStay
<1>3. CASE d = c /\ ReadBill(c)
  <2>1. bills[target[c]] # NoBill /\ target[c] \in Ids
    BY <1>1, <1>3, RequestsTyped DEF ReadBill, Goto, At, TypeOK, Tracked, OnTrack
  <2>2. bills[target[c]] \in BillType /\ req[c] \in RequestType
    BY <2>1, RequestsTyped DEF TypeOK
  <2>3. /\ draft'[c] = UpdatedBill(req[c], bills[target[c]])
        /\ bills' = bills /\ target' = target
    BY <1>3, <2>1 DEF ReadBill, TypeOK, storeVars
  <2> QED
    BY <1>3, <2>1, <2>2, <2>3, UpdatedBillType
<1>4. \/ pc[d] \in Busy /\ target'[d] = target[d] /\ draft'[d] = draft[d]
      \/ d = c /\ ReadBill(c)
  <2>1. CASE d # c
    BY <1>1, <2>1, StepFrame
  <2>2. CASE d = c
    BY <1>1, <2>2 DEF Start, Step, Die, FoundByKey, NotFoundByKey, ResolveNobody, ReadWallet,
         PutEmptyWallet, RouteInvoice, TakeNumber, CommitCreate, RefuseCreate, Recheck,
         CommitSettle, RefuseSettle, RecheckSettled, PutBill, Price, Answer, Goto, At,
         TypeOK, Tracked, OnTrack, CreateSteps
  <2> QED
    BY <2>1, <2>2
<1> QED
  BY <1>2, <1>3, <1>4

(* A call ends with a bill that exists and that it asked for. *)
LEMMA StepAnswers ==
  ASSUME IInv, NEW c \in Calls, Start(c) \/ Step(c) \/ Die(c)
  PROVE  AnswersAreBills'
<1> USE DEF IInv
<1> DEFINE Good(d, id) ==
      /\ id \in Ids
      /\ bills'[id] # NoBill
      /\ IF req[d].id = NoId THEN bills'[id].key = req[d].key ELSE id = req[d].id
<1>1. SUFFICES ASSUME NEW d \in Calls, pc'[d] = "done" PROVE Good(d, answer'[d])
  BY StepFrame DEF AnswersAreBills, At
<1>2. ASSUME NEW id \in Ids, bills[id] # NoBill
      PROVE  bills'[id] # NoBill /\ bills'[id].key = bills[id].key
  BY <1>2, StepKeepsFrozen DEF BillsStay, FrozenFields
<1>3. CASE pc[d] = "done" /\ answer'[d] = answer[d]
  <2>1. /\ answer[d] \in Ids /\ bills[answer[d]] # NoBill
        /\ IF req[d].id = NoId THEN bills[answer[d]].key = req[d].key ELSE answer[d] = req[d].id
    BY <1>3 DEF AnswersAreBills, At
  <2> QED
    BY <1>2, <1>3, <2>1
<1>4. CASE d = c /\ FoundByKey(c)
  <2>1. PICK id \in indexed : bills[id].key = req[c].key /\ Answer(c, id)
    BY <1>4 DEF FoundByKey
  <2>2. id \in Ids /\ bills[id] # NoBill /\ answer'[c] = id
    BY <2>1 DEF IndexShowsBills, TypeOK, Answer
  <2>3. req[c].id = NoId
    BY <1>4 DEF FoundByKey, At, Tracked, OnTrack, CreateSteps
  <2> QED
    BY <1>2, <1>4, <2>1, <2>2, <2>3
<1>5. CASE d = c /\ CommitCreate(c)
  <2>1. req[c].id = NoId /\ target[c] \in Ids
    BY <1>5 DEF CommitCreate, At, Tracked, OnTrack, CreateSteps
  <2>2. bills'[target[c]] = draft[c] /\ draft[c] # NoBill
    BY <1>5, <2>1, UpsertAssumption DEF CommitCreate, TypeOK
  <2>3. draft[c].key = req[c].key
    BY <2>1 DEF CreatesOwnNumbers
  <2>4. answer'[c] = target[c]
    BY <1>1, <1>5 DEF CommitCreate, Answer, Goto, TypeOK
  <2> QED
    BY <1>5, <2>1, <2>2, <2>3, <2>4
<1>6. CASE d = c /\ Recheck(c)
  <2>1. req[c].id = NoId /\ target[c] \in Ids
    BY <1>6 DEF Recheck, At, Tracked, OnTrack, CreateSteps
  <2>2. OwnBill(c) /\ answer'[c] = target[c]
    BY <1>1, <1>6 DEF Recheck, Answer, Goto, TypeOK
  <2> QED
    BY <1>2, <1>6, <2>1, <2>2 DEF OwnBill
<1>7. CASE d = c /\ (CommitSettle(c) \/ PutBill(c))
  <2>1. req[c].id # NoId /\ pc[c] \in {"settle", "put"} /\ target[c] = req[c].id
    BY <1>7 DEF CommitSettle, PutBill, At, Tracked, OnTrack, UpdateSteps
  <2>2. target[c] \in Ids /\ bills[target[c]] # NoBill
    BY <2>1, RequestsTyped DEF UpdatesKeepFrozen
  <2>3. answer'[c] = target[c]
    BY <1>1, <1>7 DEF CommitSettle, PutBill, Answer, Goto, TypeOK
  <2> QED
    BY <1>2, <1>7, <2>1, <2>2, <2>3
<1>8. CASE d = c /\ RecheckSettled(c)
  <2>1. req[c].id # NoId /\ target[c] = req[c].id
    BY <1>8 DEF RecheckSettled, At, Tracked, OnTrack, UpdateSteps
  <2>2. target[c] \in Ids
    BY <2>1, RequestsTyped
  <2>3. bills[target[c]] # NoBill /\ answer'[c] = target[c]
    BY <1>1, <1>8 DEF RecheckSettled, Answer, Goto, TypeOK
  <2> QED
    BY <1>2, <1>8, <2>1, <2>2, <2>3
<1>9. \/ pc[d] = "done" /\ answer'[d] = answer[d]
      \/ d = c /\ (\/ FoundByKey(c) \/ CommitCreate(c) \/ Recheck(c) \/ CommitSettle(c)
                   \/ PutBill(c) \/ RecheckSettled(c))
  <2>1. CASE d # c
    BY <1>1, <2>1, StepFrame
  <2>2. CASE d = c
    BY <1>1, <2>2 DEF Start, Step, Die, NotFoundByKey, ResolveNobody, ReadWallet,
         PutEmptyWallet, RouteInvoice, TakeNumber, RefuseCreate, ReadBill,
         RefuseSettle, Price, Goto, TypeOK
  <2> QED
    BY <2>1, <2>2
<1> QED
  BY <1>3, <1>4, <1>5, <1>6, <1>7, <1>8, <1>9

(* Wallets keep accounting for themselves. *)
LEMMA StepWallets ==
  ASSUME IInv, NEW c \in Calls, Start(c) \/ Step(c) \/ Die(c)
  PROVE  WalletsBalance'
<1> USE DEF IInv
<1>1. draft[c].redeemed \in Nat /\ draft[c].earned \in Nat
  BY DEF TypeOK, BillType
<1>2. CASE wallet' = wallet
  BY <1>2 DEF WalletsBalance
<1>3. CASE PutEmptyWallet(c)
  <2>1. wallet' = [wallet EXCEPT ![req[c].user] = EmptyWallet] /\ Balanced(EmptyWallet)
    BY <1>3 DEF PutEmptyWallet, Balanced, EmptyWallet
  <2> QED
    BY <2>1 DEF WalletsBalance, TypeOK
<1>4. CASE CommitCreate(c)
  BY <1>1, <1>4, PayPointsTypes DEF CommitCreate
<1>5. CASE CommitSettle(c)
  BY <1>1, <1>5, PayPointsTypes DEF CommitSettle
<1>6. \/ wallet' = wallet
      \/ PutEmptyWallet(c) \/ CommitCreate(c) \/ CommitSettle(c)
  BY DEF Start, Step, Die, FoundByKey, NotFoundByKey, ResolveNobody, ReadWallet,
         RouteInvoice, TakeNumber, RefuseCreate, Recheck, ReadBill, RefuseSettle,
         RecheckSettled, PutBill, storeVars
<1> QED
  BY <1>2, <1>3, <1>4, <1>5, <1>6

-----------------------------------------------------------------------------
(* The invariant, for calls and for the world around them *)

LEMMA CallStep ==
  ASSUME IInv, NEW c \in Calls, Start(c) \/ Step(c) \/ Die(c)
  PROVE  IInv'
<1>1. TypeOK'
  <2>1. CASE Start(c)
    <3>1. target' \in [Calls -> Ids \cup {NoId}]
      BY <2>1, RequestsTyped DEF IInv, TypeOK, Start
    <3>2. pc' \in [Calls -> Steps]
      BY <2>1 DEF IInv, TypeOK, Start, Goto, Steps
    <3> QED
      BY <2>1, <3>1, <3>2, TypeParts
      DEF IInv, TypeOK, CounterTypeOK, counterVars, Start, storeVars
  <2>2. CASE Step(c)
    BY <2>2, StepTypes DEF IInv
  <2>3. CASE Die(c)
    <3>1. pc' \in [Calls -> Steps]
      BY <2>3 DEF IInv, TypeOK, Die, Goto, Steps
    <3> QED
      BY <2>3, <3>1, TypeParts DEF IInv, TypeOK, CounterTypeOK, counterVars, Die, storeVars
  <2> QED
    BY <2>1, <2>2, <2>3
<1>2. IndexShowsBills'
  BY StepFrame, StepKeepsFrozen DEF IInv, IndexShowsBills, BillsStay, TypeOK
<1>3. Tracked'
  BY StepTracked DEF IInv
<1> QED
  BY <1>1, <1>2, <1>3, StepMapsAgree, StepWallets, StepBillsOwn, StepCreatesOwn,
     StepUpdatesFrozen, StepAnswers DEF IInv

(* Index, replica and calendar: they touch neither bills nor calls. *)
LEMMA WorldStep ==
  ASSUME IInv,
         \/ \E id \in Ids : IndexCatchesUp(id)
         \/ \E u \in Users : ReplicaCatchesUp(u)
         \/ NewYear
         \/ UNCHANGED vars
  PROVE  IInv' /\ bills' = bills
<1> USE DEF IInv
<1>1. UNCHANGED <<counterVars, bills, wallet, payer, earner, callVars>>
  BY DEF IndexCatchesUp, ReplicaCatchesUp, NewYear, vars, storeVars
<1>2. indexed' \subseteq Ids /\ IndexShowsBills'
  BY <1>1 DEF IndexCatchesUp, ReplicaCatchesUp, NewYear, vars, storeVars, IndexShowsBills, TypeOK
<1>3. replica' \in [Users -> WalletType \cup {NoWallet}]
  BY <1>1 DEF IndexCatchesUp, ReplicaCatchesUp, NewYear, vars, storeVars, TypeOK
<1>4. year' \in Years
  BY CounterAssumption
  DEF IndexCatchesUp, ReplicaCatchesUp, NewYear, vars, storeVars, TypeOK, Years
<1>5. TypeOK'
  BY <1>1, <1>2, <1>3, <1>4 DEF TypeOK, CounterTypeOK, counterVars, callVars
<1>6. MapsAgree' /\ WalletsBalance' /\ Tracked' /\ BillsOwnNumbers' /\ CreatesOwnNumbers'
  BY <1>1 DEF MapsAgree, WalletsBalance, Tracked, BillsOwnNumbers, CreatesOwnNumbers,
              counterVars, callVars
<1>7. UpdatesKeepFrozen' /\ AnswersAreBills'
  BY <1>1 DEF UpdatesKeepFrozen, AnswersAreBills, At, callVars
<1> QED
  BY <1>1, <1>2, <1>5, <1>6, <1>7

LEMMA InitInvariant == Init => IInv
<1> SUFFICES ASSUME Init PROVE IInv
  OBVIOUS
<1>1. CounterTypeOK /\ MapsAgree
  BY InitMapsAgree DEF Init
<1>2. ASSUME NEW c \in Calls PROVE req[c] \in Requests /\ EmptyBill(req[c].key) \in BillType
  <2>1. req[c] \in Requests /\ req[c].key \in Keys
    BY UpsertAssumption DEF Init, RequestType
  <2> QED
    BY <2>1 DEF EmptyBill, BillType
<1>3. TypeOK
  BY <1>1, <1>2, UpsertAssumption, CounterAssumption DEF Init, TypeOK, Years, Steps
<1>4. WalletsBalance
  BY UpsertAssumption DEF Init, WalletsBalance
<1>5. Tracked
  BY UpsertAssumption DEF Init, Tracked, OnTrack, CreateSteps, UpdateSteps
<1>6. CreatesOwnNumbers
  BY DEF Init, CreatesOwnNumbers, EmptyBill
<1> QED
  BY <1>1, <1>3, <1>4, <1>5, <1>6
  DEF IInv, Init, BillsOwnNumbers, UpdatesKeepFrozen, IndexShowsBills, AnswersAreBills, At

LEMMA NextInvariant == IInv /\ [Next]_vars => IInv' /\ BillsStay
<1> SUFFICES ASSUME IInv, [Next]_vars PROVE IInv' /\ BillsStay
  OBVIOUS
<1>1. CASE \E c \in Calls : Start(c) \/ Step(c) \/ Die(c)
  BY <1>1, CallStep, StepKeepsFrozen
<1>2. CASE ~(\E c \in Calls : Start(c) \/ Step(c) \/ Die(c))
  <2>1. IInv' /\ bills' = bills
    BY <1>2, WorldStep DEF Next, AllEnded
  <2> QED
    BY <2>1 DEF BillsStay
<1> QED
  BY <1>1, <1>2

LEMMA InvariantHolds == Spec => []IInv
BY InitInvariant, NextInvariant, PTL DEF Spec

(* Type correctness; in particular no wallet is ever overdrawn, although   *)
(* what to redeem is computed from a read that may be stale.               *)
THEOREM UpsertTypeOK == Spec => []TypeOK
BY InvariantHolds, PTL DEF IInv

(* Whatever redeems, settles and wallet creations overlap, a wallet's      *)
(* earned points are its redeemed points plus its balance.                 *)
THEOREM UpsertWalletsBalance == Spec => []WalletsBalance
BY InvariantHolds, PTL DEF IInv

(* In a year a state key leads to one bill: a bill lies under a number     *)
(* issued to its key, and a key holds one number a year.                   *)
THEOREM UpsertOneBillPerKey == Spec => []OneBillPerKey
<1>1. IInv => OneBillPerKey
  <2> SUFFICES ASSUME IInv, NEW i \in Ids, NEW j \in Ids,
                      bills[i] # NoBill, bills[j] # NoBill,
                      bills[i].key = bills[j].key, i[1] = j[1]
               PROVE  i = j
    BY DEF OneBillPerKey
  <2>1. /\ i[1] \in Years /\ i[2] \in Sequences /\ i = <<i[1], i[2]>>
        /\ j[2] \in Sequences /\ j = <<j[1], j[2]>>
    BY DEF Ids
  <2>2. bills[i].key \in Keys
    BY DEF IInv, TypeOK, BillType
  <2>3. byInvoice[i[1]][i[2]] = bills[i].key /\ byInvoice[j[1]][j[2]] = bills[i].key
    BY DEF IInv, BillsOwnNumbers
  <2>4. byBill[i[1]][bills[i].key] = i[2]
    BY <2>1, <2>2, <2>3, CounterAssumption DEF IInv, MapsAgree
  <2>5. byBill[i[1]][bills[i].key] = j[2]
    BY <2>1, <2>2, <2>3, CounterAssumption DEF IInv, MapsAgree
  <2> QED
    BY <2>1, <2>4, <2>5
<1> QED
  BY <1>1, InvariantHolds, PTL

(* A call that ends well ends with a bill that exists and was asked for.   *)
THEOREM UpsertAnswersAreBills == Spec => []AnswersAreBills
BY InvariantHolds, PTL DEF IInv

(* What a bill redeemed, and its state key, never change after its create. *)
THEOREM UpsertFrozenAtCreate == Spec => FrozenAtCreate
<1>1. IInv /\ [Next]_vars =>
        [\A id \in Ids : bills[id] # NoBill =>
           bills'[id] # NoBill /\ FrozenFields(bills'[id]) = FrozenFields(bills[id])]_bills
  BY NextInvariant DEF BillsStay
<1> QED
  BY <1>1, InvariantHolds, PTL DEF Spec, FrozenAtCreate

-----------------------------------------------------------------------------
(* The books: wallets against the bills of their customers *)

(* A bill that redeemed or awarded points has a customer, and only a       *)
(* processed bill, which is settled, awarded any.                          *)
Sound(b) ==
  /\ b.redeemed > 0 => b.customer # Nobody
  /\ IF b.processed THEN b.customer # Nobody /\ b.settled ELSE b.earned = 0

RowsSound ==
  /\ \A id \in Ids : bills[id] # NoBill => Sound(bills[id])
  /\ \A c \in Calls : Sound(draft[c])

(* A new bill moves points only for a linked customer. *)
CreatesLinked ==
  \A c \in Calls : (req[c].id = NoId /\ pc[c] \in {"route", "number", "create"}) =>
    (draft[c].redeemed > 0 \/ draft[c].processed => Linked(req[c]))

(* A wallet that was there from the start is always seen, so that the      *)
(* empty one of PutEmptyWallet never replaces it.                          *)
FundedSeen ==
  /\ \A u \in Funded : wallet[u] # NoWallet /\ replica[u] # NoWallet
  /\ \A c \in Calls : pc[c] = "putWallet" => req[c].user \in Users \ Funded

(* Where every update settles, one that does not earn writes back the      *)
(* award it read, which nothing changes any more.                          *)
Award(b) == <<b.processed, b.earned>>
UpdatesKeepAward ==
  UpdatesSettle =>
  \A c \in Calls : (req[c].id # NoId /\ pc[c] = "put") =>
    bills[target[c]].processed /\ Award(draft[c]) = Award(bills[target[c]])

(* A call on its way to settle awards its bill, for a linked customer. *)
SettlesAward ==
  \A c \in Calls : (req[c].id # NoId /\ pc[c] \in {"resolve", "putWallet", "settle"}) =>
    draft[c].processed /\ Linked(req[c])

Books ==
  /\ RowsSound /\ CreatesLinked /\ FundedSeen
  /\ SettlesAward /\ UpdatesKeepAward /\ RedeemsMatchBills /\ SettlesEarnOnce

(* Rows *)

LEMMA NewBillSound ==
  ASSUME NEW r \in RequestType, NEW balance \in Nat, Linked(r) \/ balance = 0
  PROVE  /\ Sound(NewBill(r, balance))
         /\ NewBill(r, balance).redeemed > 0 \/ NewBill(r, balance).processed => Linked(r)
<1>1. r.subtotal \in Nat /\ r.points \in Nat /\ r.other \in Int
  BY DEF RequestType
<1>2. /\ NewBill(r, balance).redeemed = RedeemedPoints(r.subtotal, r.points, r.other, balance)
      /\ NewBill(r, balance).customer = OrElse(r.customer, r.user)
      /\ NewBill(r, balance).processed = (r.settled /\ Linked(r))
      /\ NewBill(r, balance).settled = (r.settled /\ Linked(r))
      /\ ~(r.settled /\ Linked(r)) => NewBill(r, balance).earned = 0
  BY DEF NewBill
<1>3. RedeemedPoints(r.subtotal, r.points, r.other, balance) \in 0..balance
  BY <1>1, RedeemedPointsBounds
<1>4. NewBill(r, balance).redeemed > 0 => Linked(r)
  BY <1>2, <1>3
<1> QED
  BY <1>2, <1>4 DEF Sound, Linked, OrElse

LEMMA UpdatedBillFields ==
  ASSUME NEW r \in RequestType, NEW old \in BillType
  PROVE  LET new == UpdatedBill(r, old)
         IN /\ new.customer = OrElse(r.customer, OrElse(old.customer, r.user))
            /\ new.redeemed = old.redeemed
            /\ new.settled = (old.settled \/ r.settled)
            /\ new.processed = (old.processed \/ ShouldEarn(r, old))
            /\ ~ShouldEarn(r, old) => new.earned = old.earned
BY DEF UpdatedBill, BillType

LEMMA UpdatedBillSound ==
  ASSUME NEW r \in RequestType, NEW old \in BillType, Sound(old)
  PROVE  Sound(UpdatedBill(r, old))
<1>1. PICK new : new = UpdatedBill(r, old)
  OBVIOUS
<1>2. /\ new.customer = OrElse(r.customer, OrElse(old.customer, r.user))
      /\ new.redeemed = old.redeemed /\ new.settled = (old.settled \/ r.settled)
      /\ new.processed = (old.processed \/ ShouldEarn(r, old))
      /\ ~ShouldEarn(r, old) => new.earned = old.earned
  BY <1>1, UpdatedBillFields
<1>3. old.customer # Nobody \/ r.user # Nobody => new.customer # Nobody
  BY <1>2 DEF OrElse
<1>4. new.redeemed > 0 => new.customer # Nobody
  BY <1>2, <1>3 DEF Sound
<1>5. CASE ShouldEarn(r, old)
  <2>1. new.processed /\ new.settled /\ r.user # Nobody
    BY <1>2, <1>5 DEF ShouldEarn, Linked
  <2> QED BY <1>1, <1>3, <1>4, <2>1 DEF Sound
<1>6. CASE ~ShouldEarn(r, old)
  <2>1. (new.processed <=> old.processed) /\ new.earned = old.earned
    BY <1>2, <1>6
  <2>2. CASE old.processed
    BY <1>1, <1>2, <1>3, <1>4, <2>1, <2>2 DEF Sound
  <2>3. CASE ~old.processed
    BY <1>1, <1>4, <2>1, <2>3 DEF Sound
  <2> QED BY <2>2, <2>3
<1> QED BY <1>5, <1>6

LEMMA EmptyBillSound == \A k : Sound(EmptyBill(k))
BY DEF Sound, EmptyBill

(* What a step does to drafts, calls and wallets *)

LEMMA DraftStep ==
  ASSUME IInv, FundedSeen, NEW c \in Calls, Start(c) \/ Step(c) \/ Die(c)
  PROVE  \/ draft' = draft /\ pc'[c] # "route"
         \/ /\ \E balance \in Nat : /\ Linked(req[c]) \/ balance = 0
                                    /\ draft' = [draft EXCEPT ![c] = NewBill(req[c], balance)]
            /\ req[c].id = NoId /\ pc'[c] \in {"route", "failed"}
         \/ /\ ReadBill(c) /\ bills[target[c]] # NoBill
            /\ draft' = [draft EXCEPT ![c] = UpdatedBill(req[c], bills[target[c]])]
<1> USE DEF IInv
<1>1. ASSUME NEW balance, Price(c, balance)
      PROVE  /\ draft' = [draft EXCEPT ![c] = NewBill(req[c], balance)]
             /\ pc'[c] \in {"route", "failed"}
  BY <1>1 DEF Price, Goto, TypeOK
<1>2. ASSUME target[c] = NoId, pc[c] \in {"resolve", "putWallet"} PROVE req[c].id = NoId
  BY <1>2, RequestsTyped DEF Tracked, OnTrack
<1>3. ASSUME ~Linked(req[c]), pc[c] = "resolve" PROVE req[c].id = NoId
  BY <1>3 DEF Tracked, OnTrack
<1>4. CASE ResolveNobody(c)
  BY <1>1, <1>3, <1>4 DEF ResolveNobody, At
<1>5. CASE ReadWallet(c)
  <2>1. req[c].user \in Users
    BY <1>5, RequestsTyped DEF ReadWallet, Linked
  <2>2. BalanceOf(wallet[req[c].user]) \in Nat /\ BalanceOf(replica[req[c].user]) \in Nat
    BY <2>1 DEF BalanceOf, TypeOK, WalletType
  <2>3. PICK seen \in {wallet[req[c].user], replica[req[c].user]} :
          \/ draft' = draft /\ pc'[c] # "route"
          \/ target[c] = NoId /\ Price(c, BalanceOf(seen))
    BY <1>5 DEF ReadWallet, Goto, TypeOK
  <2>4. BalanceOf(seen) \in Nat
    BY <2>2
  <2>5. CASE target[c] = NoId /\ Price(c, BalanceOf(seen))
    <3>1. Linked(req[c]) /\ req[c].id = NoId
      BY <1>2, <1>5, <2>5 DEF ReadWallet, At
    <3> QED
      BY <1>1, <2>4, <2>5, <3>1
  <2> QED
    BY <2>3, <2>5
<1>6. CASE PutEmptyWallet(c)
  <2>1. (draft' = draft /\ pc'[c] # "route") \/ (target[c] = NoId /\ Price(c, 0))
    BY <1>6 DEF PutEmptyWallet, Goto, TypeOK
  <2> QED
    BY <1>1, <1>2, <1>6, <2>1 DEF PutEmptyWallet, At
<1>7. CASE ReadBill(c)
  BY <1>7 DEF ReadBill, Goto, TypeOK
<1>8. CASE ~(ResolveNobody(c) \/ ReadWallet(c) \/ PutEmptyWallet(c) \/ ReadBill(c))
  BY <1>8 DEF Start, Step, Die, FoundByKey, NotFoundByKey, RouteInvoice, TakeNumber,
         CommitCreate, RefuseCreate, Recheck, CommitSettle, RefuseSettle, RecheckSettled, PutBill,
         Answer, Goto, TypeOK
<1> QED
  BY <1>4, <1>5, <1>6, <1>7, <1>8

(* The target of an update is its bill, from its first step on. *)
LEMMA UpdateTargets ==
  ASSUME IInv, NEW c \in Calls, req[c].id # NoId, pc[c] # "idle"
  PROVE  target[c] = req[c].id /\ target[c] \in Ids
BY RequestsTyped DEF IInv, Tracked, OnTrack

(* A write puts the writer's draft under its target. *)
LEMMA Writers ==
  ASSUME IInv, NEW c \in Calls
  PROVE  /\ CommitCreate(c) =>
              /\ req[c].id = NoId /\ target[c] \in Ids /\ pc[c] = "create"
              /\ bills[target[c]] = NoBill
              /\ bills' = [bills EXCEPT ![target[c]] = draft[c]]
         /\ CommitSettle(c) \/ PutBill(c) =>
              /\ req[c].id # NoId /\ target[c] \in Ids /\ target[c] = req[c].id
              /\ bills[target[c]] # NoBill
              /\ draft[c].redeemed = bills[target[c]].redeemed
              /\ bills' = [bills EXCEPT ![target[c]] = draft[c]]
<1> USE DEF IInv
<1>1. ASSUME CommitCreate(c)
      PROVE  /\ req[c].id = NoId /\ target[c] \in Ids /\ pc[c] = "create"
             /\ bills[target[c]] = NoBill
             /\ bills' = [bills EXCEPT ![target[c]] = draft[c]]
  BY <1>1 DEF CommitCreate, CreateCondition, At, Tracked, OnTrack, CreateSteps
<1>2. ASSUME CommitSettle(c) \/ PutBill(c)
      PROVE  /\ req[c].id # NoId /\ target[c] \in Ids /\ target[c] = req[c].id
             /\ bills[target[c]] # NoBill
             /\ draft[c].redeemed = bills[target[c]].redeemed
             /\ bills' = [bills EXCEPT ![target[c]] = draft[c]]
  <2>1. req[c].id # NoId /\ pc[c] \in {"settle", "put"}
    BY <1>2 DEF CommitSettle, PutBill, At, Tracked, OnTrack, UpdateSteps
  <2>2. bills[target[c]] # NoBill /\ FrozenFields(draft[c]) = FrozenFields(bills[target[c]])
    BY <2>1 DEF UpdatesKeepFrozen
  <2> QED
    BY <1>2, <2>1, <2>2, UpdateTargets DEF CommitSettle, PutBill, FrozenFields
<1> QED
  BY <1>1, <1>2

LEMMA RowsSoundStep ==
  ASSUME IInv, Books, NEW c \in Calls, Start(c) \/ Step(c) \/ Die(c)
  PROVE  RowsSound'
<1> USE DEF IInv, Books
<1>1. req[c] \in RequestType
  BY RequestsTyped
<1>2. ASSUME NEW d \in Calls PROVE Sound(draft'[d])
  <2>1. Sound(draft[d])
    BY DEF RowsSound
  <2>2. ASSUME NEW new, Sound(new), draft' = [draft EXCEPT ![c] = new]
        PROVE  Sound(draft'[d])
    BY <2>1, <2>2 DEF TypeOK
  <2>3. ASSUME NEW balance \in Nat, Linked(req[c]) \/ balance = 0
        PROVE  Sound(NewBill(req[c], balance))
    BY <1>1, <2>3, NewBillSound
  <2>4. CASE ReadBill(c) /\ bills[target[c]] # NoBill
    <3>1. target[c] \in Ids
      BY <2>4, RequestsTyped DEF ReadBill, At, Tracked, OnTrack, UpdateSteps
    <3>2. bills[target[c]] \in BillType /\ Sound(bills[target[c]])
      BY <2>4, <3>1 DEF TypeOK, RowsSound
    <3>3. Sound(UpdatedBill(req[c], bills[target[c]]))
      BY <1>1, <3>2, UpdatedBillSound
    <3> QED
      BY <2>2, <2>4, <3>3 DEF ReadBill
  <2> QED
    BY <2>1, <2>2, <2>3, <2>4, DraftStep
<1>3. ASSUME NEW id \in Ids, bills'[id] # NoBill PROVE Sound(bills'[id])
  <2>1. bills' = bills \/ bills' = [bills EXCEPT ![target[c]] = draft[c]]
    BY Writers, StepWritesBill
  <2> QED
    BY <1>3, <2>1 DEF RowsSound, TypeOK
<1> QED
  BY <1>2, <1>3 DEF RowsSound

LEMMA CreatesLinkedStep ==
  ASSUME IInv, Books, NEW c \in Calls, Start(c) \/ Step(c) \/ Die(c)
  PROVE  CreatesLinked'
<1> USE DEF IInv, Books
<1>1. SUFFICES ASSUME NEW d \in Calls, req[d].id = NoId, pc'[d] \in {"route", "number", "create"}
               PROVE  draft'[d].redeemed > 0 \/ draft'[d].processed => Linked(req[d])
  BY StepFrame DEF CreatesLinked
<1>2. CASE d # c
  <2>1. pc'[d] = pc[d] /\ draft'[d] = draft[d]
    BY <1>2, StepFrame
  <2> QED
    BY <1>1, <2>1 DEF CreatesLinked
<1>3. CASE d = c
  <2>1. CASE draft' = draft /\ pc'[c] # "route"
    <3>1. pc[c] \in {"route", "number", "create"}
      BY <1>1, <1>3, <2>1 DEF Start, Step, Die, FoundByKey, NotFoundByKey, ResolveNobody, ReadWallet,
           PutEmptyWallet, RouteInvoice, TakeNumber, CommitCreate, RefuseCreate, Recheck, ReadBill,
           CommitSettle, RefuseSettle, RecheckSettled, PutBill, Price, Answer, Goto, At, TypeOK
    <3> QED
      BY <1>1, <1>3, <2>1, <3>1 DEF CreatesLinked
  <2>2. ASSUME NEW balance \in Nat, Linked(req[c]) \/ balance = 0,
               draft' = [draft EXCEPT ![c] = NewBill(req[c], balance)]
        PROVE  draft'[c].redeemed > 0 \/ draft'[c].processed => Linked(req[c])
    <3>1. req[c] \in RequestType
      BY RequestsTyped
    <3>2. LET b == NewBill(req[c], balance)
          IN b.redeemed > 0 \/ b.processed => Linked(req[c])
      BY <2>2, <3>1, NewBillSound
    <3>3. draft'[c] = NewBill(req[c], balance)
      BY <2>2 DEF TypeOK
    <3> QED
      BY <3>2, <3>3
  <2>3. ~ReadBill(c)
    BY <1>1, <1>3 DEF ReadBill, At, Tracked, OnTrack, UpdateSteps
  <2> QED
    BY <1>1, <1>3, <2>1, <2>2, <2>3, DraftStep
<1> QED
  BY <1>2, <1>3

(* From its read to its write an update keeps its draft and its target. *)
LEMMA BusyStep ==
  ASSUME IInv, FundedSeen, NEW c \in Calls, Start(c) \/ Step(c) \/ Die(c),
         NEW d \in Calls, req[d].id # NoId, pc'[d] \in {"resolve", "putWallet", "settle", "put"}
  PROVE  \/ /\ pc[d] \in {"resolve", "putWallet", "settle", "put"}
            /\ pc'[d] = "put" => pc[d] = "put"
            /\ pc[d] = "put" => pc'[d] = "put"
            /\ target'[d] = target[d] /\ draft'[d] = draft[d]
         \/ /\ d = c /\ ReadBill(c) /\ bills[target[c]] # NoBill
            /\ target[c] \in Ids /\ target' = target /\ bills' = bills
            /\ draft'[c] = UpdatedBill(req[c], bills[target[c]])
            /\ pc'[c] = IF ShouldEarn(req[c], bills[target[c]]) THEN "resolve" ELSE "put"
<1> USE DEF IInv
<1>1. CASE d # c
  BY <1>1, StepFrame
<1>2. CASE d = c /\ ReadBill(c)
  <2>1. bills[target[c]] # NoBill /\ target[c] \in Ids
    BY <1>2, RequestsTyped DEF ReadBill, Goto, At, TypeOK, Tracked, OnTrack, UpdateSteps
  <2>2. /\ draft'[c] = UpdatedBill(req[c], bills[target[c]])
        /\ bills' = bills /\ target' = target
        /\ pc'[c] = IF ShouldEarn(req[c], bills[target[c]]) THEN "resolve" ELSE "put"
    BY <1>2, <2>1 DEF ReadBill, Goto, TypeOK, storeVars
  <2> QED
    BY <1>2, <2>1, <2>2
<1>3. CASE d = c /\ ~ReadBill(c)
  BY <1>3 DEF Start, Step, Die, FoundByKey, NotFoundByKey, ResolveNobody, ReadWallet,
       PutEmptyWallet, RouteInvoice, TakeNumber, CommitCreate, RefuseCreate, Recheck,
       CommitSettle, RefuseSettle, RecheckSettled, PutBill, Price, Answer, Goto, At,
       TypeOK, Tracked, OnTrack, CreateSteps
<1> QED
  BY <1>1, <1>2, <1>3

LEMMA FundedSeenStep ==
  ASSUME IInv, Books, NEW c \in Calls, Start(c) \/ Step(c) \/ Die(c)
  PROVE  FundedSeen'
<1> USE DEF IInv, Books
<1>1. ASSUME NEW u \in Funded PROVE wallet'[u] # NoWallet /\ replica'[u] # NoWallet
  <2>1. u \in Users /\ wallet[u] # NoWallet /\ replica[u] # NoWallet
    BY DEF Funded, FundedSeen
  <2>2. draft[c].redeemed \in Nat /\ draft[c].earned \in Nat
    BY DEF TypeOK, BillType
  <2>3. ASSUME NEW v, NEW redeem \in Nat, NEW earn \in Nat,
               WalletCondition(v, redeem, earn), PayPoints(v, redeem, earn)
        PROVE  wallet'[u] # NoWallet
    <3>1. CASE wallet' = [wallet EXCEPT ![v] = MovePoints(@, redeem, earn)]
                 /\ (redeem > 0 \/ earn > 0) /\ u = v
      <4>1. wallet[u] \in WalletType /\ (redeem > 0 => wallet[u].balance >= redeem)
        BY <2>1, <2>3, <3>1 DEF WalletCondition, TypeOK
      <4>2. MovePoints(wallet[u], redeem, earn) \in WalletType
        BY <4>1, MovePointsType
      <4> QED
        BY <2>1, <3>1, <4>2, UpsertAssumption DEF TypeOK
    <3>2. CASE wallet'[u] = wallet[u]
      BY <2>1, <3>2
    <3> QED
      BY <2>1, <2>3, <3>1, <3>2 DEF PayPoints, TypeOK
  <2>4. CASE PutEmptyWallet(c)
    <3>1. req[c].user # u
      BY <2>4 DEF PutEmptyWallet, At, FundedSeen
    <3> QED
      BY <2>1, <2>4, <3>1 DEF PutEmptyWallet, TypeOK
  <2>5. ASSUME CommitCreate(c) \/ CommitSettle(c) PROVE wallet'[u] # NoWallet
    <3>1. \E redeem, earn \in Nat : /\ WalletCondition(req[c].user, redeem, earn)
                                    /\ PayPoints(req[c].user, redeem, earn)
      BY <2>2, <2>5 DEF CommitCreate, CommitSettle
    <3> QED
      BY <2>3, <3>1
  <2>6. wallet' = wallet \/ PutEmptyWallet(c) \/ CommitCreate(c) \/ CommitSettle(c)
    BY DEF Start, Step, Die, FoundByKey, NotFoundByKey, ResolveNobody, ReadWallet,
           RouteInvoice, TakeNumber, RefuseCreate, Recheck, ReadBill, RefuseSettle,
           RecheckSettled, PutBill, storeVars
  <2>7. wallet'[u] # NoWallet
    BY <2>1, <2>4, <2>5, <2>6
  <2>8. replica' = replica
    BY StepFrame
  <2> QED
    BY <2>1, <2>7, <2>8
<1>2. ASSUME NEW d \in Calls, pc'[d] = "putWallet" PROVE req[d].user \in Users \ Funded
  <2>1. CASE pc[d] = "putWallet"
    BY <2>1 DEF FundedSeen
  <2>2. CASE d = c /\ ReadWallet(c)
    <3>1. req[c].user \in Users
      BY <2>2, RequestsTyped DEF ReadWallet, Linked
    <3>2. wallet[req[c].user] = NoWallet \/ replica[req[c].user] = NoWallet
      BY <1>2, <2>2 DEF ReadWallet, Price, Goto, TypeOK
    <3> QED
      BY <2>2, <3>1, <3>2 DEF FundedSeen
  <2>3. pc[d] = "putWallet" \/ (d = c /\ ReadWallet(c))
    <3>1. CASE d # c
      BY <1>2, <3>1, StepFrame
    <3>2. CASE d = c
      BY <1>2, <3>2 DEF Start, Step, Die, FoundByKey, NotFoundByKey, ResolveNobody,
           PutEmptyWallet, RouteInvoice, TakeNumber, CommitCreate, RefuseCreate, Recheck, ReadBill,
           CommitSettle, RefuseSettle, RecheckSettled, PutBill, Price, Answer, Goto, At, TypeOK
    <3> QED
      BY <3>1, <3>2
  <2> QED
    BY <2>1, <2>2, <2>3
<1>3. Funded' = Funded /\ req' = req
  BY StepFrame DEF Funded
<1> QED
  BY <1>1, <1>2, <1>3 DEF FundedSeen

(* Where every update settles, an award stays once given. *)
LEMMA AwardStays ==
  ASSUME IInv, Books, UpdatesSettle, NEW c \in Calls, Start(c) \/ Step(c) \/ Die(c),
         NEW id \in Ids, bills[id] # NoBill
  PROVE  /\ bills'[id] # NoBill
         /\ bills[id].processed => Award(bills'[id]) = Award(bills[id])
<1> USE DEF IInv, Books
<1>1. CASE bills'[id] = bills[id]
  BY <1>1
<1>2. CASE CommitSettle(c) /\ id = target[c]
  <2>1. req[c].id # NoId /\ bills' = [bills EXCEPT ![id] = draft[c]]
    BY <1>2, Writers
  <2>2. ~bills[id].processed /\ pc[c] = "settle"
    BY <1>2 DEF CommitSettle, SettleCondition, At
  <2>4. bills'[id] = draft[c] /\ draft[c] # NoBill
    BY <2>1, UpsertAssumption DEF TypeOK
  <2> QED
    BY <2>2, <2>4
<1>3. CASE PutBill(c) /\ id = target[c]
  <2>1. req[c].id # NoId /\ bills' = [bills EXCEPT ![id] = draft[c]]
    BY <1>3, Writers
  <2>2. Award(draft[c]) = Award(bills[id])
    BY <1>3, <2>1 DEF UpdatesKeepAward, PutBill, At
  <2>3. bills'[id] = draft[c] /\ draft[c] # NoBill
    BY <2>1, UpsertAssumption DEF TypeOK
  <2> QED
    BY <2>2, <2>3 DEF Award
<1>4. CASE CommitCreate(c) \/ ((CommitSettle(c) \/ PutBill(c)) /\ id # target[c])
  <2>1. target[c] # id /\ bills' = [bills EXCEPT ![target[c]] = draft[c]]
    BY <1>4, Writers
  <2> QED
    BY <1>1, <2>1 DEF TypeOK
<1> QED
  BY <1>1, <1>2, <1>3, <1>4, StepWritesBill

LEMMA AwardStep ==
  ASSUME IInv, Books, NEW c \in Calls, Start(c) \/ Step(c) \/ Die(c)
  PROVE  UpdatesKeepAward'
<1> USE DEF IInv, Books
<1>1. SUFFICES ASSUME UpdatesSettle, NEW d \in Calls, req[d].id # NoId, pc'[d] = "put"
               PROVE  /\ bills'[target'[d]].processed
                      /\ Award(draft'[d]) = Award(bills'[target'[d]])
  BY StepFrame DEF UpdatesKeepAward, UpdatesSettle
<1>2. CASE pc[d] = "put" /\ target'[d] = target[d] /\ draft'[d] = draft[d]
  <2>1. target[d] \in Ids /\ bills[target[d]] # NoBill
    BY <1>1, <1>2, UpdateTargets DEF UpdatesKeepFrozen
  <2>2. bills[target[d]].processed /\ Award(draft[d]) = Award(bills[target[d]])
    BY <1>1, <1>2 DEF UpdatesKeepAward
  <2>3. Award(bills'[target[d]]) = Award(bills[target[d]])
    BY <1>1, <2>1, <2>2, AwardStays
  <2> QED
    BY <1>2, <2>2, <2>3 DEF Award
<1>3. CASE /\ d = c /\ bills[target[c]] # NoBill
           /\ target[c] \in Ids /\ target' = target /\ bills' = bills
           /\ draft'[c] = UpdatedBill(req[c], bills[target[c]])
           /\ pc'[c] = IF ShouldEarn(req[c], bills[target[c]]) THEN "resolve" ELSE "put"
  <2>1. bills[target[c]] \in BillType /\ req[c] \in RequestType
    BY <1>3, RequestsTyped DEF TypeOK
  <2>2. req[c].settled /\ Linked(req[c]) /\ ~ShouldEarn(req[c], bills[target[c]])
    BY <1>1, <1>3 DEF UpdatesSettle
  <2>3. bills[target[c]].processed
    BY <2>2 DEF ShouldEarn
  <2>4. /\ draft'[c].processed = (bills[target[c]].processed \/ ShouldEarn(req[c], bills[target[c]]))
        /\ draft'[c].earned = bills[target[c]].earned
    BY <1>3, <2>1, <2>2, UpdatedBillFields
  <2>5. bills[target[c]].processed \in BOOLEAN
    BY <2>1 DEF BillType
  <2> QED
    BY <1>3, <2>2, <2>3, <2>4, <2>5 DEF Award
<1> QED
  BY <1>1, <1>2, <1>3, BusyStep

LEMMA SettlesAwardStep ==
  ASSUME IInv, Books, NEW c \in Calls, Start(c) \/ Step(c) \/ Die(c)
  PROVE  SettlesAward'
<1> USE DEF IInv, Books
<1>1. SUFFICES ASSUME NEW d \in Calls, req[d].id # NoId,
                      pc'[d] \in {"resolve", "putWallet", "settle"}
               PROVE  draft'[d].processed /\ Linked(req[d])
  BY StepFrame DEF SettlesAward, Linked
<1>2. CASE /\ pc[d] \in {"resolve", "putWallet", "settle", "put"}
           /\ pc[d] = "put" => pc'[d] = "put"
           /\ draft'[d] = draft[d]
  BY <1>1, <1>2 DEF SettlesAward
<1>3. CASE /\ d = c /\ bills[target[c]] # NoBill /\ target[c] \in Ids
           /\ draft'[c] = UpdatedBill(req[c], bills[target[c]])
           /\ pc'[c] = IF ShouldEarn(req[c], bills[target[c]]) THEN "resolve" ELSE "put"
  <2>1. bills[target[c]] \in BillType /\ req[c] \in RequestType
    BY <1>3, RequestsTyped DEF TypeOK
  <2>2. ShouldEarn(req[c], bills[target[c]])
    BY <1>1, <1>3
  <2>3. draft'[c].processed = (bills[target[c]].processed \/ ShouldEarn(req[c], bills[target[c]]))
    BY <1>3, <2>1, UpdatedBillFields
  <2> QED
    BY <1>3, <2>2, <2>3 DEF ShouldEarn
<1> QED
  BY <1>1, <1>2, <1>3, BusyStep

(* The sums, over all numbers, of the bills whose points moved for u: one  *)
(* that is not u's adds nothing.                                           *)
Of(B, who, u) == {id \in Ids : B[id] # NoBill /\ who[id] = u}
RedeemedIn(B, who, u) == [id \in Ids |-> IF id \in Of(B, who, u) THEN B[id].redeemed ELSE 0]
EarnedIn(B, who, u) == [id \in Ids |-> IF id \in Of(B, who, u) THEN B[id].earned ELSE 0]

RedeemedSum(B, who, u) == SumFunctionOnSet(RedeemedIn(B, who, u), Ids)
EarnedSum(B, who, u) == SumFunctionOnSet(EarnedIn(B, who, u), Ids)

LEMMA IdsFinite == IsFiniteSet(Ids)
<1>1. IsFiniteSet(0..LastYear) /\ IsFiniteSet(1..MaxSeq)
  BY FS_Interval, CounterAssumption
<1>2. IsFiniteSet(Years) /\ IsFiniteSet(Sequences)
  BY <1>1 DEF Years, Sequences
<1>3. IsFiniteSet(Years \X Sequences)
  BY <1>2, FS_Product
<1> QED
  BY <1>3 DEF Ids

LEMMA AddendTypes ==
  ASSUME NEW B \in [Ids -> BillType \cup {NoBill}], NEW who, NEW u, NEW id \in Ids
  PROVE  RedeemedIn(B, who, u)[id] \in Int /\ EarnedIn(B, who, u)[id] \in Int
BY DEF RedeemedIn, EarnedIn, Of, BillType

LEMMA SumsOverIds ==
  ASSUME NEW B \in [Ids -> BillType \cup {NoBill}], NEW who, NEW u
  PROVE  /\ SumFunction([id \in Of(B, who, u) |-> B[id].redeemed]) = RedeemedSum(B, who, u)
         /\ SumFunction([id \in Of(B, who, u) |-> B[id].earned]) = EarnedSum(B, who, u)
<1> DEFINE T == Of(B, who, u)
           f == [id \in T |-> B[id].redeemed]
           g == [id \in T |-> B[id].earned]
<1>1. T \in SUBSET Ids
  BY DEF Of
<1>2. DOMAIN f = T /\ DOMAIN g = T
  OBVIOUS
<1>3. /\ \A id \in T : f[id] \in Int /\ RedeemedIn(B, who, u)[id] = f[id]
      /\ \A id \in T : g[id] \in Int /\ EarnedIn(B, who, u)[id] = g[id]
  BY DEF RedeemedIn, EarnedIn, Of, BillType
<1>4. \A id \in Ids \ T : RedeemedIn(B, who, u)[id] = 0 /\ EarnedIn(B, who, u)[id] = 0
  BY DEF RedeemedIn, EarnedIn
<1> HIDE DEF T, f, g
<1>5. SumFunctionOnSet(RedeemedIn(B, who, u), Ids) = SumFunctionOnSet(f, T)
  BY <1>1, <1>3, <1>4, IdsFinite, SumPadded
<1>6. SumFunctionOnSet(EarnedIn(B, who, u), Ids) = SumFunctionOnSet(g, T)
  BY <1>1, <1>3, <1>4, IdsFinite, SumPadded
<1>7. SumFunction(f) = SumFunctionOnSet(f, T) /\ SumFunction(g) = SumFunctionOnSet(g, T)
  BY <1>2 DEF SumFunction
<1> QED
  BY <1>5, <1>6, <1>7 DEF T, f, g, RedeemedSum, EarnedSum

(* Where a bill is written, the sums change by what it changes. *)
OneWritten(B, C, who, now, t) ==
  /\ t \in Ids /\ C[t] \in BillType
  /\ B \in [Ids -> BillType \cup {NoBill}] /\ C \in [Ids -> BillType \cup {NoBill}]
  /\ \A id \in Ids : id # t => C[id] = B[id] /\ now[id] = who[id]

LEMMA RedeemedOnWrite ==
  ASSUME NEW B, NEW C, NEW who, NEW now, NEW u, NEW t, OneWritten(B, C, who, now, t)
  PROVE  /\ RedeemedSum(C, now, u) =
              (RedeemedSum(B, who, u) - RedeemedIn(B, who, u)[t])
                + (IF now[t] = u THEN C[t].redeemed ELSE 0)
         /\ RedeemedSum(B, who, u) \in Int
<1>1. \A id \in Ids : RedeemedIn(B, who, u)[id] \in Int /\ RedeemedIn(C, now, u)[id] \in Int
  BY AddendTypes DEF OneWritten
<1>2. \A id \in Ids : id # t => RedeemedIn(C, now, u)[id] = RedeemedIn(B, who, u)[id]
  BY DEF RedeemedIn, Of, OneWritten
<1>3. RedeemedIn(C, now, u)[t] = IF now[t] = u THEN C[t].redeemed ELSE 0
  BY UpsertAssumption DEF RedeemedIn, Of, OneWritten
<1>4. PICK f, h : f = RedeemedIn(B, who, u) /\ h = RedeemedIn(C, now, u)
  OBVIOUS
<1>5. /\ \A id \in Ids : f[id] \in Int /\ h[id] \in Int
      /\ \A id \in Ids : id # t => h[id] = f[id]
  BY <1>1, <1>2, <1>4
<1>6. SumFunctionOnSet(h, Ids) = (SumFunctionOnSet(f, Ids) - f[t]) + h[t]
  BY <1>5, IdsFinite, SumChanged DEF OneWritten
<1>7. SumFunctionOnSet(f, Ids) \in Int
  BY <1>5, IdsFinite, SumIsInt
<1> QED
  BY <1>3, <1>4, <1>6, <1>7 DEF RedeemedSum

LEMMA EarnedOnWrite ==
  ASSUME NEW B, NEW C, NEW who, NEW now, NEW u, NEW t, OneWritten(B, C, who, now, t)
  PROVE  /\ EarnedSum(C, now, u) =
              (EarnedSum(B, who, u) - EarnedIn(B, who, u)[t])
                + (IF now[t] = u THEN C[t].earned ELSE 0)
         /\ EarnedSum(B, who, u) \in Int
<1>1. \A id \in Ids : EarnedIn(B, who, u)[id] \in Int /\ EarnedIn(C, now, u)[id] \in Int
  BY AddendTypes DEF OneWritten
<1>2. \A id \in Ids : id # t => EarnedIn(C, now, u)[id] = EarnedIn(B, who, u)[id]
  BY DEF EarnedIn, Of, OneWritten
<1>3. EarnedIn(C, now, u)[t] = IF now[t] = u THEN C[t].earned ELSE 0
  BY UpsertAssumption DEF EarnedIn, Of, OneWritten
<1>4. PICK f, h : f = EarnedIn(B, who, u) /\ h = EarnedIn(C, now, u)
  OBVIOUS
<1>5. /\ \A id \in Ids : f[id] \in Int /\ h[id] \in Int
      /\ \A id \in Ids : id # t => h[id] = f[id]
  BY <1>1, <1>2, <1>4
<1>6. SumFunctionOnSet(h, Ids) = (SumFunctionOnSet(f, Ids) - f[t]) + h[t]
  BY <1>5, IdsFinite, SumChanged DEF OneWritten
<1>7. SumFunctionOnSet(f, Ids) \in Int
  BY <1>5, IdsFinite, SumIsInt
<1> QED
  BY <1>3, <1>4, <1>6, <1>7 DEF EarnedSum

LEMMA Paid ==
  ASSUME TypeOK, NEW v, NEW redeem \in Nat, NEW earn \in Nat, PayPoints(v, redeem, earn),
         NEW u \in Users, wallet[u] # NoWallet
  PROVE  /\ wallet'[u].redeemed = wallet[u].redeemed + (IF v = u THEN redeem ELSE 0)
         /\ wallet'[u].earned = wallet[u].earned + (IF v = u THEN earn ELSE 0)
<1>1. wallet[u] \in WalletType /\ wallet[u].redeemed \in Nat /\ wallet[u].earned \in Nat
  BY DEF TypeOK, WalletType
<1>2. CASE (redeem > 0 \/ earn > 0) /\ v = u
  <2>1. wallet'[u] = MovePoints(wallet[u], redeem, earn)
    BY <1>2 DEF PayPoints, TypeOK
  <2>2. /\ MovePoints(wallet[u], redeem, earn).redeemed = wallet[u].redeemed + redeem
        /\ MovePoints(wallet[u], redeem, earn).earned = wallet[u].earned + earn
    BY <1>1 DEF MovePoints, WalletType
  <2> QED
    BY <1>2, <2>1, <2>2
<1>3. CASE ~((redeem > 0 \/ earn > 0) /\ v = u)
  <2>1. wallet'[u] = wallet[u]
    BY <1>3 DEF PayPoints, TypeOK
  <2>2. v = u => redeem = 0 /\ earn = 0
    BY <1>3
  <2> QED
    BY <1>1, <2>1, <2>2
<1> QED
  BY <1>2, <1>3

(* Where a step of a call leaves the books *)
LEMMA BooksMoves ==
  ASSUME IInv, Books, NEW c \in Calls, Start(c) \/ Step(c) \/ Die(c), NEW u \in Funded
  PROVE  \/ /\ bills' = bills /\ payer' = payer /\ earner' = earner
            /\ wallet'[u] = wallet[u]
         \/ CommitCreate(c) \/ CommitSettle(c) \/ PutBill(c)
<1>1. CASE PutEmptyWallet(c)
  <2>1. /\ req[c].user # u /\ wallet' = [wallet EXCEPT ![req[c].user] = EmptyWallet]
        /\ bills' = bills /\ payer' = payer /\ earner' = earner
    BY <1>1 DEF PutEmptyWallet, At, Books, FundedSeen
  <2> QED
    BY <2>1 DEF IInv, TypeOK, Funded
<1>2. CASE ~PutEmptyWallet(c)
  BY <1>2 DEF Start, Step, Die, FoundByKey, NotFoundByKey, ResolveNobody, ReadWallet,
       RouteInvoice, TakeNumber, RefuseCreate, Recheck, ReadBill, RefuseSettle,
       RecheckSettled, PutBill, storeVars
<1> QED
  BY <1>1, <1>2

LEMMA FundedTypes ==
  ASSUME IInv, Books, NEW u \in Funded
  PROVE  /\ u \in Users /\ wallet[u] # NoWallet
         /\ wallet[u].redeemed \in Nat /\ wallet[u].earned \in Nat
         /\ InitialWallet[u].redeemed \in Nat /\ InitialWallet[u].earned \in Nat
<1>1. u \in Users /\ InitialWallet[u] # NoWallet
  BY DEF Funded
<1>2. wallet[u] \in WalletType /\ InitialWallet[u] \in WalletType /\ wallet[u] # NoWallet
  BY <1>1, UpsertAssumption DEF IInv, TypeOK, Books, FundedSeen
<1> QED
  BY <1>1, <1>2 DEF WalletType

(* What a call that writes pays, and for whom *)
LEMMA CreatePays ==
  ASSUME IInv, Books, NEW c \in Calls, CommitCreate(c), NEW u \in Funded
  PROVE  /\ target[c] \in Ids /\ bills[target[c]] = NoBill /\ bills'[target[c]] = draft[c]
         /\ \A id \in Ids : id # target[c] =>
              bills'[id] = bills[id] /\ payer'[id] = payer[id] /\ earner'[id] = earner[id]
         /\ wallet'[u].redeemed = wallet[u].redeemed
              + (IF payer'[target[c]] = u THEN draft[c].redeemed ELSE 0)
         /\ draft[c].processed => earner'[target[c]] = req[c].user
         /\ wallet'[u].earned = wallet[u].earned
              + (IF req[c].user = u THEN draft[c].earned ELSE 0)
<1>1. draft[c].redeemed \in Nat /\ draft[c].earned \in Nat
  BY DEF IInv, TypeOK, BillType
<1>2. /\ target[c] \in Ids /\ bills[target[c]] = NoBill
      /\ bills' = [bills EXCEPT ![target[c]] = draft[c]]
  BY Writers
<1>3. /\ PayPoints(req[c].user, draft[c].redeemed, draft[c].earned)
      /\ payer' = [payer EXCEPT ![target[c]] = req[c].user]
      /\ earner' = IF draft[c].processed THEN [earner EXCEPT ![target[c]] = req[c].user] ELSE earner
  BY DEF CommitCreate
<1>4. /\ wallet'[u].redeemed = wallet[u].redeemed
           + (IF req[c].user = u THEN draft[c].redeemed ELSE 0)
      /\ wallet'[u].earned = wallet[u].earned
           + (IF req[c].user = u THEN draft[c].earned ELSE 0)
  BY <1>1, <1>3, FundedTypes, Paid DEF IInv
<1>5. /\ payer'[target[c]] = req[c].user
      /\ draft[c].processed => earner'[target[c]] = req[c].user
      /\ \A id \in Ids : id # target[c] => payer'[id] = payer[id] /\ earner'[id] = earner[id]
  BY <1>2, <1>3 DEF IInv, TypeOK
<1> QED
  BY <1>2, <1>4, <1>5 DEF IInv, TypeOK

LEMMA SettlePays ==
  ASSUME IInv, Books, NEW c \in Calls, CommitSettle(c), NEW u \in Funded
  PROVE  /\ target[c] \in Ids /\ bills[target[c]] # NoBill /\ bills'[target[c]] = draft[c]
         /\ draft[c].redeemed = bills[target[c]].redeemed
         /\ payer' = payer /\ earner'[target[c]] = req[c].user
         /\ \A id \in Ids : id # target[c] => bills'[id] = bills[id] /\ earner'[id] = earner[id]
         /\ wallet'[u].redeemed = wallet[u].redeemed
         /\ wallet'[u].earned = wallet[u].earned
              + (IF req[c].user = u THEN draft[c].earned ELSE 0)
<1>1. draft[c].earned \in Nat /\ 0 \in Nat
  BY DEF IInv, TypeOK, BillType
<1>2. PayPoints(req[c].user, 0, draft[c].earned)
  BY DEF CommitSettle
<1>3. /\ wallet'[u].redeemed = wallet[u].redeemed + (IF req[c].user = u THEN 0 ELSE 0)
      /\ wallet'[u].earned = wallet[u].earned + (IF req[c].user = u THEN draft[c].earned ELSE 0)
  BY <1>1, <1>2, FundedTypes, Paid DEF IInv
<1>4. /\ target[c] \in Ids /\ bills[target[c]] # NoBill
      /\ draft[c].redeemed = bills[target[c]].redeemed
      /\ bills' = [bills EXCEPT ![target[c]] = draft[c]]
      /\ payer' = payer /\ earner' = [earner EXCEPT ![target[c]] = req[c].user]
  BY Writers DEF CommitSettle
<1> QED
  BY <1>3, <1>4, FundedTypes DEF IInv, TypeOK

LEMMA PutPays ==
  ASSUME IInv, NEW c \in Calls, PutBill(c)
  PROVE  /\ target[c] \in Ids /\ bills[target[c]] # NoBill /\ bills'[target[c]] = draft[c]
         /\ req[c].id # NoId /\ pc[c] = "put"
         /\ draft[c].redeemed = bills[target[c]].redeemed
         /\ payer' = payer /\ earner' = earner /\ wallet' = wallet
         /\ \A id \in Ids : id # target[c] => bills'[id] = bills[id]
<1>1. /\ target[c] \in Ids /\ bills[target[c]] # NoBill /\ req[c].id # NoId
      /\ draft[c].redeemed = bills[target[c]].redeemed
      /\ bills' = [bills EXCEPT ![target[c]] = draft[c]]
  BY Writers
<1> QED
  BY <1>1 DEF PutBill, At, IInv, TypeOK

LEMMA RedeemsStep ==
  ASSUME IInv, Books, NEW c \in Calls, Start(c) \/ Step(c) \/ Die(c)
  PROVE  RedeemsMatchBills'
<1>1. bills \in [Ids -> BillType \cup {NoBill}] /\ bills' \in [Ids -> BillType \cup {NoBill}]
  BY CallStep DEF IInv, TypeOK
<1>2. SUFFICES ASSUME NEW u \in Funded
               PROVE  wallet'[u].redeemed = InitialWallet[u].redeemed + RedeemedSum(bills', payer', u)
  BY <1>1, SumsOverIds DEF RedeemsMatchBills, PaidBy, Of, Funded
<1>3. wallet[u].redeemed = InitialWallet[u].redeemed + RedeemedSum(bills, payer, u)
  BY <1>1, SumsOverIds DEF Books, RedeemsMatchBills, PaidBy, Of
<1>4. draft[c] \in BillType /\ draft[c].redeemed \in Nat
  BY DEF IInv, TypeOK, BillType
<1> DEFINE t == target[c]
<1>5. CASE bills' = bills /\ payer' = payer /\ wallet'[u] = wallet[u]
  BY <1>3, <1>5
<1>6. CASE CommitCreate(c)
  <2>1. /\ t \in Ids /\ bills[t] = NoBill /\ bills'[t] = draft[c]
        /\ \A id \in Ids : id # t => bills'[id] = bills[id] /\ payer'[id] = payer[id]
        /\ wallet'[u].redeemed = wallet[u].redeemed
             + (IF payer'[t] = u THEN draft[c].redeemed ELSE 0)
    BY <1>6, CreatePays
  <2> HIDE DEF t
  <2>2. /\ RedeemedSum(bills', payer', u) = (RedeemedSum(bills, payer, u) - RedeemedIn(bills, payer, u)[t])
                              + (IF payer'[t] = u THEN draft[c].redeemed ELSE 0)
        /\ RedeemedSum(bills, payer, u) \in Int
    <3>1. PICK C, who, now : C = bills' /\ who = payer /\ now = payer'
      OBVIOUS
    <3>2. OneWritten(bills, C, who, now, t) /\ C[t] = draft[c]
      BY <1>1, <1>4, <2>1, <3>1 DEF OneWritten
    <3>3. /\ RedeemedSum(C, now, u) = (RedeemedSum(bills, who, u) - RedeemedIn(bills, who, u)[t])
                                + (IF now[t] = u THEN C[t].redeemed ELSE 0)
          /\ RedeemedSum(bills, who, u) \in Int
      BY <3>2, RedeemedOnWrite
    <3> QED
      BY <3>1, <3>2, <3>3
  <2>3. RedeemedIn(bills, payer, u)[t] = 0
    BY <2>1 DEF RedeemedIn, Of
  <2> QED
    BY <1>3, <1>4, <2>1, <2>2, <2>3, FundedTypes
<1>7. CASE CommitSettle(c) \/ PutBill(c)
  <2>1. /\ t \in Ids /\ bills[t] # NoBill /\ bills'[t] = draft[c]
        /\ draft[c].redeemed = bills[t].redeemed
        /\ payer' = payer
        /\ \A id \in Ids : id # t => bills'[id] = bills[id]
        /\ wallet'[u].redeemed = wallet[u].redeemed
    BY <1>7, SettlePays, PutPays
  <2> HIDE DEF t
  <2>2. /\ RedeemedSum(bills', payer, u) = (RedeemedSum(bills, payer, u) - RedeemedIn(bills, payer, u)[t])
                              + (IF payer[t] = u THEN draft[c].redeemed ELSE 0)
        /\ RedeemedSum(bills, payer, u) \in Int
    <3>1. PICK C, who, now : C = bills' /\ who = payer /\ now = payer'
      OBVIOUS
    <3>2. OneWritten(bills, C, who, now, t) /\ C[t] = draft[c]
      BY <1>1, <1>4, <2>1, <3>1 DEF OneWritten
    <3>3. /\ RedeemedSum(C, now, u) = (RedeemedSum(bills, who, u) - RedeemedIn(bills, who, u)[t])
                                + (IF now[t] = u THEN C[t].redeemed ELSE 0)
          /\ RedeemedSum(bills, who, u) \in Int
      BY <3>2, RedeemedOnWrite
    <3> QED
      BY <2>1, <3>1, <3>2, <3>3
  <2>3. RedeemedIn(bills, payer, u)[t] = IF payer[t] = u THEN draft[c].redeemed ELSE 0
    BY <2>1 DEF RedeemedIn, Of
  <2>4. RedeemedSum(bills', payer', u) = RedeemedSum(bills, payer, u)
    <3>1. RedeemedSum(bills', payer, u) = RedeemedSum(bills, payer, u)
      BY <1>4, <2>2, <2>3
    <3> QED
      BY <2>1, <3>1
  <2> QED
    BY <1>3, <2>1, <2>4
<1> QED
  BY <1>5, <1>6, <1>7, BooksMoves

LEMMA EarnsStep ==
  ASSUME IInv, Books, NEW c \in Calls, Start(c) \/ Step(c) \/ Die(c)
  PROVE  SettlesEarnOnce'
<1>1. bills \in [Ids -> BillType \cup {NoBill}] /\ bills' \in [Ids -> BillType \cup {NoBill}]
  BY CallStep DEF IInv, TypeOK
<1>2. SUFFICES ASSUME UpdatesSettle, NEW u \in Funded
               PROVE  wallet'[u].earned = InitialWallet[u].earned + EarnedSum(bills', earner', u)
  BY <1>1, SumsOverIds, StepFrame DEF SettlesEarnOnce, AwardedTo, Of, Funded, UpdatesSettle, IInv
<1>3. wallet[u].earned = InitialWallet[u].earned + EarnedSum(bills, earner, u)
  BY <1>1, <1>2, SumsOverIds DEF Books, SettlesEarnOnce, AwardedTo, Of
<1>4. draft[c] \in BillType /\ draft[c].earned \in Nat /\ Sound(draft[c])
  BY DEF IInv, TypeOK, BillType, Books, RowsSound
<1> DEFINE t == target[c]
<1>5. CASE bills' = bills /\ earner' = earner /\ wallet'[u] = wallet[u]
  BY <1>3, <1>5
<1>6. CASE CommitCreate(c) \/ CommitSettle(c)
  <2>1. /\ t \in Ids /\ bills'[t] = draft[c]
        /\ \A id \in Ids : id # t => bills'[id] = bills[id] /\ earner'[id] = earner[id]
        /\ wallet'[u].earned = wallet[u].earned
             + (IF req[c].user = u THEN draft[c].earned ELSE 0)
        /\ draft[c].processed => earner'[t] = req[c].user
    BY <1>6, CreatePays, SettlePays
  <2>2. bills[t] = NoBill \/ bills[t].earned = 0
    <3>1. CASE CommitCreate(c)
      BY <3>1, CreatePays
    <3>2. CASE CommitSettle(c)
      BY <2>1, <3>2, SettlePays DEF CommitSettle, SettleCondition, Books, RowsSound, Sound
    <3> QED
      BY <1>6, <3>1, <3>2
  <2>3. (IF req[c].user = u THEN draft[c].earned ELSE 0)
          = IF earner'[t] = u THEN draft[c].earned ELSE 0
    <3>1. draft[c].processed \/ draft[c].earned = 0
      BY <1>4 DEF Sound
    <3> QED
      BY <2>1, <3>1
  <2> HIDE DEF t
  <2>4. /\ EarnedSum(bills', earner', u) = (EarnedSum(bills, earner, u) - EarnedIn(bills, earner, u)[t])
                              + (IF earner'[t] = u THEN draft[c].earned ELSE 0)
        /\ EarnedSum(bills, earner, u) \in Int
    <3>1. PICK C, who, now : C = bills' /\ who = earner /\ now = earner'
      OBVIOUS
    <3>2. OneWritten(bills, C, who, now, t) /\ C[t] = draft[c]
      BY <1>1, <1>4, <2>1, <3>1 DEF OneWritten
    <3>3. /\ EarnedSum(C, now, u) = (EarnedSum(bills, who, u) - EarnedIn(bills, who, u)[t])
                                + (IF now[t] = u THEN C[t].earned ELSE 0)
          /\ EarnedSum(bills, who, u) \in Int
      BY <3>2, EarnedOnWrite
    <3> QED
      BY <3>1, <3>2, <3>3
  <2>5. EarnedIn(bills, earner, u)[t] = 0
    BY <2>1, <2>2 DEF EarnedIn, Of
  <2> QED
    BY <1>3, <1>4, <2>1, <2>3, <2>4, <2>5, FundedTypes
<1>7. CASE PutBill(c)
  <2>1. /\ t \in Ids /\ bills[t] # NoBill /\ bills'[t] = draft[c]
        /\ earner' = earner /\ wallet' = wallet
        /\ \A id \in Ids : id # t => bills'[id] = bills[id]
    BY <1>7, PutPays
  <2>2. draft[c].earned = bills[t].earned
    BY <1>2, <1>7, PutPays DEF Books, UpdatesKeepAward, Award
  <2> HIDE DEF t
  <2>3. /\ EarnedSum(bills', earner, u) = (EarnedSum(bills, earner, u) - EarnedIn(bills, earner, u)[t])
                              + (IF earner[t] = u THEN draft[c].earned ELSE 0)
        /\ EarnedSum(bills, earner, u) \in Int
    <3>1. PICK C, who, now : C = bills' /\ who = earner /\ now = earner'
      OBVIOUS
    <3>2. OneWritten(bills, C, who, now, t) /\ C[t] = draft[c]
      BY <1>1, <1>4, <2>1, <3>1 DEF OneWritten
    <3>3. /\ EarnedSum(C, now, u) = (EarnedSum(bills, who, u) - EarnedIn(bills, who, u)[t])
                                + (IF now[t] = u THEN C[t].earned ELSE 0)
          /\ EarnedSum(bills, who, u) \in Int
      BY <3>2, EarnedOnWrite
    <3> QED
      BY <2>1, <3>1, <3>2, <3>3
  <2>4. EarnedIn(bills, earner, u)[t] = IF earner[t] = u THEN draft[c].earned ELSE 0
    BY <2>1, <2>2 DEF EarnedIn, Of
  <2>5. EarnedSum(bills', earner', u) = EarnedSum(bills, earner, u)
    <3>1. EarnedSum(bills', earner, u) = EarnedSum(bills, earner, u)
      BY <1>4, <2>3, <2>4
    <3> QED
      BY <2>1, <3>1
  <2> QED
    BY <1>3, <2>1, <2>5
<1> QED
  BY <1>5, <1>6, <1>7, BooksMoves

LEMMA CallKeepsBooks ==
  ASSUME IInv, Books, NEW c \in Calls, Start(c) \/ Step(c) \/ Die(c)
  PROVE  Books'
BY RowsSoundStep, CreatesLinkedStep, FundedSeenStep, SettlesAwardStep, AwardStep,
   RedeemsStep, EarnsStep
   DEF Books

LEMMA WorldKeepsBooks ==
  ASSUME IInv, Books,
         \/ \E id \in Ids : IndexCatchesUp(id)
         \/ \E u \in Users : ReplicaCatchesUp(u)
         \/ NewYear
         \/ UNCHANGED vars
  PROVE  Books'
<1>1. UNCHANGED <<bills, wallet, payer, earner, callVars>>
  BY DEF IndexCatchesUp, ReplicaCatchesUp, NewYear, vars, storeVars
<1>2. \A u \in Users : replica'[u] \in {replica[u], wallet[u]}
  BY DEF IndexCatchesUp, ReplicaCatchesUp, NewYear, vars, storeVars, IInv, TypeOK
<1>3. RowsSound' /\ CreatesLinked'
  BY <1>1 DEF callVars, Books, RowsSound, CreatesLinked
<1>4. FundedSeen'
  <2>1. Funded' = Funded /\ \A u \in Funded : u \in Users
    BY DEF Funded
  <2> QED
    BY <1>1, <1>2, <2>1 DEF callVars, Books, FundedSeen
<1>5. SettlesAward' /\ UpdatesKeepAward'
  BY <1>1 DEF callVars, Books, SettlesAward, UpdatesKeepAward, UpdatesSettle
<1>6. RedeemsMatchBills'
  BY <1>1 DEF Books, RedeemsMatchBills, PaidBy, Funded
<1>7. SettlesEarnOnce'
  BY <1>1 DEF callVars, Books, SettlesEarnOnce, UpdatesSettle, AwardedTo, Funded
<1> QED
  BY <1>3, <1>4, <1>5, <1>6, <1>7 DEF Books

LEMMA InitBooks == Init => Books
<1> SUFFICES ASSUME Init PROVE Books
  OBVIOUS
<1>1. \A c \in Calls : Sound(draft[c])
  BY EmptyBillSound DEF Init
<1>2. /\ RowsSound /\ CreatesLinked /\ FundedSeen /\ SettlesAward /\ UpdatesKeepAward
  BY <1>1 DEF Init, RowsSound, CreatesLinked, FundedSeen, Funded, SettlesAward, UpdatesKeepAward
<1>3. ASSUME NEW u \in Funded
      PROVE  /\ wallet[u].redeemed = InitialWallet[u].redeemed
                    + SumFunction([id \in PaidBy(u) |-> bills[id].redeemed])
             /\ wallet[u].earned = InitialWallet[u].earned
                    + SumFunction([id \in AwardedTo(u) |-> bills[id].earned])
  <2>1. wallet[u] = InitialWallet[u] /\ InitialWallet[u] \in WalletType
    BY UpsertAssumption DEF Init, Funded
  <2>2. PaidBy(u) = {} /\ AwardedTo(u) = {}
    BY DEF Init, PaidBy, AwardedTo
  <2>3. ASSUME NEW f, DOMAIN f = {} PROVE SumFunction(f) = 0
    BY <2>3, SumEmpty DEF SumFunction
  <2>4. /\ DOMAIN [id \in PaidBy(u) |-> bills[id].redeemed] = {}
        /\ DOMAIN [id \in AwardedTo(u) |-> bills[id].earned] = {}
    BY <2>2
  <2>5. /\ SumFunction([id \in PaidBy(u) |-> bills[id].redeemed]) = 0
        /\ SumFunction([id \in AwardedTo(u) |-> bills[id].earned]) = 0
    BY <2>3, <2>4
  <2>6. /\ wallet[u].redeemed = InitialWallet[u].redeemed /\ wallet[u].redeemed \in Nat
        /\ wallet[u].earned = InitialWallet[u].earned /\ wallet[u].earned \in Nat
    BY <2>1 DEF WalletType
  <2> QED
    BY <2>5, <2>6
<1>4. RedeemsMatchBills /\ SettlesEarnOnce
  BY <1>3 DEF RedeemsMatchBills, SettlesEarnOnce
<1> QED
  BY <1>2, <1>4 DEF Books

LEMMA BooksHold == Spec => []Books
<1>1. IInv /\ Books /\ [Next]_vars => Books'
  <2> SUFFICES ASSUME IInv, Books, [Next]_vars PROVE Books'
    OBVIOUS
  <2>1. CASE \E c \in Calls : Start(c) \/ Step(c) \/ Die(c)
    BY <2>1, CallKeepsBooks
  <2>2. CASE ~(\E c \in Calls : Start(c) \/ Step(c) \/ Die(c))
    BY <2>2, WorldKeepsBooks DEF Next, AllEnded
  <2> QED
    BY <2>1, <2>2
<1> QED
  BY <1>1, InitBooks, InvariantHolds, PTL DEF Spec

(* Whatever creates race for the same points, are refused, lose their      *)
(* replies or die, and whatever updates put back rows read long ago or     *)
(* name other customers, the points debited from a wallet are those that   *)
(* the bills created for it redeemed.                                      *)
THEOREM UpsertRedeemsMatchBills == Spec => []RedeemsMatchBills
BY BooksHold, PTL DEF Books

(* Where every update settles, racing creates and settles credit every     *)
(* bill exactly once: a wallet earned what is recorded on the bills it was *)
(* credited for, whichever customer they name.                             *)
THEOREM UpsertSettlesEarnOnce == Spec => []SettlesEarnOnce
BY BooksHold, PTL DEF Books

-----------------------------------------------------------------------------
(* The calls implement the points ledger *)

(* Wallets are equal when their fields are. *)
LEMMA SameWallet ==
  ASSUME NEW a \in WalletType, NEW b \in WalletType,
         a.balance = b.balance, a.earned = b.earned, a.redeemed = b.redeemed
  PROVE  a = b
BY DEF WalletType

(* What a transaction does to the wallets moves the accounts. *)
LEMMA PaysIsMove ==
  ASSUME IInv, Books, NEW v, NEW redeem \in Nat, NEW earn \in Nat,
         WalletCondition(v, redeem, earn), PayPoints(v, redeem, earn)
  PROVE  /\ v \in Funded => wallet[v].balance >= redeem
         /\ \A u \in Funded :
              wallet'[u] = IF u = v THEN Ledger!Moved(wallet[u], redeem, earn) ELSE wallet[u]
<1>1. ASSUME NEW u \in Funded
      PROVE  u \in Users /\ wallet[u] \in WalletType /\ wallet[u] # NoWallet
  BY <1>1, FundedTypes DEF IInv, TypeOK
<1>2. v \in Funded => wallet[v].balance >= redeem
  <2> SUFFICES ASSUME v \in Funded PROVE wallet[v].balance >= redeem
    OBVIOUS
  <2>1. wallet[v].balance \in Nat
    BY <1>1 DEF WalletType
  <2>2. redeem > 0 => wallet[v].balance >= redeem
    BY DEF WalletCondition
  <2> QED
    BY <2>1, <2>2
<1>3. ASSUME NEW u \in Funded
      PROVE  wallet'[u] = IF u = v THEN Ledger!Moved(wallet[u], redeem, earn) ELSE wallet[u]
  <2>1. /\ wallet[u] \in WalletType /\ u \in Users
        /\ wallet[u].balance \in Nat /\ wallet[u].earned \in Nat /\ wallet[u].redeemed \in Nat
    BY <1>1 DEF WalletType
  <2>2. MovePoints(wallet[u], redeem, earn) = Ledger!Moved(wallet[u], redeem, earn)
    BY DEF MovePoints, Ledger!Moved
  <2>3. CASE redeem > 0 \/ earn > 0
    BY <2>1, <2>2, <2>3 DEF PayPoints, IInv, TypeOK
  <2>4. CASE ~(redeem > 0 \/ earn > 0)
    <3>1. redeem = 0 /\ earn = 0 /\ wallet' = wallet
      BY <2>4 DEF PayPoints
    <3>2. Ledger!Moved(wallet[u], 0, 0) = wallet[u]
      <4> DEFINE w == wallet[u]
                 m == Ledger!Moved(w, 0, 0)
      <4>1. m \in WalletType /\ w \in WalletType
        BY <2>1, <2>2, <3>1, MovePointsType
      <4>2. m.balance = w.balance /\ m.earned = w.earned /\ m.redeemed = w.redeemed
        BY <2>1 DEF Ledger!Moved, WalletType
      <4> HIDE DEF w, m
      <4>3. m = w
        BY <4>1, <4>2, SameWallet
      <4> QED
        BY <4>3 DEF w, m
    <3> QED
      BY <3>1, <3>2
  <2> QED
    BY <2>3, <2>4
<1> QED
  BY <1>2, <1>3

(* Whatever writes a bill writes that one bill, and keeps of it what it    *)
(* redeemed.                                                               *)
LEMMA WritesOne ==
  ASSUME IInv, Books, NEW c \in Calls, CommitCreate(c) \/ CommitSettle(c) \/ PutBill(c)
  PROVE  /\ target[c] \in Ids /\ bills'[target[c]] = draft[c]
         /\ Ledger!Write(target[c])
<1>1. target[c] \in Ids /\ bills' = [bills EXCEPT ![target[c]] = draft[c]]
  BY Writers
<1>2. draft[c] \in BillType /\ bills'[target[c]] = draft[c] /\ Sound(draft[c])
  BY <1>1 DEF IInv, TypeOK, Books, RowsSound
<1> QED
  BY <1>1, <1>2 DEF Ledger!Write, Sound

LEMMA BillIsKept ==
  ASSUME IInv, NEW c \in Calls, Start(c) \/ Step(c) \/ Die(c),
         NEW id \in Ids, bills[id] # NoBill
  PROVE  Ledger!Kept(id)
<1>1. FrozenFields(bills'[id]) = FrozenFields(bills[id])
  BY StepKeepsFrozen DEF BillsStay
<1> QED
  BY <1>1 DEF Ledger!Kept, FrozenFields

(* No other bill of the year has the state key of one that is created.     *)
LEMMA CreateIsFirst ==
  ASSUME IInv, NEW c \in Calls, CommitCreate(c), NEW other \in Ids,
         bills[other] # NoBill, other[1] = target[c][1]
  PROVE  bills[other].key # draft[c].key
<1> USE DEF IInv
<1> DEFINE y == other[1]
           k == bills[other].key
<1>1. /\ req[c].id = NoId /\ pc[c] = "create"
      /\ target[c] \in Ids /\ bills[target[c]] = NoBill
  BY Writers
<1>2. /\ y \in Years /\ other[2] \in Sequences /\ other = <<y, other[2]>>
      /\ target[c][2] \in Sequences /\ target[c] = <<target[c][1], target[c][2]>>
  BY <1>1 DEF Ids
<1>3. k \in Keys /\ byInvoice[y][other[2]] = k
  BY DEF TypeOK, BillType, BillsOwnNumbers
<1>4. byInvoice[y][target[c][2]] = draft[c].key
  BY <1>1 DEF CreatesOwnNumbers
<1>5. ASSUME draft[c].key = k PROVE other = target[c]
  <2>1. byBill[y][k] = other[2]
    BY <1>2, <1>3, CounterAssumption DEF MapsAgree
  <2>2. byBill[y][k] = target[c][2]
    BY <1>2, <1>3, <1>4, <1>5, CounterAssumption DEF MapsAgree
  <2> QED
    BY <1>2, <2>1, <2>2
<1> QED
  BY <1>1, <1>5

LEMMA CreateIsOpen ==
  ASSUME IInv, Books, NEW c \in Calls, CommitCreate(c),
         NEW id \in Ids, id = target[c], NEW u, u = req[c].user
  PROVE  Ledger!Open(id, u)
<1>1. draft[c].redeemed \in Nat /\ draft[c].earned \in Nat /\ Sound(draft[c])
  BY DEF IInv, TypeOK, BillType, Books, RowsSound
<1>2. /\ bills[id] = NoBill
      /\ draft[c].redeemed > 0 \/ draft[c].processed => u # Nobody
  BY Writers DEF Books, CreatesLinked, Linked
<1>3. /\ u \in Funded => wallet[u].balance >= draft[c].redeemed
      /\ \A v \in Funded :
           wallet'[v] = IF v = u THEN Ledger!Moved(wallet[v], draft[c].redeemed, draft[c].earned)
                                 ELSE wallet[v]
  <2>1. PICK redeem \in Nat, earn \in Nat : redeem = draft[c].redeemed /\ earn = draft[c].earned
    BY <1>1
  <2>2. WalletCondition(u, redeem, earn) /\ PayPoints(u, redeem, earn)
    BY <2>1 DEF CommitCreate
  <2>3. /\ u \in Funded => wallet[u].balance >= redeem
        /\ \A v \in Funded :
             wallet'[v] = IF v = u THEN Ledger!Moved(wallet[v], redeem, earn) ELSE wallet[v]
    BY <2>2, PaysIsMove
  <2> QED
    BY <2>1, <2>3
<1>4. bills'[id] = draft[c] /\ Ledger!Write(id)
  BY WritesOne
<1>5. ASSUME NEW other \in Ledger!Ids, bills[other] # NoBill, other[1] = id[1]
      PROVE  bills[other].key # bills'[id].key
  BY <1>4, <1>5, CreateIsFirst DEF Ledger!Ids, Ids
<1> DEFINE b == bills'[id]
<1>6. Ledger!Move(u, b.redeemed, b.earned)
  BY <1>3, <1>4 DEF Ledger!Move, Funded
<1>7. /\ b.redeemed > 0 \/ b.processed => u # Nobody
      /\ ~b.processed => b.earned = 0
  BY <1>1, <1>2, <1>4 DEF Sound
<1> QED
  BY <1>2, <1>4, <1>5, <1>6, <1>7 DEF Ledger!Open

LEMMA SettleIsAward ==
  ASSUME IInv, Books, NEW c \in Calls, CommitSettle(c),
         NEW id \in Ids, id = target[c], NEW u, u = req[c].user
  PROVE  u \in Users /\ Ledger!Award(id, u)
<1>1. /\ req[c].id # NoId /\ id \in Ids /\ bills[id] # NoBill /\ pc[c] = "settle"
      /\ bills'[id] = draft[c] /\ Ledger!Write(id)
  BY Writers, WritesOne DEF CommitSettle, At
<1>2. draft[c].processed /\ u \in Users
  BY <1>1, RequestsTyped DEF Books, SettlesAward, Linked, IInv
<1>3. ~bills[id].processed
  BY <1>1 DEF CommitSettle, SettleCondition
<1>4. Ledger!Move(u, 0, draft[c].earned)
  <2>1. draft[c].earned \in Nat /\ 0 \in Nat
    BY DEF IInv, TypeOK, BillType
  <2>2. PICK earn \in Nat : earn = draft[c].earned
    BY <2>1, Zenon
  <2>3. WalletCondition(u, 0, earn) /\ PayPoints(u, 0, earn)
    BY <2>2 DEF CommitSettle
  <2>4. /\ u \in Funded => wallet[u].balance >= 0
        /\ \A v \in Funded :
             wallet'[v] = IF v = u THEN Ledger!Moved(wallet[v], 0, earn) ELSE wallet[v]
    BY <2>1, <2>3, PaysIsMove
  <2> QED
    BY <2>2, <2>4 DEF Ledger!Move, Funded
<1>5. Ledger!Kept(id)
  BY <1>1, BillIsKept DEF Step
<1>6. Ledger!Move(u, 0, bills'[id].earned)
  BY <1>1, <1>4 DEF Ledger!Move
<1> QED
  BY <1>1, <1>2, <1>3, <1>5, <1>6 DEF Ledger!Award

(* A plain put keeps the award where every update settles. *)
LEMMA PutIsAmend ==
  ASSUME IInv, Books, NEW c \in Calls, PutBill(c), NEW id \in Ids, id = target[c]
  PROVE  Ledger!Amend(id)
<1>1. /\ req[c].id # NoId /\ bills[id] # NoBill /\ pc[c] = "put" /\ wallet' = wallet
      /\ bills'[id] = draft[c] /\ Ledger!Write(id)
  BY PutPays, WritesOne
<1>2. UpdatesSettle => /\ bills'[id].processed = bills[id].processed
                       /\ bills'[id].earned = bills[id].earned
  BY <1>1 DEF Books, UpdatesKeepAward, Award
<1>3. Ledger!Kept(id)
  BY <1>1, BillIsKept DEF Step
<1> QED
  BY <1>1, <1>2, <1>3 DEF Ledger!Amend, Funded

LEMMA CallOnLedger ==
  ASSUME IInv, Books, NEW c \in Calls, Start(c) \/ Step(c) \/ Die(c)
  PROVE  [Ledger!Next]_(Ledger!vars)
<1>1. UpdatesSettle' = UpdatesSettle
  BY StepFrame DEF IInv, UpdatesSettle, Linked
<1>2. ASSUME CommitCreate(c) \/ CommitSettle(c) \/ PutBill(c)
      PROVE  \E id \in Ids, u \in Users \cup {Nobody} :
               id = target[c] /\ u = req[c].user /\ id \in Ledger!Ids
  <2>1. target[c] \in Ids /\ req[c].user \in Users \cup {Nobody}
    BY <1>2, WritesOne, RequestsTyped DEF IInv
  <2> QED
    BY <2>1 DEF Ledger!Ids, Ids
<1>3. CASE CommitCreate(c) \/ CommitSettle(c) \/ PutBill(c)
  <2>1. PICK id \in Ids, u \in Users \cup {Nobody} :
          id = target[c] /\ u = req[c].user /\ id \in Ledger!Ids
    BY <1>2, <1>3
  <2>2. CASE CommitCreate(c)
    <3>1. Ledger!Open(id, u)
      BY <2>1, <2>2, CreateIsOpen
    <3> QED
      BY <1>1, <2>1, <3>1 DEF Ledger!Next
  <2>3. CASE CommitSettle(c)
    <3>1. u \in Users /\ Ledger!Award(id, u)
      BY <2>1, <2>3, SettleIsAward
    <3> QED
      BY <1>1, <2>1, <3>1 DEF Ledger!Next
  <2>4. CASE PutBill(c)
    <3>1. Ledger!Amend(id)
      BY <2>1, <2>4, PutIsAmend
    <3> QED
      BY <1>1, <2>1, <3>1 DEF Ledger!Next
  <2> QED
    BY <1>3, <2>2, <2>3, <2>4
<1>4. CASE ~(CommitCreate(c) \/ CommitSettle(c) \/ PutBill(c))
  <2>1. bills' = bills /\ \A u \in Funded : wallet'[u] = wallet[u]
    BY <1>4, StepWritesBill, BooksMoves
  <2> QED
    BY <1>1, <2>1 DEF Ledger!vars, Funded
<1> QED
  BY <1>3, <1>4

(* Whatever creates, settles and plain updates overlap, die or are         *)
(* retried: every bill is debited with its create, credited at most once   *)
(* and frozen in what it redeemed, and no account moves without a bill.    *)
THEOREM UpsertImplementsPointsLedger == Spec => ImplementsPointsLedger
<1>1. Init => Ledger!Init
  BY DEF Init, Ledger!Init, Ledger!Ids, Ids, Funded
<1>2. IInv /\ Books /\ [Next]_vars => [Ledger!Next]_(Ledger!vars)
  <2> SUFFICES ASSUME IInv, Books, [Next]_vars PROVE [Ledger!Next]_(Ledger!vars)
    OBVIOUS
  <2>1. CASE \E c \in Calls : Start(c) \/ Step(c) \/ Die(c)
    BY <2>1, CallOnLedger
  <2>2. CASE ~(\E c \in Calls : Start(c) \/ Step(c) \/ Die(c))
    <3>1. UNCHANGED <<bills, wallet, req>>
      BY <2>2 DEF Next, AllEnded, IndexCatchesUp, ReplicaCatchesUp, NewYear, vars, storeVars,
           callVars
    <3> QED
      BY <3>1 DEF Ledger!vars, Funded, UpdatesSettle
  <2> QED
    BY <2>1, <2>2
<1> QED
  BY <1>1, <1>2, InvariantHolds, BooksHold, PTL DEF Spec, ImplementsPointsLedger, Ledger!Spec

-----------------------------------------------------------------------------
(* What a bill comes to, for any lines, taxes and discounts.  RatedTaxes   *)
(* is a loop: Rated names its intermediate results, and a statement about  *)
(* every one of them is an induction over the set of rounds it holds for.  *)

Rated(out, taxes, taxable) ==
  out = [n \in 0..Len(taxes) |->
           IF n = 0 THEN <<>>
           ELSE IF IsRoundOff(taxes[n]) THEN out[n - 1]
           ELSE Append(out[n - 1], Taxed(taxes[n], taxable))]

LEMMA RatedExists ==
  ASSUME NEW taxes \in Seq(TaxLine), NEW taxable
  PROVE  \E out : Rated(out, taxes, taxable)
<1> DEFINE Round(out, n) ==
             out[n] = IF n = 0 THEN <<>>
                      ELSE IF IsRoundOff(taxes[n]) THEN out[n - 1]
                      ELSE Append(out[n - 1], Taxed(taxes[n], taxable))
           P == {n \in Nat : \E out : \A i \in 0..n : Round(out, i)}
<1>1. 0 \in P
  <2>1. PICK out : out = [i \in 0..0 |-> <<>>]
    OBVIOUS
  <2>2. \A i \in 0..0 : Round(out, i)
    BY <2>1
  <2> QED BY <2>2
<1>2. ASSUME NEW n \in Nat, n \in P PROVE n + 1 \in P
  <2>1. PICK out : \A i \in 0..n : Round(out, i)
    BY <1>2
  <2>2. PICK last : last = IF IsRoundOff(taxes[n + 1]) THEN out[n]
                           ELSE Append(out[n], Taxed(taxes[n + 1], taxable))
    OBVIOUS
  <2>3. PICK more : more = [i \in 0..(n + 1) |-> IF i = n + 1 THEN last ELSE out[i]]
    OBVIOUS
  <2>4. ASSUME NEW i \in 0..(n + 1) PROVE Round(more, i)
    <3>1. CASE i = n + 1
      <4>1. more[i] = last /\ i # 0 /\ i - 1 = n /\ n # i /\ n \in 0..(n + 1)
        BY <2>3, <3>1
      <4>2. more[n] = out[n]
        BY <2>3, <4>1
      <4> QED BY <2>2, <3>1, <4>1, <4>2
    <3>2. CASE i = 0
      <4>1. more[i] = out[i] /\ i \in 0..n
        BY <2>3, <3>2
      <4> QED BY <2>1, <3>2, <4>1
    <3>3. CASE i # 0 /\ i # n + 1
      <4>1. i \in 0..n /\ i - 1 \in 0..n /\ i - 1 \in 0..(n + 1) /\ i - 1 # n + 1
        BY <3>3
      <4>2. more[i] = out[i] /\ more[i - 1] = out[i - 1]
        BY <2>3, <3>3, <4>1
      <4>3. Round(out, i)
        BY <2>1, <4>1
      <4> QED BY <3>3, <4>2, <4>3
    <3> QED BY <3>1, <3>2, <3>3
  <2> QED BY <2>4
<1>3. \A n \in Nat : n \in P
  <2> HIDE DEF P
  <2> QED BY <1>1, <1>2, NatInductionOnSets
<1>4. PICK out : \A i \in 0..Len(taxes) : Round(out, i)
  <2>1. Len(taxes) \in Nat
    OBVIOUS
  <2> QED BY <1>3, <2>1
<1>5. PICK all : all = [i \in 0..Len(taxes) |-> out[i]]
  OBVIOUS
<1>6. \A i \in 0..Len(taxes) : all[i] = out[i] /\ (i # 0 => i - 1 \in 0..Len(taxes) /\ all[i - 1] = out[i - 1])
  BY <1>5
<1>7. Rated(all, taxes, taxable)
  <2>1. \A i \in 0..Len(taxes) : Round(all, i)
    BY <1>4, <1>6
  <2> QED BY <1>5, <2>1 DEF Rated
<1> QED BY <1>7

LEMMA RatedUnfolds ==
  ASSUME NEW taxes \in Seq(TaxLine), NEW taxable
  PROVE  \E out : Rated(out, taxes, taxable) /\ RatedTaxes(taxes, taxable) = out[Len(taxes)]
<1> DEFINE out == CHOOSE out : Rated(out, taxes, taxable)
<1>1. Rated(out, taxes, taxable)
  BY RatedExists
<1>2. RatedTaxes(taxes, taxable) = out[Len(taxes)]
  BY DEF RatedTaxes, Rated
<1> QED BY <1>1, <1>2

(* One round *)
LEMMA RatedRound ==
  ASSUME NEW taxes \in Seq(TaxLine), NEW taxable, NEW out, Rated(out, taxes, taxable)
  PROVE  /\ out[0] = <<>>
         /\ \A n \in 1..Len(taxes) :
              /\ IsRoundOff(taxes[n]) => out[n] = out[n - 1]
              /\ ~IsRoundOff(taxes[n]) => out[n] = Append(out[n - 1], Taxed(taxes[n], taxable))
<1>1. Len(taxes) \in Nat
  OBVIOUS
<1>2. \A n \in 0..Len(taxes) : out[n] = IF n = 0 THEN <<>>
           ELSE IF IsRoundOff(taxes[n]) THEN out[n - 1]
           ELSE Append(out[n - 1], Taxed(taxes[n], taxable))
  BY DEF Rated
<1>3. out[0] = <<>>
  BY <1>1, <1>2
<1>4. ASSUME NEW n \in 1..Len(taxes)
      PROVE  /\ IsRoundOff(taxes[n]) => out[n] = out[n - 1]
             /\ ~IsRoundOff(taxes[n]) => out[n] = Append(out[n - 1], Taxed(taxes[n], taxable))
  <2>1. n \in 0..Len(taxes) /\ n # 0
    BY <1>1
  <2> QED BY <1>2, <2>1
<1> QED BY <1>3, <1>4

(* A statement about every round holds if each round keeps it. *)
LEMMA RatedInduction ==
  ASSUME NEW taxes \in Seq(TaxLine), NEW P, 0 \in P,
         \A n \in 1..Len(taxes) : n - 1 \in P => n \in P
  PROVE  \A n \in 0..Len(taxes) : n \in P
<1> DEFINE Q == {n \in Nat : n \in 0..Len(taxes) => n \in P}
<1>1. 0 \in Q
  OBVIOUS
<1>2. ASSUME NEW n \in Nat, n \in Q PROVE n + 1 \in Q
  <2>1. CASE n + 1 \in 0..Len(taxes)
    <3>1. n \in 0..Len(taxes) /\ n + 1 \in 1..Len(taxes) /\ (n + 1) - 1 = n
      BY <2>1
    <3> QED BY <1>2, <3>1
  <2>2. CASE n + 1 \notin 0..Len(taxes)
    BY <2>2
  <2> QED BY <2>1, <2>2
<1>3. \A n \in Nat : n \in Q
  <2> HIDE DEF Q
  <2> QED BY <1>1, <1>2, NatInductionOnSets
<1> QED BY <1>3

LEMMA RateAmountIsNat ==
  ASSUME NEW rate \in Nat, NEW taxable \in Nat
  PROVE  RateAmount(rate, taxable) \in Nat
<1>1. PICK p \in Nat : p = 2 * taxable * rate
  BY ProductIsNat
<1>2. (p + 10000) \div 20000 \in Nat
  BY DivisionIsNat
<1> QED BY <1>1, <1>2 DEF RateAmount

(* A rate on the same amount changes nothing any more. *)
LEMMA TaxedTwice ==
  ASSUME NEW t \in TaxLine, NEW first \in Nat, NEW taxable \in Nat
  PROVE  /\ Taxed(t, first) \in TaxLine
         /\ IsRoundOff(Taxed(t, first)) <=> IsRoundOff(t)
         /\ Taxed(Taxed(t, first), taxable) = Taxed(t, taxable)
<1>1. PICK a \in Nat, b \in Nat : a = RateAmount(t.rate, first) /\ b = RateAmount(t.rate, taxable)
  BY RateAmountIsNat DEF TaxLine
<1>2. CASE t.rate > 0
  <2>1. Taxed(t, first) = [t EXCEPT !.amount = a] /\ Taxed(t, taxable) = [t EXCEPT !.amount = b]
    BY <1>1, <1>2 DEF Taxed
  <2>2. PICK u : u = [t EXCEPT !.amount = a]
    OBVIOUS
  <2>3. /\ u \in TaxLine /\ u.rate = t.rate /\ u.byId = t.byId /\ u.byName = t.byName
        /\ [u EXCEPT !.amount = b] = [t EXCEPT !.amount = b]
    BY <2>2 DEF TaxLine
  <2>4. Taxed(u, taxable) = [u EXCEPT !.amount = b]
    BY <1>1, <1>2, <2>3 DEF Taxed
  <2> QED BY <2>1, <2>2, <2>3, <2>4 DEF IsRoundOff
<1>3. CASE ~(t.rate > 0)
  BY <1>3 DEF Taxed
<1> QED BY <1>2, <1>3

(* What the loop makes: tax lines that are no round offs, as many as there *)
(* were if none of them was one                                            *)
LEMMA RatedType ==
  ASSUME NEW taxes \in Seq(TaxLine), NEW taxable \in Nat, NEW out, Rated(out, taxes, taxable)
  PROVE  \A n \in 0..Len(taxes) :
           /\ out[n] \in Seq(TaxLine)
           /\ \A i \in 1..Len(out[n]) : ~IsRoundOff(out[n][i])
           /\ (\A i \in 1..n : ~IsRoundOff(taxes[i])) => Len(out[n]) = n
<1> DEFINE Good(s, n) ==
             /\ s \in Seq(TaxLine)
             /\ \A i \in 1..Len(s) : ~IsRoundOff(s[i])
             /\ (\A i \in 1..n : ~IsRoundOff(taxes[i])) => Len(s) = n
           P == {n \in 0..Len(taxes) : Good(out[n], n)}
<1>1. 0 \in P
  <2>1. out[0] = <<>> /\ 0 \in 0..Len(taxes)
    BY RatedRound
  <2>2. Good(<<>>, 0)
    BY EmptySeq
  <2> QED BY <2>1, <2>2
<1>2. ASSUME NEW n \in 1..Len(taxes), n - 1 \in P PROVE n \in P
  <2>0. n \in 0..Len(taxes)
    OBVIOUS
  <2>1. PICK s \in Seq(TaxLine) : s = out[n - 1] /\ Good(s, n - 1)
    BY <1>2
  <2>2. taxes[n] \in TaxLine
    OBVIOUS
  <2>3. CASE IsRoundOff(taxes[n])
    <3>1. out[n] = s
      BY <2>1, <2>3, RatedRound
    <3>2. Good(s, n)
      BY <2>1, <2>3
    <3>3. Good(out[n], n)
      BY <3>1, <3>2
    <3> QED BY <2>0, <3>3
  <2>4. CASE ~IsRoundOff(taxes[n])
    <3>1. PICK t \in TaxLine : t = Taxed(taxes[n], taxable) /\ ~IsRoundOff(t)
      BY <2>2, <2>4, TaxedTwice
    <3>2. out[n] = Append(s, t)
      BY <2>1, <2>4, <3>1, RatedRound
    <3>3. Good(Append(s, t), n)
      <4>1. Append(s, t) \in Seq(TaxLine) /\ Len(Append(s, t)) = Len(s) + 1
        OBVIOUS
      <4>2. \A i \in 1..Len(Append(s, t)) : ~IsRoundOff(Append(s, t)[i])
        BY <2>1, <3>1
      <4>3. (\A i \in 1..n : ~IsRoundOff(taxes[i])) => Len(s) = n - 1
        BY <2>1
      <4> QED BY <4>1, <4>2, <4>3
    <3>4. Good(out[n], n)
      BY <3>2, <3>3
    <3> QED BY <2>0, <3>4
  <2> QED BY <2>3, <2>4
<1>3. \A n \in 0..Len(taxes) : n \in P
  <2> HIDE DEF P
  <2> QED BY <1>1, <1>2, RatedInduction
<1> QED BY <1>3

(* The loop over one more line ends where it ended, but for that line. *)
LEMMA RatedAppend ==
  ASSUME NEW s \in Seq(TaxLine), NEW t \in TaxLine, NEW taxable
  PROVE  RatedTaxes(Append(s, t), taxable) =
           IF IsRoundOff(t) THEN RatedTaxes(s, taxable)
           ELSE Append(RatedTaxes(s, taxable), Taxed(t, taxable))
<1>0. PICK more \in Seq(TaxLine) : more = Append(s, t)
  <2>1. Append(s, t) \in Seq(TaxLine)
    OBVIOUS
  <2> QED BY <2>1, Zenon
<1>1. PICK out : Rated(out, s, taxable) /\ RatedTaxes(s, taxable) = out[Len(s)]
  BY RatedUnfolds
<1>2. PICK all : Rated(all, more, taxable) /\ RatedTaxes(more, taxable) = all[Len(more)]
  BY RatedUnfolds
<1>3. /\ Len(more) = Len(s) + 1 /\ more[Len(more)] = t /\ Len(s) \in Nat
      /\ \A n \in 1..Len(s) : more[n] = s[n] /\ n \in 1..Len(more)
  BY <1>0
<1> DEFINE P == {n \in 0..Len(s) : all[n] = out[n]}
<1>4. 0 \in P
  BY <1>1, <1>2, <1>3, RatedRound
<1>5. ASSUME NEW n \in 1..Len(s), n - 1 \in P PROVE n \in P
  <2>1. all[n - 1] = out[n - 1] /\ more[n] = s[n] /\ n \in 1..Len(more) /\ n \in 0..Len(s)
    BY <1>3, <1>5
  <2>2. /\ IsRoundOff(s[n]) => out[n] = out[n - 1]
        /\ ~IsRoundOff(s[n]) => out[n] = Append(out[n - 1], Taxed(s[n], taxable))
    BY <1>1, RatedRound
  <2>3. /\ IsRoundOff(more[n]) => all[n] = all[n - 1]
        /\ ~IsRoundOff(more[n]) => all[n] = Append(all[n - 1], Taxed(more[n], taxable))
    BY <1>2, <2>1, RatedRound
  <2> QED BY <2>1, <2>2, <2>3
<1>6. \A n \in 0..Len(s) : n \in P
  <2> HIDE DEF P
  <2> QED BY <1>4, <1>5, RatedInduction
<1>7. all[Len(s)] = out[Len(s)]
  BY <1>3, <1>6
<1>8. /\ IsRoundOff(t) => all[Len(more)] = all[Len(s)]
      /\ ~IsRoundOff(t) => all[Len(more)] = Append(all[Len(s)], Taxed(t, taxable))
  <2>1. Len(more) \in 1..Len(more) /\ Len(more) - 1 = Len(s)
    BY <1>3
  <2> QED BY <1>2, <1>3, <2>1, RatedRound
<1> QED BY <1>0, <1>1, <1>2, <1>7, <1>8

(* The lines a bill stored give the same lines again, on any amount. *)
LEMMA RatedTwice ==
  ASSUME NEW taxes \in Seq(TaxLine), NEW first \in Nat, NEW taxable \in Nat
  PROVE  RatedTaxes(RatedTaxes(taxes, first), taxable) = RatedTaxes(taxes, taxable)
<1>1. PICK old : Rated(old, taxes, first) /\ RatedTaxes(taxes, first) = old[Len(taxes)]
  BY RatedUnfolds
<1>2. PICK new : Rated(new, taxes, taxable) /\ RatedTaxes(taxes, taxable) = new[Len(taxes)]
  BY RatedUnfolds
<1> DEFINE P == {n \in 0..Len(taxes) : RatedTaxes(old[n], taxable) = new[n]}
<1>3. 0 \in P
  <2>1. old[0] = <<>> /\ new[0] = <<>>
    BY <1>1, <1>2, RatedRound
  <2>2. PICK none \in Seq(TaxLine) : none = <<>>
    <3>1. <<>> \in Seq(TaxLine)
      BY EmptySeq
    <3> QED BY <3>1, Zenon
  <2>3. PICK out : Rated(out, none, taxable) /\ RatedTaxes(none, taxable) = out[Len(none)]
    BY RatedUnfolds
  <2>4. out[0] = <<>> /\ Len(none) = 0
    BY <2>2, <2>3, RatedRound
  <2> QED BY <2>1, <2>2, <2>3, <2>4
<1>4. ASSUME NEW n \in 1..Len(taxes), n - 1 \in P PROVE n \in P
  <2>1. n - 1 \in 0..Len(taxes) /\ n \in 0..Len(taxes) /\ taxes[n] \in TaxLine
    OBVIOUS
  <2>2. PICK s \in Seq(TaxLine) : s = old[n - 1] /\ RatedTaxes(s, taxable) = new[n - 1]
    BY <1>1, <1>4, <2>1, RatedType
  <2>3. CASE IsRoundOff(taxes[n])
    <3>1. old[n] = s /\ new[n] = new[n - 1]
      BY <1>1, <1>2, <2>2, <2>3, RatedRound
    <3> QED BY <2>1, <2>2, <3>1
  <2>4. CASE ~IsRoundOff(taxes[n])
    <3>1. PICK t \in TaxLine : /\ t = Taxed(taxes[n], first) /\ ~IsRoundOff(t)
                               /\ Taxed(t, taxable) = Taxed(taxes[n], taxable)
      BY <2>1, <2>4, TaxedTwice
    <3>2. old[n] = Append(s, t)
      BY <1>1, <2>2, <2>4, <3>1, RatedRound
    <3>3. new[n] = Append(new[n - 1], Taxed(taxes[n], taxable))
      BY <1>2, <2>4, RatedRound
    <3>4. RatedTaxes(Append(s, t), taxable) = Append(RatedTaxes(s, taxable), Taxed(t, taxable))
      BY <3>1, RatedAppend
    <3> QED BY <2>1, <2>2, <3>1, <3>2, <3>3, <3>4
  <2> QED BY <2>3, <2>4
<1>5. \A n \in 0..Len(taxes) : n \in P
  <2> HIDE DEF P
  <2> QED BY <1>3, <1>4, RatedInduction
<1>6. Len(taxes) \in 0..Len(taxes)
  OBVIOUS
<1> QED BY <1>1, <1>2, <1>5, <1>6


LEMMA SubtotalIsNat ==
  ASSUME NEW lines \in Seq(LineItem)
  PROVE  LineItemsSubtotal(lines) \in Nat
<1> DEFINE f == [i \in DOMAIN lines |-> LinePrice(lines[i])]
<1>1. DOMAIN f = 1..Len(lines) /\ Len(lines) \in Nat
  OBVIOUS
<1>2. ASSUME NEW i \in 1..Len(lines) PROVE f[i] \in Nat
  <2>0. lines[i] \in LineItem
    OBVIOUS
  <2>1. lines[i].price \in Nat /\ lines[i].quantity \in Int
    BY <2>0 DEF LineItem
  <2>2. CASE lines[i].quantity <= 0
    BY <2>2 DEF LinePrice
  <2>3. CASE ~(lines[i].quantity <= 0)
    <3>1. lines[i].quantity \in Nat
      BY <2>1, <2>3
    <3>2. LinePrice(lines[i]) = lines[i].price * lines[i].quantity
      BY <2>3 DEF LinePrice
    <3> QED BY <2>1, <3>1, <3>2, ProductIsNat
  <2> QED BY <2>2, <2>3
<1> HIDE DEF f
<1>3. SumFunctionOnSet(f, 1..Len(lines)) \in Nat
  <2>1. IsFiniteSet(1..Len(lines))
    BY <1>1, FS_Interval
  <2> QED BY <1>2, <2>1, SumIsNat
<1> QED BY <1>1, <1>3 DEF LineItemsSubtotal, SumFunction, f

LEMMA AmountsOfType ==
  ASSUME NEW taxes \in Seq(TaxLine)
  PROVE  /\ DOMAIN AmountsOf(taxes) = 1..Len(taxes) /\ Len(taxes) \in Nat
         /\ IsFiniteSet(1..Len(taxes))
         /\ \A i \in 1..Len(taxes) : AmountsOf(taxes)[i] = taxes[i].amount /\ taxes[i].amount \in Nat
         /\ SumTaxes(taxes) = SumFunctionOnSet(AmountsOf(taxes), 1..Len(taxes))
<1>1. Len(taxes) \in Nat /\ DOMAIN AmountsOf(taxes) = 1..Len(taxes)
  BY DEF AmountsOf
<1>2. IsFiniteSet(1..Len(taxes))
  BY <1>1, FS_Interval
<1>3. ASSUME NEW i \in 1..Len(taxes)
      PROVE AmountsOf(taxes)[i] = taxes[i].amount /\ taxes[i].amount \in Nat
  <2>1. taxes[i] \in TaxLine
    OBVIOUS
  <2> QED BY <2>1 DEF AmountsOf, TaxLine
<1> QED BY <1>1, <1>2, <1>3 DEF SumTaxes, SumFunction

LEMMA SumTaxesIsNat ==
  ASSUME NEW taxes \in Seq(TaxLine)
  PROVE  SumTaxes(taxes) \in Nat
BY AmountsOfType, SumIsNat

(* One more tax line adds its amount, and the earlier ones what they did. *)
LEMMA SumTaxesAppend ==
  ASSUME NEW s \in Seq(TaxLine), NEW t \in TaxLine
  PROVE  /\ SumTaxes(Append(s, t)) = SumTaxes(s) + t.amount
         /\ SumFunctionOnSet(AmountsOf(Append(s, t)), 1..Len(s)) = SumTaxes(s)
<1>0. PICK more \in Seq(TaxLine) : more = Append(s, t)
  <2>1. Append(s, t) \in Seq(TaxLine)
    OBVIOUS
  <2> QED BY <2>1, Zenon
<1>1. /\ Len(more) = Len(s) + 1 /\ more[Len(more)] = t /\ Len(s) \in Nat
      /\ \A n \in 1..Len(s) : more[n] = s[n] /\ n \in 1..Len(more)
  BY <1>0
<1>2. PICK f, h : f = AmountsOf(s) /\ h = AmountsOf(more)
  OBVIOUS
<1>3. /\ \A i \in 1..Len(s) : f[i] = h[i] /\ h[i] \in Int
      /\ h[Len(s) + 1] = t.amount /\ t.amount \in Int
  <2>1. Len(s) + 1 \in 1..Len(more)
    BY <1>1
  <2> QED BY <1>1, <1>2, <2>1, AmountsOfType
<1>4. SumFunctionOnSet(h, 1..Len(s)) = SumFunctionOnSet(f, 1..Len(s))
  BY <1>3, AmountsOfType, SumSame
<1>5. 1..Len(more) = (1..Len(s)) \cup {Len(s) + 1} /\ Len(s) + 1 \notin 1..Len(s)
  BY <1>1
<1>6. SumFunctionOnSet(h, 1..Len(more)) = t.amount + SumFunctionOnSet(h, 1..Len(s))
  <2>1. IsFiniteSet(1..Len(s)) /\ \A y \in 1..Len(s) : h[y] \in Int
    BY <1>3, AmountsOfType
  <2>2. SumFunctionOnSet(h, (1..Len(s)) \cup {Len(s) + 1})
          = h[Len(s) + 1] + SumFunctionOnSet(h, 1..Len(s))
    BY <1>3, <1>5, <2>1, SumInsert
  <2> QED BY <1>3, <1>5, <2>2
<1>7. SumFunctionOnSet(f, 1..Len(s)) = SumTaxes(s) /\ SumFunctionOnSet(h, 1..Len(more)) = SumTaxes(more)
  BY <1>2, AmountsOfType
<1>8. SumTaxes(s) \in Nat
  BY SumTaxesIsNat
<1> QED BY <1>0, <1>2, <1>3, <1>4, <1>6, <1>7, <1>8

LEMMA RoundsUp ==
  ASSUME NEW paise \in Nat
  PROVE  RoundOff(paise) \in Nat /\ RoundOff(paise) <= 99 /\ (paise + RoundOff(paise)) % 100 = 0
BY DEF RoundOff

LEMMA TaxesTyped ==
  ASSUME NEW taxes \in Seq(TaxLine), NEW taxable \in Nat
  PROVE  /\ RatedTaxes(taxes, taxable) \in Seq(TaxLine)
         /\ SumTaxes(RatedTaxes(taxes, taxable)) \in Nat
         /\ RecomputedTaxes(taxes, taxable) \in Seq(TaxLine)
<1>1. PICK rated : rated = RatedTaxes(taxes, taxable)
  OBVIOUS
<1>2. rated \in Seq(TaxLine)
  <2>1. PICK out : Rated(out, taxes, taxable) /\ RatedTaxes(taxes, taxable) = out[Len(taxes)]
    BY RatedUnfolds
  <2>2. Len(taxes) \in 0..Len(taxes)
    OBVIOUS
  <2> QED BY <1>1, <2>1, <2>2, RatedType
<1>3. SumTaxes(rated) \in Nat
  BY <1>2, SumTaxesIsNat
<1>4. PICK sum \in Nat : sum = taxable + SumTaxes(rated)
  <2>1. taxable + SumTaxes(rated) \in Nat
    BY <1>3
  <2> QED BY <2>1
<1>5. PICK line : line = RoundOffLine(RoundOff(sum))
  OBVIOUS
<1>6. line \in TaxLine
  <2>1. RoundOff(sum) \in Nat
    BY RoundsUp
  <2> QED BY <1>5, <2>1 DEF RoundOffLine, TaxLine
<1>7. Append(rated, line) \in Seq(TaxLine)
  BY <1>2, <1>6
<1>8. RecomputedTaxes(taxes, taxable) \in {rated, Append(rated, line)}
  BY <1>1, <1>4, <1>5 DEF RecomputedTaxes
<1> QED BY <1>1, <1>2, <1>3, <1>7, <1>8

(* The taxes a bill stores for the taxes of a request *)
LEMMA RecomputedTaxesAre ==
  ASSUME NEW taxes \in Seq(TaxLine), NEW taxable \in Nat,
         NEW stored \in Seq(TaxLine), stored = RecomputedTaxes(taxes, taxable),
         NEW due \in Nat, due = SumTaxes(RatedTaxes(taxes, taxable)),
         NEW up \in Nat, up = RoundOff(taxable + due)
  PROVE  /\ SumTaxes(stored) = due + (IF taxes = <<>> THEN 0 ELSE up)
         /\ SumFunctionOnSet(AmountsOf(stored), DueTaxes(stored)) = due
         /\ stored = <<>> <=> taxes = <<>>
         /\ \A later \in Nat : RatedTaxes(stored, later) = RatedTaxes(taxes, later)
<1>1. PICK out : Rated(out, taxes, taxable) /\ RatedTaxes(taxes, taxable) = out[Len(taxes)]
  BY RatedUnfolds
<1>2. Len(taxes) \in 0..Len(taxes) /\ Len(taxes) \in Nat /\ DOMAIN taxes = 1..Len(taxes)
  OBVIOUS
<1>3. PICK rated \in Seq(TaxLine) :
        /\ rated = RatedTaxes(taxes, taxable)
        /\ \A i \in 1..Len(rated) : ~IsRoundOff(rated[i])
        /\ (\A i \in 1..Len(taxes) : ~IsRoundOff(taxes[i])) => Len(rated) = Len(taxes)
  BY <1>1, <1>2, RatedType
<1>4. due = SumTaxes(rated)
  BY <1>3
<1>6. \A later \in Nat : RatedTaxes(rated, later) = RatedTaxes(taxes, later)
  BY <1>3, RatedTwice
<1>7. CASE taxes # <<>> /\ (up > 0 \/ \E i \in DOMAIN taxes : IsRoundOff(taxes[i]))
  <2>1. PICK line \in TaxLine : line = RoundOffLine(up) /\ IsRoundOff(line) /\ line.amount = up /\ line.byId
    <3>1. PICK line : line = RoundOffLine(up)
      OBVIOUS
    <3>2. line \in TaxLine /\ IsRoundOff(line) /\ line.amount = up /\ line.byId
      BY <3>1 DEF RoundOffLine, TaxLine, IsRoundOff
    <3> QED BY <3>1, <3>2
  <2>2. stored = Append(rated, line)
    BY <1>3, <1>4, <1>7, <2>1 DEF RecomputedTaxes
  <2>3. PICK more \in Seq(TaxLine) : more = Append(rated, line)
    <3>1. Append(rated, line) \in Seq(TaxLine)
      OBVIOUS
    <3> QED BY <3>1, Zenon
  <2>4. /\ Len(more) = Len(rated) + 1 /\ more[Len(rated) + 1] = line /\ more # <<>>
        /\ DOMAIN more = 1..(Len(rated) + 1) /\ Len(rated) \in Nat
        /\ \A i \in 1..Len(rated) : more[i] = rated[i]
    BY <2>3
  <2>5. DueTaxes(more) = 1..Len(rated)
    <3>1. \A i \in 1..Len(rated) : ~(more[i].byId \/ (more[i].rate = 0 /\ more[i].byName))
      BY <1>3, <2>4 DEF IsRoundOff
    <3>2. more[Len(rated) + 1].byId
      BY <2>1, <2>4
    <3>3. 1..(Len(rated) + 1) = (1..Len(rated)) \cup {Len(rated) + 1}
      BY <2>4
    <3> QED BY <2>4, <3>1, <3>2, <3>3 DEF DueTaxes
  <2>6. /\ SumTaxes(more) = due + up
        /\ SumFunctionOnSet(AmountsOf(more), 1..Len(rated)) = due
    BY <1>4, <2>1, <2>3, SumTaxesAppend
  <2>7. \A later \in Nat : RatedTaxes(more, later) = RatedTaxes(rated, later)
    BY <2>1, <2>3, RatedAppend
  <2> QED BY <1>4, <1>6, <1>7, <2>2, <2>3, <2>4, <2>5, <2>6, <2>7
<1>8. CASE ~(taxes # <<>> /\ (up > 0 \/ \E i \in DOMAIN taxes : IsRoundOff(taxes[i])))
  <2>1. stored = rated
    BY <1>3, <1>4, <1>8 DEF RecomputedTaxes
  <2>2. taxes # <<>> => up = 0
    BY <1>8
  <2>3. Len(rated) = Len(taxes)
    <3>1. CASE taxes = <<>>
      <4>1. Len(taxes) = 0
        BY <3>1
      <4> QED BY <1>3, <4>1
    <3>2. CASE taxes # <<>>
      BY <1>2, <1>3, <1>8, <3>2
    <3> QED BY <3>1, <3>2
  <2>4. rated = <<>> <=> taxes = <<>>
    BY <2>3
  <2>5. DueTaxes(rated) = 1..Len(rated)
    BY <1>3 DEF DueTaxes, IsRoundOff
  <2>6. SumFunctionOnSet(AmountsOf(rated), DueTaxes(rated)) = due
    BY <1>4, <2>5, AmountsOfType
  <2> QED BY <1>4, <1>6, <2>1, <2>2, <2>4, <2>6
<1> QED BY <1>7, <1>8

(* What a bill comes to: what is left of the subtotal, the taxes on it,    *)
(* and what is missing to the next rupee                                   *)
Comes(new, subtotal, taxes, taxable, due, up) ==
  /\ due = SumTaxes(RatedTaxes(taxes, taxable)) /\ up = RoundOff(taxable + due)
  /\ new.taxes = RecomputedTaxes(taxes, taxable)
  /\ new.total = taxable + due + (IF taxes = <<>> THEN 0 ELSE up)
  /\ Due(new, subtotal) = taxable + due

LEMMA AmountsAre ==
  ASSUME NEW subtotal \in Nat, NEW discount \in 0..subtotal, NEW taxes \in Seq(TaxLine),
         NEW new, new = Amounts(subtotal, discount, taxes)
  PROVE  /\ new.discount = discount
         /\ \E due, up \in Nat : Comes(new, subtotal, taxes, subtotal - discount, due, up)
<1>0. PICK taxable \in Nat : taxable = subtotal - discount
  OBVIOUS
<1>9. PICK due \in Nat : due = SumTaxes(RatedTaxes(taxes, taxable))
  <2>1. SumTaxes(RatedTaxes(taxes, taxable)) \in Nat
    BY TaxesTyped
  <2> QED BY <2>1
<1>10. PICK up \in Nat : up = RoundOff(taxable + due)
  <2>1. PICK sum \in Nat : sum = taxable + due
    OBVIOUS
  <2>2. RoundOff(sum) \in Nat
    BY RoundsUp
  <2> QED BY <2>1, <2>2
<1>1. PICK stored \in Seq(TaxLine) : stored = RecomputedTaxes(taxes, taxable)
  <2>1. RecomputedTaxes(taxes, taxable) \in Seq(TaxLine)
    BY TaxesTyped
  <2> QED BY <2>1, Zenon
<1>2. /\ SumTaxes(stored) = due + (IF taxes = <<>> THEN 0 ELSE up)
      /\ SumFunctionOnSet(AmountsOf(stored), DueTaxes(stored)) = due
  BY <1>9, <1>10, <1>1, RecomputedTaxesAre
<1>4. new = [discount |-> discount, taxes |-> stored, tax |-> SumTaxes(stored),
             total |-> taxable + SumTaxes(stored)]
  BY <1>0, <1>1 DEF Amounts
<1>5. new.total = taxable + SumTaxes(stored) /\ new.discount = discount /\ new.taxes = stored
  BY <1>4
<1>6. Due(new, subtotal) = taxable + due
  BY <1>0, <1>2, <1>5 DEF Due
<1>7. new.total = taxable + due + (IF taxes = <<>> THEN 0 ELSE up)
  BY <1>2, <1>5
<1>8. Comes(new, subtotal, taxes, taxable, due, up)
  BY <1>9, <1>10, <1>1, <1>5, <1>6, <1>7 DEF Comes
<1> QED BY <1>0, <1>5, <1>8

LEMMA ProductMonotone ==
  ASSUME NEW a \in Nat, NEW b \in Nat, NEW c \in Nat, a <= b
  PROVE  c * a <= b * c
<1>1. PICK d \in Nat : b = a + d
  <2>1. b - a \in Nat /\ b = a + (b - a)
    OBVIOUS
  <2> QED BY <2>1
<1>2. b * c = c * a + d * c
  BY <1>1
<1>3. d * c \in Nat /\ c * a \in Nat
  BY ProductIsNat
<1> QED BY <1>2, <1>3

(* A discount is never more than the subtotal, nor points than the wallet. *)
LEMMA CreateDiscountBounds ==
  ASSUME NEW subtotal \in Nat, NEW asked \in Discounts, NEW balance \in Nat
  PROVE  /\ PointsDiscount(subtotal, asked, balance) \in Nat
         /\ CreateDiscount(subtotal, asked, balance) \in 0..subtotal
         /\ (asked.points > 0 /\ asked.other <= 0) =>
              CreateDiscount(subtotal, asked, balance) <= balance * PaisePerPoint
<1>1. asked.points \in Nat /\ asked.other \in Int
  BY DEF Discounts
<1>2. PICK r : r = RedeemedPoints(subtotal, asked.points, asked.other, balance)
  OBVIOUS
<1>3. r \in 0..balance /\ r \in Nat /\ r <= balance
  <2>1. PICK p \in Nat, o \in Int : p = asked.points /\ o = asked.other
    BY <1>1
  <2>2. RedeemedPoints(subtotal, p, o, balance) \in 0..balance
    BY RedeemedPointsBounds
  <2>3. r \in 0..balance
    BY <1>2, <2>1, <2>2
  <2> QED BY <2>3
<1>4. PICK d : d = PointsDiscount(subtotal, asked, balance)
  OBVIOUS
<1>5. PaisePerPoint * r \in Nat /\ PaisePerPoint * r <= balance * PaisePerPoint /\ balance * PaisePerPoint \in Nat
  BY <1>3, ProductIsNat, ProductMonotone, TotalsAssumption
<1>6. d \in Nat /\ (asked.points > 0 => d <= balance * PaisePerPoint)
  BY <1>2, <1>4, <1>5 DEF PointsDiscount
<1>7. CreateDiscount(subtotal, asked, balance) = CapDiscount(asked.other + d, subtotal)
  BY <1>4 DEF CreateDiscount
<1>8. CapDiscount(asked.other + d, subtotal) \in 0..subtotal
  BY <1>1, <1>6, CapDiscountBounds
<1>9. ASSUME asked.points > 0, asked.other <= 0
      PROVE  CapDiscount(asked.other + d, subtotal) <= balance * PaisePerPoint
  BY <1>1, <1>5, <1>6, <1>9 DEF CapDiscount
<1> QED BY <1>4, <1>6, <1>7, <1>8, <1>9

(* For any lines, taxes, discounts and balance, not only the bounded ones *)
LEMMA BillComesTo ==
  ASSUME NEW lines \in Seq(LineItem), NEW taxes \in Seq(TaxLine), NEW asked \in Discounts,
         NEW balance \in Nat, ~PointsRefused(asked.points, asked.stacked, TRUE)
  PROVE  AddsUpFor(lines, taxes, asked, balance)
<1>0. PICK subtotal, new, frozen :
        /\ subtotal = LineItemsSubtotal(lines)
        /\ new = CreateAmounts(lines, asked, taxes, balance)
        /\ frozen = PointsDiscount(subtotal, asked, balance)
  OBVIOUS
<1>1. subtotal \in Nat
  BY <1>0, SubtotalIsNat
<1>2. PICK discount \in 0..subtotal :
        /\ discount = CreateDiscount(subtotal, asked, balance)
        /\ (asked.points > 0 /\ asked.other <= 0) => discount <= balance * PaisePerPoint
  <2>1. PICK d : d = CreateDiscount(subtotal, asked, balance)
    OBVIOUS
  <2>2. d \in 0..subtotal /\ ((asked.points > 0 /\ asked.other <= 0) => d <= balance * PaisePerPoint)
    BY <1>1, <2>1, CreateDiscountBounds
  <2> QED BY <2>1, <2>2, Zenon
<1>3. frozen \in Nat
  BY <1>0, <1>1, CreateDiscountBounds
<1>4. new = Amounts(subtotal, discount, taxes)
  BY <1>0, <1>2 DEF CreateAmounts
<1>5. PICK taxable \in Nat : taxable = subtotal - discount
  BY <1>1, <1>2
<1>6. new.discount = discount
  BY <1>1, <1>4, AmountsAre
<1>7. PICK due \in Nat, up \in Nat : Comes(new, subtotal, taxes, taxable, due, up)
  BY <1>1, <1>4, <1>5, AmountsAre
<1>8. PICK sum \in Nat : sum = taxable + due /\ up = RoundOff(sum)
  BY <1>7 DEF Comes
<1>9. up <= 99 /\ (sum + up) % 100 = 0
  BY <1>8, RoundsUp
<1>10. asked.points > 0 => asked.other <= 0
  <2>1. asked.points \in Nat /\ asked.other \in Int /\ (asked.other > 0 => asked.stacked)
    BY DEF Discounts
  <2> QED BY <2>1 DEF PointsRefused
<1>11. new.total >= taxable /\ (taxes # <<>> => new.total % 100 = 0 /\ new.total - Due(new, subtotal) \in 0..99)
  <2>1. PICK total, owed : total = new.total /\ owed = Due(new, subtotal)
    OBVIOUS
  <2>2. owed = sum /\ total = sum + (IF taxes = <<>> THEN 0 ELSE up)
    BY <1>7, <1>8, <2>1 DEF Comes
  <2>3. total >= taxable
    BY <1>8, <2>2
  <2>4. taxes # <<>> => total % 100 = 0 /\ total - owed \in 0..99
    BY <1>9, <2>2
  <2> QED BY <2>1, <2>3, <2>4
<1>12. ASSUME NEW later \in Asked
       PROVE  UpdateAmounts(lines, later, new.taxes, frozen).total =
                UpdateAmounts(lines, later, taxes, frozen).total
  <2>1. frozen + later.other \in Int
    BY <1>3, AmountsAssumption DEF Discounts
  <2>2. PICK d : d = UpdateDiscount(subtotal, later, frozen)
    OBVIOUS
  <2>3. d \in 0..subtotal
    BY <1>1, <2>1, <2>2, CapDiscountBounds DEF UpdateDiscount
  <2>4. PICK left \in Nat : left = subtotal - d
    BY <1>1, <2>3
  <2>5. PICK stored \in Seq(TaxLine) : stored = RecomputedTaxes(taxes, taxable)
    <3>1. RecomputedTaxes(taxes, taxable) \in Seq(TaxLine)
      BY TaxesTyped
    <3> QED BY <3>1, Zenon
  <2>6. /\ stored = <<>> <=> taxes = <<>>
        /\ RatedTaxes(stored, left) = RatedTaxes(taxes, left)
    BY <1>7, <2>5, RecomputedTaxesAre DEF Comes
  <2>7. PICK a, b : a = Amounts(subtotal, d, stored) /\ b = Amounts(subtotal, d, taxes)
    OBVIOUS
  <2>8. PICK dueA \in Nat, upA \in Nat : Comes(a, subtotal, stored, left, dueA, upA)
    BY <1>1, <2>3, <2>4, <2>7, AmountsAre
  <2>9. PICK dueB \in Nat, upB \in Nat : Comes(b, subtotal, taxes, left, dueB, upB)
    BY <1>1, <2>3, <2>4, <2>7, AmountsAre
  <2>10. dueA = dueB /\ upA = upB
    BY <2>6, <2>8, <2>9 DEF Comes
  <2>11. a.total = b.total
    BY <2>6, <2>8, <2>9, <2>10 DEF Comes
  <2>12. stored = new.taxes
    BY <1>7, <2>5 DEF Comes
  <2> QED BY <1>0, <2>2, <2>7, <2>11, <2>12 DEF UpdateAmounts
<1>13. /\ new.discount \in 0..subtotal
       /\ asked.points > 0 => new.discount <= balance * PaisePerPoint
       /\ new.total >= subtotal - new.discount
  BY <1>2, <1>5, <1>6, <1>10, <1>11
<1> QED BY <1>0, <1>11, <1>12, <1>13, Zenon DEF AddsUpFor

(* What a create and a later update bring a bill to adds up, whatever      *)
(* lines, taxes and discounts are tried (computeBillTotals).               *)
THEOREM UpsertAmountsAddUp == Spec => []AmountsAddUp
<1>1. TypeOK => AmountsAddUp
  <2>1. SUFFICES ASSUME TypeOK, NEW u \in Users PROVE AddsUp(BalanceOf(wallet[u]))
    BY DEF AmountsAddUp
  <2>2. PICK balance \in Nat : balance = BalanceOf(wallet[u])
    <3>1. wallet[u] \in WalletType \cup {NoWallet}
      BY <2>1 DEF TypeOK
    <3>2. BalanceOf(wallet[u]) \in Nat
      BY <3>1 DEF BalanceOf, WalletType
    <3> QED BY <3>2, Zenon
  <2>3. ASSUME NEW lines \in LineLists, NEW taxes \in TaxLists, NEW asked \in Asked,
               ~PointsRefused(asked.points, asked.stacked, TRUE)
        PROVE  AddsUpFor(lines, taxes, asked, balance)
    <3>1. lines \in Seq(LineItem) /\ taxes \in Seq(TaxLine) /\ asked \in Discounts
      BY AmountsAssumption
    <3> QED BY <2>3, <3>1, BillComesTo
  <2>4. AddsUp(balance)
    BY <2>3, Zenon DEF AddsUp
  <2> QED BY <2>2, <2>4
<1> QED BY <1>1, UpsertTypeOK, PTL

=============================================================================
