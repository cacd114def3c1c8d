---------------------------- MODULE BillAmounts ----------------------------
(***************************************************************************)
(* What a bill with line items comes to (computeBillTotals in              *)
(* api/billing/bill_with_line_items_totals.go): discounts capped at the    *)
(* subtotal, taxes on what is left, and the payable amount rounded up to   *)
(* a rupee by a "round off" line of its own.  Pure arithmetic, in paise.   *)
(*                                                                         *)
(* A tax line has a rate in basis points, or no rate and a fixed amount;   *)
(* "byId" and "byName" say that its id or its name calls it a round off.   *)
(***************************************************************************)
EXTENDS BillTotals, Functions

CONSTANTS
  LineLists,  \* bounded inputs: line items, each a price and a quantity,
  TaxLists,   \* taxes of a request,
  Asked       \* and discounts, see Discounts

LineItem == [price : Nat, quantity : Int]
TaxLine == [rate : Nat, amount : Nat, byId : BOOLEAN, byName : BOOLEAN]

(* A sum of other discounts is above zero only if one of them is.          *)
Discounts ==
  {d \in [points : Nat, other : Int, stacked : BOOLEAN] : d.other > 0 => d.stacked}

ASSUME AmountsAssumption ==
  /\ LineLists \subseteq Seq(LineItem)
  /\ TaxLists \subseteq Seq(TaxLine)
  /\ Asked \subseteq Discounts

(* Lines without a quantity are not charged *)
LinePrice(line) == IF line.quantity <= 0 THEN 0 ELSE line.price * line.quantity
LineItemsSubtotal(lines) == SumFunction([i \in DOMAIN lines |-> LinePrice(lines[i])])

IsRoundOff_byName(t) == t.rate = 0 /\ t.byName
IsRoundOff(t) == t.byId \/ (t.rate = 0 /\ t.byName)

(* math.Round: to the nearest paisa, halves up *)
RateAmount(rate, taxable) == (2 * taxable * rate + 10000) \div 20000
Taxed(t, taxable) == IF t.rate > 0 THEN [t EXCEPT !.amount = RateAmount(t.rate, taxable)] ELSE t

AmountsOf(taxes) == [i \in DOMAIN taxes |-> taxes[i].amount]
SumTaxes(taxes) == SumFunction(AmountsOf(taxes))

(* What is missing to the next whole rupee *)
RoundOff(paise) == (100 - (paise % 100)) % 100
RoundOffLine(paise) == [rate |-> 0, amount |-> paise, byId |-> TRUE, byName |-> TRUE]

(* The taxes of a request on what is left of the subtotal, without its     *)
(* round-off lines                                                         *)
RatedTaxes(taxes, taxable) ==
  LET out[n \in 0..Len(taxes)] ==
        IF n = 0 THEN <<>>
        ELSE IF IsRoundOff(taxes[n]) THEN out[n - 1]
        ELSE Append(out[n - 1], Taxed(taxes[n], taxable))
  IN out[Len(taxes)]

(* A round-off line is added anew; a bill without taxes is not rounded. *)
RecomputedTaxes(taxes, taxable) ==
  LET rated == RatedTaxes(taxes, taxable)
      roundOff == RoundOff(taxable + SumTaxes(rated))
      hasRoundOff == \E i \in DOMAIN taxes : IsRoundOff(taxes[i])
  IN IF taxes # <<>> /\ (roundOff > 0 \/ hasRoundOff)
       THEN Append(rated, RoundOffLine(roundOff)) ELSE rated

Amounts(subtotal, discount, taxes) ==
  LET taxable == subtotal - discount
      lines == RecomputedTaxes(taxes, taxable)
  IN [discount |-> discount, taxes |-> lines, tax |-> SumTaxes(lines),
      total |-> taxable + SumTaxes(lines)]

(* A new bill takes off the points it redeems and the other discounts; an  *)
(* update the points it redeemed at create, and other discounts.           *)
PointsDiscount(subtotal, asked, balance) ==
  IF asked.points > 0
    THEN PaisePerPoint * RedeemedPoints(subtotal, asked.points, asked.other, balance) ELSE 0
CreateDiscount(subtotal, asked, balance) ==
  CapDiscount(asked.other + PointsDiscount(subtotal, asked, balance), subtotal)
UpdateDiscount(subtotal, asked, frozen) == CapDiscount(frozen + asked.other, subtotal)

CreateAmounts(lines, asked, taxes, balance) ==
  LET subtotal == LineItemsSubtotal(lines)
  IN Amounts(subtotal, CreateDiscount(subtotal, asked, balance), taxes)
UpdateAmounts(lines, asked, taxes, frozen) ==
  LET subtotal == LineItemsSubtotal(lines)
  IN Amounts(subtotal, UpdateDiscount(subtotal, asked, frozen), taxes)

-----------------------------------------------------------------------------
(* For all those inputs and a wallet of that balance.  A discount never    *)
(* exceeds the subtotal nor points the balance; a taxed bill comes to      *)
(* whole rupees, less than one above what is due.  And an update that is   *)
(* sent the taxes the create stored, its round off among them, comes to    *)
(* what it would come to with the taxes as first asked for, whatever       *)
(* discount is new.                                                        *)
DueTaxes(taxes) == {i \in DOMAIN taxes : ~(taxes[i].byId \/ (taxes[i].rate = 0 /\ taxes[i].byName))}
Due(amounts, subtotal) ==
  subtotal - amounts.discount
    + SumFunctionOnSet(AmountsOf(amounts.taxes), DueTaxes(amounts.taxes))

AddsUpFor(lines, taxes, asked, balance) ==
  LET subtotal == LineItemsSubtotal(lines)
      new == CreateAmounts(lines, asked, taxes, balance)
      frozen == PointsDiscount(subtotal, asked, balance)
  IN /\ new.discount \in 0..subtotal
     /\ asked.points > 0 => new.discount <= balance * PaisePerPoint
     /\ new.total >= subtotal - new.discount
     /\ taxes # <<>> => new.total % 100 = 0 /\ new.total - Due(new, subtotal) \in 0..99
     /\ \A later \in Asked :
          UpdateAmounts(lines, later, new.taxes, frozen).total =
            UpdateAmounts(lines, later, taxes, frozen).total

AddsUp(balance) ==
  \A lines \in LineLists, taxes \in TaxLists, asked \in Asked :
    ~PointsRefused(asked.points, asked.stacked, TRUE) => AddsUpFor(lines, taxes, asked, balance)

=============================================================================
