------------------------ MODULE KitchenOrder_proofs ------------------------
(***************************************************************************)
(* The order for any number of calls, lines, units and edits.              *)
(*                                                                         *)
(* Two of the invariants are of rows: every operation turns a row that     *)
(* shows its pending units and charges for its billable ones into another  *)
(* such row, so it does not matter which of the rows in memory is put      *)
(* last.  The other two relate a row in memory to the stored one, for a    *)
(* call that nobody overtook since it read: what is cancelled is cancelled *)
(* in both, and what a done order allows is all that is about to change.   *)
(***************************************************************************)
EXTENDS KitchenOrder, Sums_proofs

(* Rows *)
StoredLine == {l \in LineType : l.units # <<>>}
Items == UNION {[D -> StoredLine] : D \in {E \in SUBSET Lines : IsFiniteSet(E)}}
Rows == [items : Items, kitchen : Statuses, done : BOOLEAN, total : Nat, manual : BOOLEAN]

(* A total not set by hand covers the units not cancelled. *)
Covered(o) == o.manual \/ o.total >= SumLineItems(o.items)
CoveredRows == {o \in Rows : Covered(o)}

(* Unless an order is pending or preparing, it has no pending unit. *)
Shown(o) == o.kitchen \in {"pending", "preparing"} \/ PendingUnits(o) = {}
GoodRows == {o \in CoveredRows : Shown(o)}

(* p has the lines and units of o, and what o has cancelled. *)
KeepsCancelled(o, p) ==
  /\ DOMAIN p.items = DOMAIN o.items
  /\ \A l \in DOMAIN o.items :
       /\ DOMAIN p.items[l].units = DOMAIN o.items[l].units
       /\ \A i \in DOMAIN o.items[l].units :
            o.items[l].units[i] = "cancelled" => p.items[l].units[i] = "cancelled"

(* What may become of a row o marked done. *)
Allowed(o, p) ==
  o.done => /\ p.done /\ SameLines(o, p)
            /\ OnlyUnitsMoved(o, p) \/ OnlyCharged(o, p)

(* A call about to put that nobody overtook. *)
Fresh(c) ==
  call[c].step = "put" /\ call[c].clean =>
    /\ call[c].op # "newItems" => KeepsCancelled(order, call[c].row)
    /\ Allowed(order, call[c].row)

IInv ==
  /\ order \in GoodRows
  /\ call \in [Calls -> [step : {"idle", "put", "done"}, op : Ops, row : GoodRows,
                         clean : BOOLEAN]]
  /\ \A c \in Calls : Fresh(c)

-----------------------------------------------------------------------------
(* Items *)

(* Items by their domain and their lines. *)
LEMMA ItemsIntro ==
  ASSUME NEW f, NEW D \in SUBSET Lines, IsFiniteSet(D), f \in [D -> StoredLine]
  PROVE  f \in Items
BY DEF Items

LEMMA ItemsElim ==
  ASSUME NEW f \in Items
  PROVE  /\ DOMAIN f \in SUBSET Lines /\ IsFiniteSet(DOMAIN f)
         /\ f \in [DOMAIN f -> StoredLine]
         /\ \A l \in DOMAIN f : f[l] \in LineType /\ f[l].units \in Seq(UnitStates)
<1>1. PICK D \in SUBSET Lines : IsFiniteSet(D) /\ f \in [D -> StoredLine]
  BY DEF Items
<1>2. DOMAIN f = D
  BY <1>1
<1>. QED  BY <1>1, <1>2 DEF StoredLine, LineType

(* Whatever a client sends becomes a line with one state per unit. *)
LEMMA NormalizeType == ASSUME NEW item \in ItemType PROVE Normalize(item) \in StoredLine
<1> DEFINE qty == IF item.quantity <= 0 THEN 1 ELSE item.quantity
           Unit(i) == IF item.units = <<>> THEN LegacyUnit(item.status)
                      ELSE IF i <= Len(item.units) THEN item.units[i]
                      ELSE PaddedUnit(item.status)
           units == [i \in 1..qty |-> Unit(i)]
<1>1. /\ item.quantity \in Int /\ item.units \in Seq(UnitStates)
      /\ item.price \in Nat /\ item.removed \in BOOLEAN
  BY DEF ItemType
<1>2. qty \in Nat /\ qty > 0
  BY <1>1
<1>3. LegacyUnit(item.status) \in UnitStates /\ PaddedUnit(item.status) \in UnitStates
  BY DEF LegacyUnit, PaddedUnit, UnitStates
<1>4. \A i \in 1..qty : i <= Len(item.units) => item.units[i] \in UnitStates
  BY <1>1, <1>2
<1>5. \A i \in 1..qty : Unit(i) \in UnitStates
  BY <1>3, <1>4
<1> HIDE DEF qty, Unit
<1>6. units \in Seq(UnitStates) /\ units # <<>>
  <2>1. units \in Seq(UnitStates)
    BY <1>2, <1>5
  <2>2. DOMAIN units # {}
    BY <1>2
  <2>. QED  BY <2>1, <2>2
<1>7. Normalize(item) = [units |-> units, price |-> item.price, removed |-> item.removed]
  BY DEF Normalize, units, Unit, qty
<1> HIDE DEF units
<1>. QED  BY <1>1, <1>6, <1>7 DEF LineType, StoredLine

LEMMA NormalizeAllType == ASSUME NEW t \in Tickets PROVE NormalizeAll(t) \in Items
<1>1. /\ DOMAIN t \in SUBSET Lines /\ IsFiniteSet(DOMAIN t)
      /\ \A l \in DOMAIN t : t[l] \in ItemType
  BY KitchenAssumption
<1>2. NormalizeAll(t) \in [DOMAIN t -> StoredLine]
  BY <1>1, NormalizeType DEF NormalizeAll
<1>. QED  BY <1>1, <1>2, ItemsIntro

LEMMA SeqDomain ==
  ASSUME NEW units \in Seq(UnitStates)
  PROVE  units # <<>> <=> DOMAIN units # {}
<1>1. DOMAIN units = 1..Len(units) /\ Len(units) \in Nat
  OBVIOUS
<1>2. units # <<>> => Len(units) # 0
  OBVIOUS
<1>3. units # <<>> => 1 \in DOMAIN units
  BY <1>1, <1>2
<1>4. units = <<>> => DOMAIN units = {}
  OBVIOUS
<1>. QED  BY <1>3, <1>4

(* Setting the units of a line to a status leaves no pending unit, unless  *)
(* the status is pending or preparing, and revives no cancelled one.       *)
LEMMA UnitsAsType ==
  ASSUME NEW units \in Seq(UnitStates), NEW s \in Statuses
  PROVE  /\ UnitsAs(units, s) \in Seq(UnitStates)
         /\ DOMAIN UnitsAs(units, s) = DOMAIN units
         /\ units # <<>> => UnitsAs(units, s) # <<>>
         /\ \A i \in DOMAIN units : units[i] = "cancelled" => UnitsAs(units, s)[i] = "cancelled"
         /\ s \notin {"pending", "preparing"} =>
              \A i \in DOMAIN units : UnitsAs(units, s)[i] # "pending"
<1>1. DOMAIN units = 1..Len(units) /\ Len(units) \in Nat
  OBVIOUS
<1>2. LegacyUnit(s) \in UnitStates
  BY DEF LegacyUnit, UnitStates
<1>3. "cancelled" \in UnitStates
  BY DEF UnitStates
<1>4. UnitsAs(units, s) \in Seq(UnitStates)
  BY <1>1, <1>2, <1>3 DEF UnitsAs
<1>5. s \notin {"pending", "preparing"} => LegacyUnit(s) # "pending"
  BY DEF LegacyUnit, Statuses
<1>6. DOMAIN UnitsAs(units, s) = DOMAIN units
  BY DEF UnitsAs
<1>7. units # <<>> => UnitsAs(units, s) # <<>>
  BY <1>4, <1>6, SeqDomain
<1>. QED  BY <1>4, <1>5, <1>6, <1>7 DEF UnitsAs

(* A line set to a status stays a line, with its price and whether it was  *)
(* removed.                                                                *)
LEMMA LineAsType ==
  ASSUME NEW line \in StoredLine, NEW s \in Statuses, NEW new,
         new = [line EXCEPT !.units = UnitsAs(line.units, s)]
  PROVE  /\ new \in StoredLine /\ new.units = UnitsAs(line.units, s)
         /\ new.price = line.price /\ new.removed = line.removed
<1>1. line \in LineType /\ line.units \in Seq(UnitStates) /\ line.units # <<>>
  BY DEF StoredLine, LineType
<1>2. UnitsAs(line.units, s) \in Seq(UnitStates) /\ UnitsAs(line.units, s) # <<>>
  BY <1>1, UnitsAsType
<1>. QED  BY <1>1, <1>2 DEF StoredLine, LineType

LEMMA ApplyToAllType ==
  ASSUME NEW i \in Items, NEW s \in Statuses
  PROVE  /\ ApplyToAll(i, s) \in Items
         /\ DOMAIN ApplyToAll(i, s) = DOMAIN i
         /\ \A l \in DOMAIN i : /\ ApplyToAll(i, s)[l].units = UnitsAs(i[l].units, s)
                               /\ ApplyToAll(i, s)[l].price = i[l].price
                               /\ ApplyToAll(i, s)[l].removed = i[l].removed
<1>1. /\ DOMAIN i \in SUBSET Lines /\ IsFiniteSet(DOMAIN i)
      /\ \A l \in DOMAIN i : i[l] \in StoredLine
  BY ItemsElim
<1>2. \A l \in DOMAIN i :
        /\ ApplyToAll(i, s)[l] \in StoredLine
        /\ ApplyToAll(i, s)[l].units = UnitsAs(i[l].units, s)
        /\ ApplyToAll(i, s)[l].price = i[l].price
        /\ ApplyToAll(i, s)[l].removed = i[l].removed
  <2> TAKE l \in DOMAIN i
  <2>1. ApplyToAll(i, s)[l] = [i[l] EXCEPT !.units = UnitsAs(i[l].units, s)]
    BY DEF ApplyToAll
  <2>. QED  BY <1>1, <2>1, LineAsType
<1>3. DOMAIN ApplyToAll(i, s) = DOMAIN i
  BY DEF ApplyToAll
<1>4. ApplyToAll(i, s) \in [DOMAIN i -> StoredLine]
  BY <1>2 DEF ApplyToAll
<1>. QED  BY <1>1, <1>2, <1>3, <1>4, ItemsIntro

-----------------------------------------------------------------------------
(* Sums *)

LEMMA QtyType ==
  ASSUME NEW line \in LineType
  PROVE  /\ BillableQty(line) \in Nat
         /\ IsFiniteSet({i \in DOMAIN line.units : line.units[i] # "cancelled"})
<1> DEFINE D == DOMAIN line.units
           B == {i \in D : line.units[i] # "cancelled"}
<1>1. D = 1..Len(line.units) /\ Len(line.units) \in Nat
  BY DEF LineType
<1>2. IsFiniteSet(D)
  BY <1>1, FS_Interval
<1>3. IsFiniteSet(B) /\ Cardinality(B) \in Nat
  <2>1. B \in SUBSET D
    OBVIOUS
  <2> HIDE DEF B, D
  <2>. QED  BY <1>2, <2>1, FS_Subset, FS_CardinalityType
<1>. QED  BY <1>3 DEF BillableQty

(* Cancelling units makes no line dearer. *)
LEMMA QtyLess ==
  ASSUME NEW a \in LineType, NEW b \in LineType, a.removed = b.removed,
         DOMAIN b.units = DOMAIN a.units,
         \A i \in DOMAIN a.units : a.units[i] = "cancelled" => b.units[i] = "cancelled"
  PROVE  BillableQty(b) <= BillableQty(a)
<1> DEFINE A == {i \in DOMAIN a.units : a.units[i] # "cancelled"}
           B == {i \in DOMAIN b.units : b.units[i] # "cancelled"}
<1>1. B \in SUBSET A
  OBVIOUS
<1>2. IsFiniteSet(A)
  BY QtyType
<1>3. Cardinality(B) <= Cardinality(A)
  <2> HIDE DEF A, B
  <2>. QED  BY <1>1, <1>2, FS_Subset
<1>. QED  BY <1>3 DEF BillableQty

LEMMA Multiples ==
  /\ \A m, n \in Nat : m * n \in Nat
  /\ \A m, n, k \in Nat : n <= k => m * n <= m * k
OBVIOUS

LEMMA SumLineItemsType ==
  ASSUME NEW i \in Items
  PROVE  SumLineItems(i) \in Nat
<1> DEFINE cost == [l \in DOMAIN i |-> i[l].price * BillableQty(i[l])]
<1>1. \A l \in DOMAIN i : i[l].price \in Nat /\ BillableQty(i[l]) \in Nat
  BY ItemsElim, QtyType DEF LineType
<1>2. \A l \in DOMAIN i : cost[l] \in Nat
  BY <1>1, Multiples
<1>3. IsFiniteSet(DOMAIN i) /\ DOMAIN cost = DOMAIN i
  BY ItemsElim
<1> HIDE DEF cost
<1>4. SumFunctionOnSet(cost, DOMAIN i) \in Nat
  BY <1>2, <1>3, SumIsNat
<1>. QED  BY <1>3, <1>4 DEF SumLineItems, SumFunction, cost

(* Nor does cancelling units make an order dearer. *)
LEMMA SumLineItemsLess ==
  ASSUME NEW i \in Items, NEW j \in Items, DOMAIN j = DOMAIN i,
         \A l \in DOMAIN i : /\ j[l].price = i[l].price /\ j[l].removed = i[l].removed
                           /\ DOMAIN j[l].units = DOMAIN i[l].units,
         \A l \in DOMAIN i : \A u \in DOMAIN i[l].units :
           i[l].units[u] = "cancelled" => j[l].units[u] = "cancelled"
  PROVE  SumLineItems(j) <= SumLineItems(i)
<1> DEFINE old == [l \in DOMAIN i |-> i[l].price * BillableQty(i[l])]
           new == [l \in DOMAIN j |-> j[l].price * BillableQty(j[l])]
<1>1. \A l \in DOMAIN i : /\ i[l] \in LineType /\ j[l] \in LineType
                          /\ i[l].price \in Nat
                          /\ BillableQty(i[l]) \in Nat /\ BillableQty(j[l]) \in Nat
  BY ItemsElim, QtyType DEF LineType
<1>2. \A l \in DOMAIN i : BillableQty(j[l]) <= BillableQty(i[l])
  BY <1>1, QtyLess
<1>3. \A l \in DOMAIN i : /\ old[l] \in Int /\ new[l] \in Int /\ new[l] <= old[l]
  <2> TAKE l \in DOMAIN i
  <2>1. PICK m \in Nat, n \in Nat, k \in Nat :
          m = i[l].price /\ n = BillableQty(j[l]) /\ k = BillableQty(i[l]) /\ n <= k
    BY <1>1, <1>2
  <2>2. old[l] = m * k /\ new[l] = m * n
    BY <2>1
  <2>3. m * k \in Nat /\ m * n \in Nat /\ m * n <= m * k
    BY <2>1, Multiples
  <2>. QED  BY <2>2, <2>3
<1>4. IsFiniteSet(DOMAIN i) /\ DOMAIN old = DOMAIN i /\ DOMAIN new = DOMAIN i
  BY ItemsElim
<1> HIDE DEF old, new
<1>5. SumFunctionOnSet(new, DOMAIN i) <= SumFunctionOnSet(old, DOMAIN i)
  BY <1>3, <1>4, SumMonotone
<1>. QED  BY <1>4, <1>5 DEF SumLineItems, SumFunction, old, new

-----------------------------------------------------------------------------
(* Rows *)

(* Of a row, the units of its items alone determine which are pending. *)
LEMMA UnitsWithin ==
  ASSUME NEW o, NEW p, DOMAIN o.items = DOMAIN p.items,
         \A l \in DOMAIN o.items : o.items[l].units = p.items[l].units
  PROVE  PendingUnits(o) \subseteq PendingUnits(p)
<1>1. SUFFICES ASSUME NEW u \in PendingUnits(o) PROVE u \in PendingUnits(p)
  OBVIOUS
<1>2. PICK l \in DOMAIN o.items : \E i \in DOMAIN o.items[l].units :
        u = <<l, i>> /\ o.items[l].units[i] = "pending"
  BY DEF PendingUnits
<1>3. l \in DOMAIN p.items /\ p.items[l].units = o.items[l].units
  BY <1>2
<1>. QED  BY <1>2, <1>3 DEF PendingUnits

LEMMA SameUnits ==
  ASSUME NEW o, NEW p, DOMAIN o.items = DOMAIN p.items,
         \A l \in DOMAIN o.items : o.items[l].units = p.items[l].units
  PROVE  PendingUnits(o) = PendingUnits(p)
<1>1. PendingUnits(o) \subseteq PendingUnits(p)
  BY UnitsWithin
<1>2. DOMAIN p.items = DOMAIN o.items
  OBVIOUS
<1>3. \A l \in DOMAIN p.items : p.items[l].units = o.items[l].units
  OBVIOUS
<1>4. PendingUnits(p) \subseteq PendingUnits(o)
  BY <1>2, <1>3, UnitsWithin
<1>. QED  BY <1>1, <1>4

LEMMA RowFields ==
  ASSUME NEW o \in Rows
  PROVE  /\ o.items \in Items /\ o.kitchen \in Statuses /\ o.done \in BOOLEAN
         /\ o.total \in Nat /\ o.manual \in BOOLEAN
         /\ o = [items |-> o.items, kitchen |-> o.kitchen, done |-> o.done,
                 total |-> o.total, manual |-> o.manual]
BY DEF Rows

(* A row's lines are stored lines. *)
LEMMA RowLines ==
  ASSUME NEW o \in Rows
  PROVE  /\ DOMAIN o.items \in SUBSET Lines /\ IsFiniteSet(DOMAIN o.items)
         /\ o.items \in [DOMAIN o.items -> StoredLine]
         /\ \A l \in DOMAIN o.items :
              o.items[l] \in StoredLine /\ o.items[l].units \in Seq(UnitStates)
BY RowFields, ItemsElim

LEMMA KeepsSame ==
  ASSUME NEW o, NEW p, DOMAIN p.items = DOMAIN o.items,
         \A l \in DOMAIN o.items : p.items[l].units = o.items[l].units
  PROVE  KeepsCancelled(o, p)
BY DEF KeepsCancelled

LEMMA KeepsTransitive ==
  ASSUME NEW o, NEW p, NEW q, KeepsCancelled(o, p), KeepsCancelled(p, q)
  PROVE  KeepsCancelled(o, q)
BY DEF KeepsCancelled

Totalled(o, n) == [o EXCEPT !.total = n, !.manual = FALSE]

LEMMA TotalledRow ==
  ASSUME NEW o \in Rows, NEW n \in Nat
  PROVE  /\ Totalled(o, n) \in Rows /\ Totalled(o, n).items = o.items
         /\ Totalled(o, n).kitchen = o.kitchen
         /\ Totalled(o, n).done = o.done /\ Totalled(o, n).total = n
<1>1. PICK p : p = [o EXCEPT !.total = n, !.manual = FALSE]
  OBVIOUS
<1>2. /\ p \in Rows /\ p.items = o.items /\ p.kitchen = o.kitchen
      /\ p.done = o.done /\ p.total = n
  BY <1>1 DEF Rows
<1>. QED  BY <1>1, <1>2 DEF Totalled

(* A total added up covers the units exactly. *)
LEMMA AddedUpRow ==
  ASSUME NEW o \in Rows
  PROVE  /\ AddedUp(o) \in CoveredRows
         /\ AddedUp(o).items = o.items /\ AddedUp(o).kitchen = o.kitchen
         /\ AddedUp(o).done = o.done
         /\ AddedUp(o).total = SumLineItems(AddedUp(o).items)
<1>1. PICK n \in Nat : n = SumLineItems(o.items)
  BY RowFields, SumLineItemsType
<1> DEFINE p == AddedUp(o)
<1>2. p = Totalled(o, n)
  BY <1>1 DEF AddedUp, Totalled
<1> HIDE DEF p
<1>3. n \in Nat
  OBVIOUS
<1>4. /\ p \in Rows /\ p.items = o.items /\ p.kitchen = o.kitchen
      /\ p.done = o.done /\ p.total = n
  BY <1>2, <1>3, TotalledRow
<1>5. SumLineItems(p.items) = n
  BY <1>1, <1>4
<1>6. Covered(p)
  <2>1. p.total >= SumLineItems(p.items)
    BY <1>4, <1>5
  <2>. QED  BY <2>1 DEF Covered
<1>. QED  BY <1>4, <1>5, <1>6 DEF CoveredRows, p

(* The status recomputed from the units shows them, whatever it was. *)
LEMMA RecomputeGood ==
  ASSUME NEW o \in CoveredRows
  PROVE  /\ Recompute(o) \in GoodRows /\ Recompute(o).items = o.items
         /\ Recompute(o).done = o.done /\ Recompute(o).total = o.total
<1>1. PICK k \in Statuses : k = (IF PendingUnits(o) # {} THEN "pending" ELSE "ready")
  BY DEF Statuses
<1>2. Recompute(o) = [o EXCEPT !.kitchen = k]
  BY <1>1 DEF Recompute
<1> DEFINE p == Recompute(o)
<1>3. o \in Rows /\ Covered(o)
  BY DEF CoveredRows
<1>4. /\ p \in Rows /\ p.items = o.items /\ p.kitchen = k /\ p.done = o.done
      /\ p.total = o.total /\ p.manual = o.manual
  BY <1>2, <1>3 DEF Rows
<1> HIDE DEF p
<1>5. Covered(p)
  BY <1>3, <1>4 DEF Covered
<1>6. PendingUnits(p) = PendingUnits(o)
  BY <1>4, SameUnits
<1>7. Shown(p)
  BY <1>1, <1>4, <1>6 DEF Shown
<1>. QED  BY <1>4, <1>5, <1>7 DEF GoodRows, CoveredRows, p

(* Cancelling units, and touching nothing that is priced, keeps a total    *)
(* covering them.                                                          *)
LEMMA CheaperIsCovered ==
  ASSUME NEW o \in CoveredRows, NEW p \in Rows, KeepsCancelled(o, p),
         p.total = o.total, p.manual = o.manual,
         \A l \in DOMAIN o.items : /\ p.items[l].price = o.items[l].price
                                 /\ p.items[l].removed = o.items[l].removed
  PROVE  p \in CoveredRows
<1>1. o \in Rows /\ Covered(o)
  BY DEF CoveredRows
<1>2. o.items \in Items /\ p.items \in Items /\ DOMAIN p.items = DOMAIN o.items
  BY <1>1, RowFields DEF KeepsCancelled
<1>3. /\ \A l \in DOMAIN o.items : DOMAIN p.items[l].units = DOMAIN o.items[l].units
      /\ \A l \in DOMAIN o.items : \A u \in DOMAIN o.items[l].units :
           o.items[l].units[u] = "cancelled" => p.items[l].units[u] = "cancelled"
  BY DEF KeepsCancelled
<1>4. SumLineItems(p.items) <= SumLineItems(o.items)
  BY <1>2, <1>3, SumLineItemsLess
<1>5. SumLineItems(p.items) \in Nat /\ SumLineItems(o.items) \in Nat /\ o.total \in Nat
  BY <1>1, <1>2, SumLineItemsType, RowFields
<1>6. Covered(p)
  BY <1>1, <1>4, <1>5 DEF Covered
<1>. QED  BY <1>6 DEF CoveredRows

-----------------------------------------------------------------------------
(* Operations: what each makes of a row, and that it revives no unit *)

LEMMA NewOrderGood == ASSUME NEW t \in Tickets PROVE NewOrder(t) \in GoodRows
<1> DEFINE o == [items |-> NormalizeAll(t), kitchen |-> "pending", done |-> FALSE,
                 total |-> 0, manual |-> FALSE]
<1>1. o \in Rows
  BY NormalizeAllType DEF Rows, Statuses
<1>2. o.kitchen = "pending"
  OBVIOUS
<1> HIDE DEF o
<1>3. AddedUp(o) \in CoveredRows /\ AddedUp(o).kitchen = "pending"
  BY <1>1, <1>2, AddedUpRow
<1>. QED  BY <1>3 DEF NewOrder, o, GoodRows, Shown

LEMMA EmptyOrderGood == EmptyOrder \in GoodRows
<1>1. <<>> \in [{} -> StoredLine]
  OBVIOUS
<1>2. <<>> \in Items
  BY <1>1, FS_EmptySet, ItemsIntro
<1>3. EmptyOrder \in Rows
  BY <1>2 DEF EmptyOrder, Rows, Statuses
<1>4. SumLineItems(<<>>) = 0
  <2>1. DOMAIN <<>> = {}
    OBVIOUS
  <2>. QED  BY <2>1, SumEmpty DEF SumLineItems, SumFunction
<1>5. Covered(EmptyOrder)
  BY <1>4 DEF Covered, EmptyOrder
<1>. QED  BY <1>3, <1>5 DEF CoveredRows, GoodRows, Shown, EmptyOrder

LEMMA WithItemsRow ==
  ASSUME NEW o \in CoveredRows, NEW t \in Tickets \cup {NoTicket}
  PROVE  WithItems(o, t) \in CoveredRows
<1>1. CASE t = NoTicket
  BY <1>1 DEF WithItems
<1>2. CASE t # NoTicket
  <2>1. [o EXCEPT !.items = NormalizeAll(t)] \in Rows
    BY <1>2, NormalizeAllType DEF CoveredRows, Rows
  <2>. QED  BY <1>2, <2>1, AddedUpRow DEF WithItems
<1>. QED  BY <1>1, <1>2

LEMMA KitchenPatchedGood ==
  ASSUME NEW o \in CoveredRows, NEW s \in Statuses
  PROVE  /\ KitchenPatched(o, s) \in GoodRows /\ KeepsCancelled(o, KitchenPatched(o, s))
         /\ KitchenPatched(o, s).done = o.done /\ OnlyUnitsMoved(o, KitchenPatched(o, s))
<1> DEFINE i == ApplyToAll(o.items, s)
           p == KitchenPatched(o, s)
<1>1. o \in Rows
  BY DEF CoveredRows
<1>2. i \in Items
  BY <1>1, RowFields, ApplyToAllType
<1>3. /\ DOMAIN i = DOMAIN o.items
      /\ \A l \in DOMAIN o.items :
           /\ i[l].units = UnitsAs(o.items[l].units, s)
           /\ i[l].price = o.items[l].price /\ i[l].removed = o.items[l].removed
  BY <1>1, RowFields, ApplyToAllType
<1> HIDE DEF i
<1>4. /\ p \in Rows /\ p.items = i /\ p.kitchen = s /\ p.done = o.done
      /\ p.total = o.total /\ p.manual = o.manual
  BY <1>1, <1>2 DEF KitchenPatched, Rows, i
<1> HIDE DEF p
<1>5. \A l \in DOMAIN o.items :
        /\ DOMAIN i[l].units = DOMAIN o.items[l].units
        /\ \A u \in DOMAIN o.items[l].units :
             o.items[l].units[u] = "cancelled" => i[l].units[u] = "cancelled"
        /\ s \notin {"pending", "preparing"} =>
             \A u \in DOMAIN o.items[l].units : i[l].units[u] # "pending"
  BY <1>1, <1>3, RowLines, UnitsAsType
<1>6. KeepsCancelled(o, p)
  BY <1>3, <1>4, <1>5 DEF KeepsCancelled
<1>7. p \in CoveredRows
  BY <1>3, <1>4, <1>6, CheaperIsCovered
<1>8. Shown(p)
  BY <1>3, <1>4, <1>5 DEF Shown, PendingUnits
<1>9. OnlyUnitsMoved(o, p)
  BY <1>3, <1>4 DEF OnlyUnitsMoved
<1>. QED  BY <1>4, <1>6, <1>7, <1>8, <1>9 DEF GoodRows, p

LEMMA WithStatusRow ==
  ASSUME NEW o \in CoveredRows, NEW s \in Statuses \cup {NoStatus}
  PROVE  WithStatus(o, s) \in CoveredRows /\ KeepsCancelled(o, WithStatus(o, s))
<1>1. CASE s = NoStatus
  <2>1. KeepsCancelled(o, o)
    BY KeepsSame
  <2>. QED  BY <1>1, <2>1 DEF WithStatus
<1>2. CASE s # NoStatus
  <2>1. WithStatus(o, s) = KitchenPatched(o, s)
    BY <1>2 DEF WithStatus, KitchenPatched
  <2>. QED  BY <1>2, <2>1, KitchenPatchedGood DEF GoodRows
<1>. QED  BY <1>1, <1>2

(* A removed line stays a line. *)
LEMMA RemovedLine ==
  ASSUME NEW line \in StoredLine, NEW new,
         new = [line EXCEPT !.removed = TRUE, !.units = UnitsAs(line.units, "cancelled")]
  PROVE  new \in StoredLine /\ new.units = UnitsAs(line.units, "cancelled")
<1>1. line \in LineType /\ line.units \in Seq(UnitStates) /\ line.units # <<>>
  BY DEF StoredLine, LineType
<1>2. UnitsAs(line.units, "cancelled") \in Seq(UnitStates) /\ UnitsAs(line.units, "cancelled") # <<>>
  BY <1>1, UnitsAsType DEF Statuses
<1>. QED  BY <1>1, <1>2 DEF StoredLine, LineType

LEMMA WithoutLinesRow ==
  ASSUME NEW o \in CoveredRows, NEW gone \in SUBSET Lines
  PROVE  WithoutLines(o, gone) \in CoveredRows /\ KeepsCancelled(o, WithoutLines(o, gone))
<1> DEFINE i == Removed(o.items, gone)
           q == [o EXCEPT !.items = i]
<1>1. CASE gone = {}
  <2>1. KeepsCancelled(o, o)
    BY KeepsSame
  <2>. QED  BY <1>1, <2>1 DEF WithoutLines
<1>2. CASE gone # {}
  <2>1. o \in Rows
    BY DEF CoveredRows
  <2>2. \A l \in DOMAIN o.items :
          o.items[l] \in StoredLine /\ o.items[l].units \in Seq(UnitStates)
    BY <2>1, RowLines
  <2>3. DOMAIN i = DOMAIN o.items
    BY DEF Removed
  <2>4. \A l \in DOMAIN o.items :
          /\ i[l] \in StoredLine
          /\ i[l].units = o.items[l].units \/ i[l].units = UnitsAs(o.items[l].units, "cancelled")
    <3> TAKE l \in DOMAIN o.items
    <3>1. CASE l \in gone
      <4>1. i[l] = [o.items[l] EXCEPT !.removed = TRUE,
                                      !.units = UnitsAs(o.items[l].units, "cancelled")]
        BY <3>1 DEF Removed
      <4>. QED  BY <2>2, <4>1, RemovedLine
    <3>2. CASE l \notin gone
      BY <2>2, <3>2 DEF Removed
    <3>. QED  BY <3>1, <3>2
  <2>5. i \in [DOMAIN o.items -> StoredLine]
    BY <2>4 DEF Removed
  <2> HIDE DEF i
  <2>6. i \in Items
    BY <2>1, <2>5, RowLines, ItemsIntro
  <2>7. q \in Rows /\ q.items = i
    BY <2>1, <2>6 DEF Rows
  <2> HIDE DEF q
  <2>8. AddedUp(q) \in CoveredRows /\ AddedUp(q).items = i
    BY <2>7, AddedUpRow
  <2>9. "cancelled" \in Statuses
    BY DEF Statuses
  <2>10. \A l \in DOMAIN o.items :
           /\ DOMAIN i[l].units = DOMAIN o.items[l].units
           /\ \A u \in DOMAIN o.items[l].units :
                o.items[l].units[u] = "cancelled" => i[l].units[u] = "cancelled"
    BY <2>2, <2>4, <2>9, UnitsAsType
  <2>11. KeepsCancelled(o, AddedUp(q))
    BY <2>3, <2>8, <2>10 DEF KeepsCancelled
  <2>12. WithoutLines(o, gone) = AddedUp(q)
    BY <1>2 DEF WithoutLines, q, i
  <2>. QED  BY <2>8, <2>11, <2>12
<1>. QED  BY <1>1, <1>2

(* A total set by hand is the waiter's own. *)
LEMMA WithTotalGood ==
  ASSUME NEW o \in GoodRows, NEW t \in Nat \cup {NoTotal}
  PROVE  WithTotal(o, t) \in GoodRows /\ WithTotal(o, t).items = o.items
<1>1. CASE t = NoTotal
  BY <1>1 DEF WithTotal
<1>2. CASE t # NoTotal
  <2> DEFINE p == WithTotal(o, t)
  <2>1. p \in Rows /\ p.items = o.items /\ p.kitchen = o.kitchen /\ p.manual
    BY <1>2 DEF WithTotal, GoodRows, CoveredRows, Rows
  <2> HIDE DEF p
  <2>2. PendingUnits(p) = PendingUnits(o)
    BY <2>1, SameUnits
  <2>. QED  BY <2>1, <2>2 DEF GoodRows, CoveredRows, Covered, Shown, p
<1>. QED  BY <1>1, <1>2

LEMMA EditedGood ==
  ASSUME NEW o \in CoveredRows, NEW r \in EditType
  PROVE  /\ Edited(o, r) \in GoodRows
         /\ r.items = NoTicket => KeepsCancelled(o, Edited(o, r))
<1>1. /\ r.items \in Tickets \cup {NoTicket} /\ r.kitchen \in Statuses \cup {NoStatus}
      /\ r.done \in BOOLEAN /\ r.remove \in SUBSET Lines /\ r.total \in Nat \cup {NoTotal}
  BY DEF EditType
<1> DEFINE p == WithItems(o, r.items)
           q == WithStatus(p, r.kitchen)
           changed == WithoutLines(q, r.remove)
           marked == [changed EXCEPT !.done = changed.done \/ r.done]
           final == WithTotal(Recompute(marked), r.total)
<1>2. p \in CoveredRows /\ (r.items = NoTicket => p = o)
  BY <1>1, WithItemsRow DEF WithItems
<1> HIDE DEF p
<1>3. q \in CoveredRows /\ KeepsCancelled(p, q)
  BY <1>1, <1>2, WithStatusRow
<1> HIDE DEF q
<1>4. changed \in CoveredRows /\ KeepsCancelled(q, changed)
  BY <1>1, <1>3, WithoutLinesRow
<1> HIDE DEF changed
<1>5. marked \in CoveredRows /\ marked.items = changed.items
  <2>1. PICK b \in BOOLEAN : b = (changed.done \/ r.done)
    OBVIOUS
  <2>2. changed \in Rows /\ Covered(changed)
    BY <1>4 DEF CoveredRows
  <2>3. /\ marked \in Rows /\ marked.items = changed.items
        /\ marked.total = changed.total /\ marked.manual = changed.manual
    BY <2>1, <2>2 DEF Rows
  <2>. QED  BY <2>2, <2>3 DEF CoveredRows, Covered
<1> HIDE DEF marked
<1>6. Recompute(marked) \in GoodRows /\ Recompute(marked).items = marked.items
  BY <1>5, RecomputeGood
<1>7. final \in GoodRows /\ final.items = changed.items
  BY <1>1, <1>5, <1>6, WithTotalGood
<1> HIDE DEF final
<1>8. KeepsCancelled(changed, final)
  BY <1>7, KeepsSame
<1>9. KeepsCancelled(p, final)
  BY <1>3, <1>4, <1>8, KeepsTransitive
<1>. QED  BY <1>2, <1>7, <1>9 DEF Edited, final, marked, changed, q, p

(* A line with other units. *)
LEMMA LineWithUnits ==
  ASSUME NEW line \in StoredLine, NEW u \in Seq(UnitStates), u # <<>>,
         NEW new, new = [line EXCEPT !.units = u]
  PROVE  /\ new \in StoredLine /\ new.units = u
         /\ new.price = line.price /\ new.removed = line.removed
BY DEF StoredLine, LineType

(* Putting back a row with other units on one line. *)
LEMMA UnitsPutRow ==
  ASSUME NEW o \in Rows, NEW l \in DOMAIN o.items,
         NEW u \in Seq(UnitStates), DOMAIN u = DOMAIN o.items[l].units,
         \A i \in DOMAIN u : o.items[l].units[i] = "cancelled" => u[i] = "cancelled",
         NEW p, p = [o EXCEPT !.items[l].units = u]
  PROVE  /\ p \in Rows /\ KeepsCancelled(o, p)
         /\ p.kitchen = o.kitchen /\ p.done = o.done
         /\ p.total = o.total /\ p.manual = o.manual
         /\ \A m \in DOMAIN o.items : /\ p.items[m].price = o.items[m].price
                                    /\ p.items[m].removed = o.items[m].removed
<1> DEFINE line == [o.items[l] EXCEPT !.units = u]
           i == [o.items EXCEPT ![l] = line]
<1>1. o.items[l] \in StoredLine /\ o.items[l].units # <<>> /\ o.items[l].units \in Seq(UnitStates)
  BY RowLines DEF StoredLine
<1>2. u # <<>>
  BY <1>1, SeqDomain
<1>3. /\ line \in StoredLine /\ line.units = u
      /\ line.price = o.items[l].price /\ line.removed = o.items[l].removed
  BY <1>1, <1>2, LineWithUnits
<1>4. p = [o EXCEPT !.items = i]
  BY DEF Rows
<1> HIDE DEF line
<1>5. /\ DOMAIN i = DOMAIN o.items /\ i \in [DOMAIN o.items -> StoredLine]
      /\ i[l] = line /\ \A m \in DOMAIN o.items : m # l => i[m] = o.items[m]
  BY <1>3, RowLines
<1> HIDE DEF i
<1>6. i \in Items
  BY <1>5, RowLines, ItemsIntro
<1>7. /\ p \in Rows /\ p.items = i /\ p.kitchen = o.kitchen /\ p.done = o.done
      /\ p.total = o.total /\ p.manual = o.manual
  BY <1>4, <1>6 DEF Rows
<1>8. KeepsCancelled(o, p)
  BY <1>3, <1>5, <1>7 DEF KeepsCancelled
<1>. QED  BY <1>3, <1>5, <1>7, <1>8

LEMMA LinePatchedGood ==
  ASSUME NEW o \in CoveredRows, NEW l \in DOMAIN o.items, NEW s \in Statuses
  PROVE  /\ LinePatched(o, l, s) \in GoodRows /\ KeepsCancelled(o, LinePatched(o, l, s))
         /\ LinePatched(o, l, s).done = o.done /\ OnlyUnitsMoved(o, LinePatched(o, l, s))
<1> DEFINE u == UnitsAs(o.items[l].units, s)
           p == [o EXCEPT !.items[l].units = u]
<1>1. o \in Rows
  BY DEF CoveredRows
<1>2. o.items[l].units \in Seq(UnitStates)
  BY <1>1, RowLines
<1>3. /\ u \in Seq(UnitStates) /\ DOMAIN u = DOMAIN o.items[l].units
      /\ \A i \in DOMAIN u : o.items[l].units[i] = "cancelled" => u[i] = "cancelled"
  BY <1>2, UnitsAsType
<1> HIDE DEF u
<1>4. /\ p \in Rows /\ KeepsCancelled(o, p) /\ p.done = o.done
      /\ p.total = o.total /\ p.manual = o.manual
      /\ \A m \in DOMAIN o.items : /\ p.items[m].price = o.items[m].price
                                 /\ p.items[m].removed = o.items[m].removed
  BY <1>1, <1>3, UnitsPutRow
<1>5. LinePatched(o, l, s) = Recompute(p)
  BY DEF LinePatched, u
<1> HIDE DEF p
<1>6. p \in CoveredRows
  BY <1>4, CheaperIsCovered
<1>7. /\ Recompute(p) \in GoodRows /\ Recompute(p).items = p.items
      /\ Recompute(p).done = p.done /\ Recompute(p).total = p.total
  BY <1>6, RecomputeGood
<1>8. KeepsCancelled(p, Recompute(p))
  BY <1>7, KeepsSame
<1>9. OnlyUnitsMoved(o, Recompute(p))
  BY <1>4, <1>7 DEF OnlyUnitsMoved
<1>. QED  BY <1>4, <1>5, <1>7, <1>8, <1>9, KeepsTransitive

LEMMA UnitPatchedGood ==
  ASSUME NEW o \in CoveredRows, NEW l \in DOMAIN o.items, NEW i \in DOMAIN o.items[l].units, NEW a
  PROVE  /\ UnitPatched(o, l, i, a) \in GoodRows
         /\ KeepsCancelled(o, UnitPatched(o, l, i, a))
<1> DEFINE v == UnitAfter(o.items[l].units[i], a)
           u == [o.items[l].units EXCEPT ![i] = v]
           p == [o EXCEPT !.items[l].units = u]
           q == AddedUp(p)
<1>1. o \in Rows
  BY DEF CoveredRows
<1>2. o.items[l].units \in Seq(UnitStates)
  BY <1>1, RowLines
<1>3. v \in UnitStates /\ (o.items[l].units[i] = "cancelled" => v = "cancelled")
  BY <1>2 DEF UnitAfter, UnitStates
<1>4. UnitPatched(o, l, i, a) = Recompute(q)
  BY DEF UnitPatched
<1> HIDE DEF v
<1>5. /\ u \in Seq(UnitStates) /\ DOMAIN u = DOMAIN o.items[l].units
      /\ \A j \in DOMAIN u : o.items[l].units[j] = "cancelled" => u[j] = "cancelled"
  BY <1>2, <1>3
<1> HIDE DEF u
<1>6. p \in Rows /\ KeepsCancelled(o, p)
  BY <1>1, <1>5, UnitsPutRow
<1> HIDE DEF p
<1>7. q \in CoveredRows /\ q.items = p.items
  BY <1>6, AddedUpRow
<1> HIDE DEF q
<1>8. Recompute(q) \in GoodRows /\ Recompute(q).items = p.items
  BY <1>7, RecomputeGood
<1>9. KeepsCancelled(p, Recompute(q))
  BY <1>8, KeepsSame
<1>. QED  BY <1>4, <1>6, <1>8, <1>9, KeepsTransitive

(* A line with another price, removed or restored. *)
Repriced(line, price, removed) == [line EXCEPT !.price = price, !.removed = removed]

LEMMA LineRepriced ==
  ASSUME NEW line \in StoredLine, NEW price \in Nat, NEW removed \in BOOLEAN
  PROVE  /\ Repriced(line, price, removed) \in StoredLine
         /\ Repriced(line, price, removed).units = line.units
<1>1. PICK new : new = [line EXCEPT !.price = price, !.removed = removed]
  OBVIOUS
<1>2. new \in StoredLine /\ new.units = line.units
  BY <1>1 DEF StoredLine, LineType
<1>. QED  BY <1>1, <1>2 DEF Repriced

RepricedAt(o, l, price, removed) ==
  [o EXCEPT !.items[l].price = price, !.items[l].removed = removed]

LEMMA RepricedItems ==
  ASSUME NEW o \in Rows, NEW l \in DOMAIN o.items, NEW price, NEW removed
  PROVE  RepricedAt(o, l, price, removed)
           = [o EXCEPT !.items = [o.items EXCEPT ![l] = Repriced(o.items[l], price, removed)]]
<1> DEFINE q == [o EXCEPT !.items[l].price = price, !.items[l].removed = removed]
           line == [o.items[l] EXCEPT !.price = price, !.removed = removed]
           first == [o.items[l] EXCEPT !.price = price]
           i == [o.items EXCEPT ![l] = first]
           p == [o EXCEPT !.items = i]
<1>1. o.items \in [DOMAIN o.items -> StoredLine] /\ o.items[l] \in StoredLine
  BY RowLines
<1>2. i[l] = first /\ p.items = i
  BY <1>1 DEF Rows
<1>3. line = [first EXCEPT !.removed = removed]
  OBVIOUS
<1>4. q = [p EXCEPT !.items = [i EXCEPT ![l] = line]]
  BY <1>2, <1>3
<1>5. [i EXCEPT ![l] = line] = [o.items EXCEPT ![l] = line]
  BY <1>1
<1>6. q = [p EXCEPT !.items = [o.items EXCEPT ![l] = line]]
  BY <1>4, <1>5
<1> HIDE DEF i, first, line, q
<1>7. q = [o EXCEPT !.items = [o.items EXCEPT ![l] = line]]
  BY <1>6
<1>. QED  BY <1>7 DEF q, line, Repriced, RepricedAt

LEMMA BillEditedGood ==
  ASSUME NEW o \in GoodRows, NEW l \in DOMAIN o.items, NEW price \in Nat, NEW removed \in BOOLEAN
  PROVE  /\ BillEdited(o, l, price, removed) \in GoodRows
         /\ KeepsCancelled(o, BillEdited(o, l, price, removed))
         /\ BillEdited(o, l, price, removed).done = o.done
         /\ OnlyCharged(o, BillEdited(o, l, price, removed))
<1> DEFINE p == BillEdited(o, l, price, removed)
<1>0. PICK line, i, q :
        /\ line = Repriced(o.items[l], price, removed)
        /\ i = [o.items EXCEPT ![l] = line]
        /\ q = [o EXCEPT !.items = i]
  OBVIOUS
<1>1. o \in Rows /\ Shown(o)
  BY DEF GoodRows, CoveredRows
<1>2. line \in StoredLine /\ line.units = o.items[l].units
  BY <1>0, <1>1, RowLines, LineRepriced
<1>3. p = AddedUp(q)
  <2>1. q = RepricedAt(o, l, price, removed)
    BY <1>0, <1>1, RepricedItems
  <2>2. p = AddedUp(RepricedAt(o, l, price, removed))
    BY DEF BillEdited, RepricedAt
  <2>. QED  BY <2>1, <2>2
<1>4. /\ DOMAIN i = DOMAIN o.items /\ i \in [DOMAIN o.items -> StoredLine]
      /\ \A m \in DOMAIN o.items : i[m].units = o.items[m].units
  BY <1>0, <1>1, <1>2, RowLines
<1>5. i \in Items
  BY <1>1, <1>4, RowLines, ItemsIntro
<1>6. q \in Rows /\ q.items = i /\ q.kitchen = o.kitchen /\ q.done = o.done
  BY <1>0, <1>1, <1>5 DEF Rows
<1>7. /\ p \in CoveredRows /\ p.items = i /\ p.kitchen = o.kitchen /\ p.done = o.done
      /\ p.total = SumLineItems(p.items)
  BY <1>3, <1>6, AddedUpRow
<1> HIDE DEF p
<1>8. PendingUnits(p) = PendingUnits(o)
  BY <1>4, <1>7, SameUnits
<1>9. Shown(p)
  BY <1>1, <1>7, <1>8 DEF Shown
<1>10. KeepsCancelled(o, p)
  BY <1>4, <1>7, KeepsSame
<1>11. OnlyCharged(o, p)
  BY <1>4, <1>7 DEF OnlyCharged
<1>. QED  BY <1>7, <1>9, <1>10, <1>11 DEF GoodRows, p

-----------------------------------------------------------------------------
(* Steps *)

LEMMA InitIInv == Init => IInv
<1> SUFFICES ASSUME Init PROVE IInv
  OBVIOUS
<1>1. order \in GoodRows
  BY NewOrderGood DEF Init
<1>2. \A c \in Calls : call[c] = Blank("idle")
  BY DEF Init
<1>3. call \in [Calls -> [step : {"idle", "put", "done"}, op : Ops, row : GoodRows,
                          clean : BOOLEAN]]
  BY EmptyOrderGood DEF Init, Blank, Ops
<1>4. \A c \in Calls : Fresh(c)
  BY <1>2 DEF Fresh, Blank
<1>. QED  BY <1>1, <1>3, <1>4 DEF IInv

LEMMA WillPutIInv ==
  ASSUME IInv, NEW c \in Calls, NEW op \in Ops, NEW row \in GoodRows, WillPut(c, op, row),
         op # "newItems" => KeepsCancelled(order, row),
         Allowed(order, row)
  PROVE  IInv'
<1>1. call' = [call EXCEPT ![c] = [step |-> "put", op |-> op, row |-> row, clean |-> TRUE]]
  BY DEF WillPut
<1>2. order' = order
  BY DEF WillPut
<1>3. call' \in [Calls -> [step : {"idle", "put", "done"}, op : Ops, row : GoodRows,
                           clean : BOOLEAN]]
  BY <1>1 DEF IInv
<1>4. ASSUME NEW d \in Calls PROVE Fresh(d)'
  <2>1. CASE d = c
    <3>1. call'[d] = [step |-> "put", op |-> op, row |-> row, clean |-> TRUE]
      BY <1>1, <2>1 DEF IInv
    <3>2. call'[d].op = op /\ call'[d].row = row
      BY <3>1
    <3>. QED  BY <1>2, <3>2 DEF Fresh
  <2>2. CASE d # c
    <3>1. call'[d] = call[d] /\ Fresh(d)
      BY <1>1, <2>2 DEF IInv
    <3>. QED  BY <1>2, <3>1 DEF Fresh
  <2>. QED  BY <2>1, <2>2
<1>. QED  BY <1>2, <1>3, <1>4 DEF IInv

(* A put overtakes all who have read and not put yet. *)
LEMMA PutIInv ==
  ASSUME IInv, NEW c \in Calls, Put(c)
  PROVE  IInv'
<1>1. order' \in GoodRows
  BY DEF Put, IInv
<1>2. \A d \in Calls : call'[d] = IF d = c THEN Blank("done")
                         ELSE [call[d] EXCEPT !.clean = call[d].step # "put"]
  BY DEF Put
<1>3. ASSUME NEW d \in Calls
      PROVE  /\ call'[d] \in [step : {"idle", "put", "done"}, op : Ops, row : GoodRows,
                              clean : BOOLEAN]
             /\ ~(call'[d].step = "put" /\ call'[d].clean)
  <2>1. CASE d = c
    <3>1. call'[d] = Blank("done")
      BY <1>2, <2>1
    <3>. QED  BY <3>1, EmptyOrderGood DEF Blank, Ops
  <2>2. CASE d # c
    <3>1. PICK b \in BOOLEAN : b = (call[d].step # "put")
      OBVIOUS
    <3>2. call'[d] = [call[d] EXCEPT !.clean = b]
      BY <1>2, <2>2, <3>1
    <3>. QED  BY <3>1, <3>2 DEF IInv
  <2>. QED  BY <2>1, <2>2
<1>4. \A d \in Calls : Fresh(d)'
  BY <1>3 DEF Fresh
<1>5. call' \in [Calls -> [step : {"idle", "put", "done"}, op : Ops, row : GoodRows,
                           clean : BOOLEAN]]
  BY <1>3 DEF Put
<1>. QED  BY <1>1, <1>4, <1>5 DEF IInv

LEMMA GiveUpIInv ==
  ASSUME IInv, NEW c \in Calls, GiveUp(c)
  PROVE  IInv'
<1>1. order' = order /\ call' = [call EXCEPT ![c] = Blank("done")]
  BY DEF GiveUp
<1>2. call' \in [Calls -> [step : {"idle", "put", "done"}, op : Ops, row : GoodRows,
                           clean : BOOLEAN]]
  BY <1>1, EmptyOrderGood DEF IInv, Blank, Ops
<1>3. ASSUME NEW d \in Calls PROVE Fresh(d)'
  <2>1. CASE d = c
    <3>1. call'[d] = Blank("done")
      BY <1>1, <2>1 DEF IInv
    <3>2. call'[d].step = "done"
      BY <3>1 DEF Blank
    <3>. QED  BY <3>2 DEF Fresh
  <2>2. CASE d # c
    <3>1. call'[d] = call[d] /\ Fresh(d)
      BY <1>1, <2>2 DEF IInv
    <3>. QED  BY <1>1, <3>1 DEF Fresh
  <2>. QED  BY <2>1, <2>2
<1>. QED  BY <1>1, <1>2, <1>3 DEF IInv

LEMMA NextIInv == IInv /\ [Next]_vars => IInv'
<1> SUFFICES ASSUME IInv, [Next]_vars PROVE IInv'
  OBVIOUS
<1>0. order \in GoodRows /\ order \in CoveredRows /\ order \in Rows
  BY DEF IInv, GoodRows, CoveredRows
<1>1. ASSUME NEW c \in Calls, UpdateOrder(c) PROVE IInv'
  <2>1. PICK r \in Edits :
          WillPut(c, IF r.items = NoTicket THEN "updateOrder" ELSE "newItems", Edited(order, r))
    BY <1>1 DEF UpdateOrder
  <2>2. r \in EditType
    BY KitchenAssumption
  <2>3. /\ Edited(order, r) \in GoodRows
        /\ r.items = NoTicket => KeepsCancelled(order, Edited(order, r))
    BY <1>0, <2>2, EditedGood
  <2>4. PICK op \in Ops : op = IF r.items = NoTicket THEN "updateOrder" ELSE "newItems"
    BY DEF Ops
  <2>5. op # "newItems" => r.items = NoTicket
    BY <2>4
  <2>6. Allowed(order, Edited(order, r))
    BY <1>1 DEF UpdateOrder, Editable, Allowed
  <2>. QED  BY <2>1, <2>3, <2>4, <2>5, <2>6, WillPutIInv
<1>2. ASSUME NEW c \in Calls, PatchLineItemStatus(c) PROVE IInv'
  <2>1. PICK l \in DOMAIN order.items, s \in Statuses :
          WillPut(c, "lineStatus", LinePatched(order, l, s))
    BY <1>2 DEF PatchLineItemStatus
  <2>2. /\ LinePatched(order, l, s) \in GoodRows
        /\ KeepsCancelled(order, LinePatched(order, l, s))
        /\ LinePatched(order, l, s).done = order.done
        /\ OnlyUnitsMoved(order, LinePatched(order, l, s))
    BY <1>0, LinePatchedGood
  <2>3. Allowed(order, LinePatched(order, l, s))
    BY <2>2 DEF Allowed, KeepsCancelled, SameLines
  <2>. QED  BY <2>1, <2>2, <2>3, WillPutIInv DEF Ops
<1>3. ASSUME NEW c \in Calls, PatchLineItemUnit(c) PROVE IInv'
  <2>1. PICK l \in DOMAIN order.items, a \in {"fulfill", "unfulfill", "cancel", "toggle_parcel"} :
          \E i \in DOMAIN order.items[l].units : WillPut(c, "unit", UnitPatched(order, l, i, a))
    BY <1>3 DEF PatchLineItemUnit
  <2>2. PICK i \in DOMAIN order.items[l].units : WillPut(c, "unit", UnitPatched(order, l, i, a))
    BY <2>1
  <2>3. /\ UnitPatched(order, l, i, a) \in GoodRows
        /\ KeepsCancelled(order, UnitPatched(order, l, i, a))
    BY <1>0, UnitPatchedGood
  <2>4. Allowed(order, UnitPatched(order, l, i, a))
    BY <1>3 DEF PatchLineItemUnit, Editable, Allowed
  <2>. QED  BY <2>2, <2>3, <2>4, WillPutIInv DEF Ops
<1>4. ASSUME NEW c \in Calls, PatchOrderKitchenStatus(c) PROVE IInv'
  <2>1. PICK s \in Statuses : WillPut(c, "kitchenStatus", KitchenPatched(order, s))
    BY <1>4 DEF PatchOrderKitchenStatus
  <2>2. /\ KitchenPatched(order, s) \in GoodRows
        /\ KeepsCancelled(order, KitchenPatched(order, s))
        /\ KitchenPatched(order, s).done = order.done
        /\ OnlyUnitsMoved(order, KitchenPatched(order, s))
    BY <1>0, KitchenPatchedGood
  <2>3. Allowed(order, KitchenPatched(order, s))
    BY <2>2 DEF Allowed, KeepsCancelled, SameLines
  <2>. QED  BY <2>1, <2>2, <2>3, WillPutIInv DEF Ops
<1>5. ASSUME NEW c \in Calls, UpdateBill(c) PROVE IInv'
  <2>1. PICK l \in DOMAIN order.items, removed \in BOOLEAN :
          \E p \in Prices \cup {order.items[l].price} :
            WillPut(c, "updateBill", BillEdited(order, l, p, removed))
    BY <1>5 DEF UpdateBill
  <2>2. PICK p \in Prices \cup {order.items[l].price} :
          WillPut(c, "updateBill", BillEdited(order, l, p, removed))
    BY <2>1
  <2>3. p \in Nat
    BY <1>0, KitchenAssumption, RowLines DEF StoredLine, LineType
  <2>4. /\ BillEdited(order, l, p, removed) \in GoodRows
        /\ KeepsCancelled(order, BillEdited(order, l, p, removed))
        /\ BillEdited(order, l, p, removed).done = order.done
        /\ OnlyCharged(order, BillEdited(order, l, p, removed))
    BY <1>0, <2>3, BillEditedGood
  <2>5. Allowed(order, BillEdited(order, l, p, removed))
    BY <2>4 DEF Allowed, KeepsCancelled, SameLines
  <2>. QED  BY <2>2, <2>4, <2>5, WillPutIInv DEF Ops
<1>6. ASSUME NEW c \in Calls, StartBill(c) PROVE IInv'
  <2>1. KeepsCancelled(order, order) /\ Allowed(order, order)
    BY KeepsSame DEF Allowed, SameLines, OnlyUnitsMoved
  <2>. QED  BY <1>0, <1>6, <2>1, WillPutIInv DEF StartBill, Ops
<1>7. ASSUME NEW c \in Calls, Put(c) PROVE IInv'
  BY <1>7, PutIInv
<1>8. ASSUME NEW c \in Calls, GiveUp(c) PROVE IInv'
  BY <1>8, GiveUpIInv
<1>9. CASE UNCHANGED vars
  BY <1>9 DEF IInv, Fresh, vars
<1>10. CASE AllDone
  BY <1>9, <1>10 DEF AllDone
<1>. QED  BY <1>1, <1>2, <1>3, <1>4, <1>5, <1>6, <1>7, <1>8, <1>9, <1>10 DEF Next

LEMMA IInvHolds == Spec => []IInv
BY InitIInv, NextIInv, PTL DEF Spec

-----------------------------------------------------------------------------
(* What the invariant implies *)

LEMMA RowIsOrder == ASSUME NEW o \in GoodRows PROVE IsOrder(o)
<1>1. o \in Rows
  BY DEF GoodRows, CoveredRows
<1>2. \A l \in DOMAIN o.items : o.items[l] \in LineType /\ o.items[l].units # <<>>
  BY <1>1, RowLines DEF StoredLine
<1>3. DOMAIN o = {"items", "kitchen", "done", "total", "manual"}
  BY <1>1 DEF Rows
<1>. QED  BY <1>1, <1>2, <1>3, RowFields, RowLines DEF IsOrder

LEMMA IInvType == IInv => TypeOK
<1> SUFFICES ASSUME IInv PROVE TypeOK
  OBVIOUS
<1>1. ASSUME NEW c \in Calls
      PROVE  /\ DOMAIN call[c] = {"step", "op", "row", "clean"}
             /\ call[c].step \in {"idle", "put", "done"}
             /\ call[c].op \in Ops /\ call[c].clean \in BOOLEAN
             /\ call[c].row \in GoodRows
  BY DEF IInv
<1>. QED  BY <1>1, RowIsOrder DEF IInv, TypeOK

(* No status but pending and preparing goes with a pending unit, so the     *)
(* boards, which skip orders served and cancelled, show every one.          *)
LEMMA IInvBoard == IInv => BoardShowsPending
<1> SUFFICES ASSUME IInv PROVE BoardShowsPending
  OBVIOUS
<1>1. order.kitchen \in {"pending", "preparing"} \/ PendingUnits(order) = {}
  BY DEF IInv, GoodRows, Shown
<1>. QED  BY <1>1 DEF BoardShowsPending, UnitBoard

LEMMA IInvCharged == IInv => NeverUndercharged
BY DEF IInv, GoodRows, CoveredRows, Covered, NeverUndercharged

(* A put by a call that nobody overtook does what Fresh says of its row. *)
LEMMA FreshPut ==
  ASSUME IInv, NEW c \in Calls, call[c].step = "put", call[c].clean, order' = call[c].row
  PROVE  /\ call[c].op # "newItems" => KeepsCancelled(order, order')
         /\ Allowed(order, order')
BY DEF IInv, Fresh

-----------------------------------------------------------------------------
(* Theorems *)

(* Every row, stored or in memory, is an order: each line has at least one *)
(* unit state, and every amount is a natural number, whatever quantities   *)
(* and unit states clients sent.                                           *)
THEOREM OrderTypeOK == Spec => []TypeOK
BY IInvHolds, IInvType, PTL

(* In every reachable state the kitchen's boards show all units that are   *)
(* still to be cooked, and an order called ready has none: for every set   *)
(* of overlapping calls, order size and request.                           *)
THEOREM OrderBoardShowsPending == Spec => []BoardShowsPending
BY IInvHolds, IInvBoard, PTL

(* A total that was added up is never below what the units not cancelled   *)
(* cost, whichever of any number of overlapping edits was put last.        *)
THEOREM OrderNeverUndercharged == Spec => []NeverUndercharged
BY IInvHolds, IInvCharged, PTL

(* A unit once cancelled stays cancelled through every edit that nobody    *)
(* overtook, unless it replaces the items.                                 *)
THEOREM OrderCancelledStays == Spec => CancelledStays
<1> DEFINE Stays == \A c \in Calls :
             (/\ call[c].step = "put" /\ call'[c].step = "done" /\ order' = call[c].row
              /\ call[c].clean /\ call[c].op # "newItems") =>
             \A l \in DOMAIN order.items : \A i \in DOMAIN order.items[l].units :
               order.items[l].units[i] = "cancelled" => order'.items[l].units[i] = "cancelled"
<1>1. IInv => Stays
  BY FreshPut DEF KeepsCancelled
<1>. QED  BY <1>1, IInvHolds, PTL DEF CancelledStays

(* An order marked done stays so, with the lines and units it had, through *)
(* every call that read it after the mark; such a call either moves units  *)
(* and charges nothing otherwise, or charges otherwise and moves no unit.  *)
THEOREM OrderDoneFreezesTicket == Spec => DoneFreezesTicket
<1> DEFINE Frozen == \A c \in Calls :
             (/\ order.done /\ call[c].step = "put" /\ call'[c].step = "done"
              /\ order' = call[c].row /\ call[c].clean) =>
             /\ order'.done /\ SameLines(order, order')
             /\ OnlyUnitsMoved(order, order') \/ OnlyCharged(order, order')
<1>1. IInv => Frozen
  BY FreshPut DEF Allowed
<1>. QED  BY <1>1, IInvHolds, PTL DEF DoneFreezesTicket

=============================================================================
