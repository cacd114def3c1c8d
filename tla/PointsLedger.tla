---------------------------- MODULE PointsLedger ----------------------------
(***************************************************************************)
(* What the points of a shop's customers go through, seen from its bills:  *)
(* a bill is entered once, for a state key that has none that year, and    *)
(* debits there and then what it redeems; it credits an award at most      *)
(* once; the account of a customer moves with a bill and never without.    *)
(* Whom a bill names as its customer is a matter of its own, which every   *)
(* change may decide anew, except that a bill that moved points names one. *)
(* Where some updates do not settle, a bill may also lose its award again. *)
(***************************************************************************)
EXTENDS Integers

CONSTANTS
  Years, Numbers,  \* a bill has the number it was issued in its year
  Customers,
  Nobody,          \* no customer
  Holders,         \* the customers with an account
  Opening,         \* Opening[u]: the account of u before the first bill
  Bills,           \* the bills there may be, records with at least the fields key,
                   \* customer, points, redeemed, earned and processed (its award)
  NoEntry          \* a number no bill is entered under

VARIABLES
  account,  \* account[u]: the points of u, for each holder
  entry,    \* entry[id]: the bill entered under id
  plain     \* some updates do not settle

vars == <<account, entry, plain>>

Ids == Years \X Numbers

Init ==
  /\ account = Opening
  /\ entry = [id \in Ids |-> NoEntry]
  /\ plain \in BOOLEAN

Moved(a, redeem, earn) ==
  [a EXCEPT !.balance = (@ + earn) - redeem,
            !.earned = @ + earn,
            !.redeemed = @ + redeem]

(* Points move on the account of u, which covers what is redeemed, and on  *)
(* no other; a customer without an account has none to move here.          *)
Move(u, redeem, earn) ==
  /\ u \in Holders => account[u].balance >= redeem
  /\ account' = [v \in Holders |-> IF v = u THEN Moved(account[v], redeem, earn) ELSE account[v]]

(* A step enters or changes one bill, and if that moved points, it names a *)
(* customer, though not always the one whose points they are.              *)
Write(id) ==
  /\ entry'[id] \in Bills
  /\ entry'[id].redeemed > 0 \/ entry'[id].processed => entry'[id].customer # Nobody
  /\ entry' = [entry EXCEPT ![id] = entry'[id]]

(* What every change of a bill respects *)
Kept(id) ==
  /\ entry[id] # NoEntry
  /\ entry'[id].key = entry[id].key
  /\ entry'[id].points = entry[id].points
  /\ entry'[id].redeemed = entry[id].redeemed

(* A bill is entered: the one of its key in its year.  The points are      *)
(* those of u, if there is a u.                                            *)
Open(id, u) ==
  /\ entry[id] = NoEntry
  /\ Write(id)
  /\ \A other \in Ids :
       (entry[other] # NoEntry /\ other[1] = id[1]) => entry[other].key # entry'[id].key
  /\ entry'[id].redeemed > 0 \/ entry'[id].processed => u # Nobody
  /\ ~entry'[id].processed => entry'[id].earned = 0
  /\ Move(u, entry'[id].redeemed, entry'[id].earned)

(* A bill without an award gets it; the points go to the customer who      *)
(* settles it.                                                             *)
Award(id, u) ==
  /\ Kept(id)
  /\ ~entry[id].processed /\ entry'[id].processed
  /\ Write(id)
  /\ Move(u, 0, entry'[id].earned)

(* An update that does not award: the award stays, unless the update puts  *)
(* back a row it read earlier without settling it.                         *)
Amend(id) ==
  /\ Kept(id)
  /\ Write(id)
  /\ plain \/ /\ entry'[id].processed = entry[id].processed
              /\ entry'[id].earned = entry[id].earned
  /\ UNCHANGED account

Next ==
  /\ UNCHANGED plain
  /\ \E id \in Ids :
       \/ \E u \in Customers \cup {Nobody} : Open(id, u)
       \/ \E u \in Customers : Award(id, u)
       \/ Amend(id)

Spec == Init /\ [][Next]_vars

=============================================================================
