----------------------- MODULE CustomerService_proofs -----------------------
(***************************************************************************)
(* CustomerService, for any calls, people, bills and bounds.  Whatever     *)
(* races, lags or dies: first points and tickets (wallets account for what *)
(* they earned, bills and their points discounts add up, a ticket signs in *)
(* once), then the types of everything, then who is who (answers are about *)
(* the number that was named, tickets stay until they are used).           *)
(*                                                                         *)
(* One call after the other: first that what a call read is still so when  *)
(* it acts on it (labels stay unique, guests are made only on first        *)
(* contact), then the ledger of wallets and bills, then one-time codes.    *)
(***************************************************************************)
EXTENDS CustomerService, Sums_proofs, TLAPS

(* What the invariant needs of the types: which fields and arguments there *)
(* are, and that amounts are integers.                                     *)
StoreShape(d) ==
  d = [users |-> d.users, challenges |-> d.challenges, tickets |-> d.tickets,
       wallets |-> d.wallets, bills |-> d.bills, addresses |-> d.addresses]

CallShape(r) ==
  r = [op |-> r.op, step |-> r.step, at |-> r.at, key |-> r.key, user |-> r.user,
       given |-> r.given, arg |-> r.arg, todo |-> r.todo, row |-> r.row,
       billRow |-> r.billRow, tries |-> r.tries]

BillShape(b) ==
  /\ b = [owner |-> b.owner, price |-> b.price, total |-> b.total,
          discount |-> b.discount, earned |-> b.earned, redeemed |-> b.redeemed,
          processed |-> b.processed]
  /\ b.price \in Int /\ b.total \in Int /\ b.discount \in Int

Function(f, S) == f = [x \in S |-> f[x]]

Shapes ==
  /\ StoreShape(db) /\ StoreShape(stale)
  /\ Function(db.wallets, Ids) /\ Function(db.bills, Bills) /\ Function(db.tickets, Nonces)
  /\ Function(call, Calls) /\ \A c \in Calls : CallShape(call[c])

(* Every row about points, stored, lagging or in the memory of a call,     *)
(* accounts for itself: so it does not matter which one is put last.       *)
Accounted(w) ==
  /\ w \in [balance : Int, earned : Int, redeemed : Int]
  /\ w.balance + w.redeemed = w.earned
WalletRow(w) == w = NoRow \/ Accounted(w)
BillRow(b) == BillShape(b) /\ b.total + b.discount = b.price

StoredRows ==
  /\ \A u \in Ids : WalletRow(db.wallets[u]) /\ WalletRow(stale.wallets[u])
  /\ \A b \in Bills : BillRow(db.bills[b]) /\ BillRow(stale.bills[b])

Holding == {"readPoints", "putPoints", "putBill"}
HeldRows ==
  \A c \in Calls :
    /\ call[c].step \in Holding \cup {"readBill"} => call[c].arg \in Bills /\ call[c].user \in Ids
    /\ call[c].step \in Holding => BillRow(call[c].billRow)
    /\ call[c].step = "putPoints" => Accounted(call[c].row)

(* A ticket is on record once, by a login that is done; one that signed    *)
(* somebody in is gone.                                                    *)
Tickets ==
  /\ \A c \in Calls : call[c].op = "continue" =>
       call[c].step = "done" \/ (call[c].step = "delete" /\ call[c].arg \in Nonces)
  /\ \A n \in Nonces : db.tickets[n] # NoRow =>
       db.tickets[n].by \in Calls /\ call[db.tickets[n].by].step = "done"
  /\ \A m, n \in Nonces :
       (db.tickets[m] # NoRow /\ db.tickets[n] # NoRow /\ db.tickets[m].by = db.tickets[n].by) => m = n
  /\ \A d \in AnsweredBy("continue") :
       /\ call[d].row.by \in Calls /\ call[call[d].row.by].step = "done"
       /\ \A n \in Nonces : db.tickets[n] # NoRow => db.tickets[n].by # call[d].row.by
  /\ TicketsOnce

IInv == Shapes /\ StoredRows /\ HeldRows /\ Tickets

-----------------------------------------------------------------------------
(* A discount in whole blocks is never more than the bill. *)
LEMMA DiscountBounded ==
  ASSUME NEW total \in Int, NEW balance \in Int
  PROVE  Discount(total, balance) \in Int /\ Discount(total, balance) <= total
<1>1. PerBlock \in Int /\ PerBlock > 0 /\ RedeemBlock \in Int /\ RedeemBlock > 0
  BY LoyaltyAssumption
<1>2. RedeemableDiscount(balance) \in Int
  BY <1>1, SMT DEF RedeemableDiscount
<1>3. (total \div PerBlock) \in Int /\ (total \div PerBlock) * PerBlock <= total
  BY <1>1, SMT
<1> QED BY <1>1, <1>2, <1>3, SMT DEF Discount

LEMMA PointsAccount ==
  ASSUME NEW w, WalletRow(w)
  PROVE  Accounted(Points(w))
BY DEF WalletRow, Accounted, Points, EmptyWallet

LEMMA CreditAccounts ==
  ASSUME NEW w, Accounted(w), NEW n \in Int
  PROVE  Accounted(Credited(w, n))
<1> DEFINE b == w.balance + n
           e == w.earned + n
<1>1. b \in Int /\ e \in Int /\ b + w.redeemed = e
  BY DEF Accounted
<1>2. Credited(w, n) = [w EXCEPT !.balance = b, !.earned = e]
  BY DEF Credited
<1> HIDE DEF b, e
<1>3. Credited(w, n) = [balance |-> b, earned |-> e, redeemed |-> w.redeemed]
  BY <1>2 DEF Accounted
<1> QED BY <1>1, <1>3 DEF Accounted

LEMMA DebitAccounts ==
  ASSUME NEW w, Accounted(w), NEW n \in Int
  PROVE  Accounted(Debited(w, n))
<1> DEFINE b == w.balance - PointsFor(n)
           r == w.redeemed + PointsFor(n)
<1>1. PointsFor(n) \in Int
  BY LoyaltyAssumption, SMT DEF PointsFor
<1>2. b \in Int /\ r \in Int /\ b + r = w.earned
  BY <1>1 DEF Accounted
<1>3. Debited(w, n) = [w EXCEPT !.balance = b, !.redeemed = r]
  BY DEF Debited
<1> HIDE DEF b, r
<1>4. Debited(w, n) = [balance |-> b, earned |-> w.earned, redeemed |-> r]
  BY <1>3 DEF Accounted
<1> QED BY <1>2, <1>4 DEF Accounted

(* What a call puts back for a bill *)
LEMMA AwardKeepsPrice ==
  ASSUME NEW b, BillRow(b), NEW u
  PROVE  BillRow(AwardedBill(b, u))
<1> DEFINE e == PointsFromSpend(b.total)
<1>1. AwardedBill(b, u) = [b EXCEPT !.owner = u, !.earned = e, !.processed = TRUE]
  BY DEF AwardedBill
<1> HIDE DEF e
<1>2. AwardedBill(b, u) =
        [owner |-> u, price |-> b.price, total |-> b.total, discount |-> b.discount,
         earned |-> e, redeemed |-> b.redeemed, processed |-> TRUE]
  BY <1>1 DEF BillRow, BillShape
<1> QED BY <1>2 DEF BillRow, BillShape

LEMMA RedeemKeepsPrice ==
  ASSUME NEW b, BillRow(b), NEW u, NEW n \in Int, n <= b.total
  PROVE  BillRow(RedeemedBill(b, u, n))
<1> DEFINE r == PointsFor(n)
           d == b.discount + n
           t == IF b.total >= n THEN b.total - n ELSE 0
<1>1. RedeemedBill(b, u, n) =
        [b EXCEPT !.owner = u, !.redeemed = r, !.discount = d, !.total = t]
  BY DEF RedeemedBill
<1>2. d \in Int /\ t \in Int /\ t + d = b.price
  BY DEF BillRow, BillShape
<1> HIDE DEF r, d, t
<1>3. RedeemedBill(b, u, n) =
        [owner |-> u, price |-> b.price, total |-> t, discount |-> d,
         earned |-> b.earned, redeemed |-> r, processed |-> b.processed]
  BY <1>1 DEF BillRow, BillShape
<1> QED BY <1>2, <1>3 DEF BillRow, BillShape

-----------------------------------------------------------------------------
(* Steps of call c that leave points and tickets alone *)

(* The memory of a call with nothing of them in it *)
Empty(r) ==
  /\ CallShape(r) /\ r.step \notin Holding
  /\ r.step = "readBill" => r.arg \in Bills /\ r.user \in Ids
  /\ r.op = "continue" => \/ r.step = "done" /\ r.user = NoUser
                          \/ r.step = "delete" /\ r.arg \in Nonces

Only(c) == Function(call', Calls) /\ \A d \in Calls \ {c} : call'[d] = call[d]

LEMMA OneCall ==
  ASSUME Function(call, Calls), NEW c \in Calls, NEW r, call' = [call EXCEPT ![c] = r]
  PROVE  Only(c) /\ call'[c] = r
BY DEF Function, Only

(* No ticket is made or used: the other calls' tickets stay what they were *)
LEMMA TicketsStay ==
  ASSUME IInv, NEW c \in Calls, call[c].step # "done", Only(c),
         call'[c].op = "continue" => \/ call'[c].step = "done" /\ call'[c].user = NoUser
                                     \/ call'[c].step = "delete" /\ call'[c].arg \in Nonces,
         db'.tickets = db.tickets
  PROVE  Tickets'
<1>1. AnsweredBy("continue")' = AnsweredBy("continue")
  BY DEF AnsweredBy, Only
<1>2. \A d \in AnsweredBy("continue") : call'[d] = call[d] /\ d \in Calls
  BY DEF AnsweredBy, Only
<1>3. \A d \in Calls : call[d].step = "done" => call'[d] = call[d]
  BY DEF Only
<1> QED BY <1>1, <1>2, <1>3 DEF IInv, Tickets, TicketsOnce, Only

LEMMA Aloof ==
  ASSUME IInv, NEW c \in Calls, call[c].step # "done", Only(c), Empty(call'[c]),
         StoreShape(db'), db'.wallets = db.wallets, db'.bills = db.bills,
         db'.tickets = db.tickets, stale' = stale
  PROVE  IInv'
<1>1. Shapes'
  BY DEF IInv, Shapes, Only, Empty
<1>2. StoredRows'
  BY DEF IInv, StoredRows
<1>3. HeldRows'
  BY DEF IInv, HeldRows, Holding, Only, Empty
<1>4. Tickets'
  BY TicketsStay DEF Empty
<1> QED BY <1>1, <1>2, <1>3, <1>4 DEF IInv

LEMMA AtWork ==
  ASSUME IInv, NEW c \in Calls
  PROVE  /\ CallShape(call[c]) /\ Function(call, Calls) /\ StoreShape(db)
         /\ call[c].op = "continue" =>
              call[c].step = "done" \/ (call[c].step = "delete" /\ call[c].arg \in Nonces)
BY DEF IInv, Shapes, Tickets

LEMMA BlankShape ==
  CallShape(Blank) /\ Blank.user = NoUser
BY DEF Blank, CallShape

LEMMA OverEmpties ==
  ASSUME IInv, NEW c \in Calls, Over(c)
  PROVE  Only(c) /\ Empty(call'[c])
<1>1. Only(c) /\ call'[c] = [Blank EXCEPT !.op = call[c].op, !.step = "done"]
  BY AtWork, OneCall DEF Over
<1>2. CallShape(call'[c]) /\ call'[c].step = "done" /\ call'[c].user = NoUser
  BY <1>1, BlankShape DEF CallShape
<1> QED BY <1>1, <1>2 DEF Empty, Holding

LEMMA GotoEmpties ==
  ASSUME IInv, NEW c \in Calls, NEW s, Goto(c, s), call[c].op # "continue",
         s \notin Holding \cup {"readBill"}
  PROVE  Only(c) /\ Empty(call'[c])
<1>1. Only(c) /\ call'[c] = [call[c] EXCEPT !.step = s]
  BY AtWork DEF Goto, Only, Function
<1> QED BY <1>1, AtWork DEF Empty, CallShape

LEMMA AnswerEmpties ==
  ASSUME IInv, NEW c \in Calls, NEW u, Answer(c, u),
         call[c].op = "continue" => u = NoUser
  PROVE  Only(c) /\ Empty(call'[c])
<1>1. Only(c) /\ call'[c] = Answered(c, u)
  BY AtWork, OneCall DEF Answer
<1>2. /\ CallShape(call'[c]) /\ call'[c].step = "done"
      /\ call'[c].user = u /\ call'[c].op = call[c].op
  BY <1>1, AtWork DEF Answered, CallShape
<1> QED BY <1>1, <1>2 DEF Empty, Holding

LEMMA AnsweredShape ==
  ASSUME IInv, NEW c \in Calls, NEW u, NEW a, a = Answered(c, u)
  PROVE  CallShape(a) /\ a.step = "done" /\ a.op = call[c].op /\ a.user = u
<1>1. CallShape(call[c])
  BY AtWork
<1> QED BY <1>1 DEF Answered, CallShape

(* A put of one row, of users, challenges or addresses *)
LEMMA PutShape ==
  ASSUME IInv, NEW k, NEW row,
         \/ db' = [db EXCEPT !.users[k] = row]
         \/ db' = [db EXCEPT !.challenges[k] = row]
         \/ db' = [db EXCEPT !.addresses[k] = row]
  PROVE  StoreShape(db') /\ db'.wallets = db.wallets /\ db'.bills = db.bills
         /\ db'.tickets = db.tickets
<1>1. CASE db' = [db EXCEPT !.users[k] = row]
  BY <1>1 DEF IInv, Shapes, StoreShape
<1>2. CASE db' = [db EXCEPT !.challenges[k] = row]
  BY <1>2 DEF IInv, Shapes, StoreShape
<1>3. CASE db' = [db EXCEPT !.addresses[k] = row]
  BY <1>3 DEF IInv, Shapes, StoreShape
<1> QED BY <1>1, <1>2, <1>3

LEMMA UnchangedShape ==
  ASSUME IInv, UNCHANGED db
  PROVE  StoreShape(db') /\ db'.wallets = db.wallets /\ db'.bills = db.bills
         /\ db'.tickets = db.tickets
BY DEF IInv, Shapes

-----------------------------------------------------------------------------
(* Accounts *)

(* CreateUser: a key that seems free is taken off those still to look up *)
LEMMA KeySeemsFreeIs ==
  ASSUME IInv, NEW c \in Calls, KeySeemsFree(c)
  PROVE  /\ call[c].op = "createUser" /\ call[c].step = "check" /\ UNCHANGED <<db, stale, now, raced>>
         /\ \E t \in SUBSET call[c].todo :
              Only(c) /\ call'[c] = [call[c] EXCEPT !.todo = t]
<1>1. PICK l \in call[c].todo : Checks(c, l) /\ call' = [call EXCEPT ![c].todo = @ \ {l}]
  BY DEF KeySeemsFree
<1>2. call[c].op = "createUser" /\ call[c].step = "check"
  BY <1>1 DEF Checks, Doing
<1>3. PICK t \in SUBSET call[c].todo : t = call[c].todo \ {l}
  OBVIOUS
<1>4. Only(c) /\ call'[c] = [call[c] EXCEPT !.todo = t]
  BY <1>1, <1>3, AtWork DEF Function, Only
<1> QED BY <1>2, <1>4 DEF KeySeemsFree

LEMMA AccountKeeps ==
  ASSUME IInv, NEW c \in Calls, AccountStep(c), ~PutsEmptyWallet(c)
  PROVE  IInv'
<1> USE AtWork
<1>1. CASE FindsCustomer(c)
  <2>1. PICK u : call' = [call EXCEPT ![c].step = After(call[c].op), ![c].user = u, ![c].todo = {}]
    BY <1>1 DEF FindsCustomer
  <2> DEFINE s == After(call[c].op)
  <2>2. s \notin Holding \cup {"readBill"}
    BY DEF After, Holding
  <2>3. Only(c) /\ call'[c] = [call[c] EXCEPT !.step = s, !.user = u, !.todo = {}]
    BY <2>1 DEF Function, Only
  <2> HIDE DEF s
  <2>4. CallShape(call'[c]) /\ call'[c].step = s /\ call'[c].op = call[c].op
    BY <2>3 DEF CallShape
  <2>5. Empty(call'[c])
    BY <1>1, <2>2, <2>4 DEF FindsCustomer, At, Empty
  <2> QED BY <1>1, <2>3, <2>5, Aloof, UnchangedShape DEF FindsCustomer, At, Reads
<1>2. CASE MissesCustomer(c)
  <2>0. PICK l : call' = [call EXCEPT ![c].todo = @ \ {l}]
    BY <1>2 DEF MissesCustomer
  <2> DEFINE t == call[c].todo \ {l}
  <2>1. Only(c) /\ call'[c] = [call[c] EXCEPT !.todo = t]
    BY <2>0 DEF Function, Only
  <2> HIDE DEF t
  <2>2. CallShape(call'[c]) /\ call'[c].step = call[c].step /\ call'[c].op = call[c].op
    BY <2>1 DEF CallShape
  <2>3. Empty(call'[c])
    BY <1>2, <2>2 DEF MissesCustomer, At, Empty, Holding
  <2> QED BY <1>2, <2>1, <2>3, Aloof, UnchangedShape DEF MissesCustomer, At, Reads
<1>3. CASE PutsCustomer(c)
  <2> DEFINE s == After(call[c].op)
  <2>2. s \notin Holding \cup {"readBill"}
    BY DEF After, Holding
  <2>3. Only(c) /\ call'[c] = [call[c] EXCEPT !.step = s, !.user = c]
    BY <1>3 DEF PutsCustomer, Function, Only
  <2> HIDE DEF s
  <2>4. CallShape(call'[c]) /\ call'[c].step = s /\ call'[c].op = call[c].op
    BY <2>3 DEF CallShape
  <2>5. Empty(call'[c])
    BY <1>3, <2>2, <2>4 DEF PutsCustomer, At, Empty
  <2> QED BY <1>3, <2>3, <2>5, Aloof, PutShape DEF PutsCustomer, At, Aside
<1>4. CASE ReadsWallet(c)
  <2>1. Only(c) /\ Empty(call'[c])
    <3>1. PICK w : IF w = NoRow THEN Goto(c, "putWallet") ELSE Answer(c, call[c].user)
      BY <1>4 DEF ReadsWallet
    <3>2. call[c].op # "continue"
      BY <1>4 DEF ReadsWallet, At
    <3> QED BY <3>1, <3>2, GotoEmpties, AnswerEmpties DEF Holding
  <2> QED BY <1>4, <2>1, Aloof, UnchangedShape DEF ReadsWallet, At, Reads
<1>5. CASE KeyTaken(c)
  BY <1>5, OverEmpties, Aloof, UnchangedShape DEF KeyTaken, Checks, Doing, Reads
<1>6. CASE KeySeemsFree(c)
  <2>1. PICK t : Only(c) /\ call'[c] = [call[c] EXCEPT !.todo = t]
    BY <1>6, KeySeemsFreeIs
  <2>2. CallShape(call'[c]) /\ call'[c].step = call[c].step /\ call'[c].op = call[c].op
    BY <2>1 DEF CallShape
  <2>3. call[c].op = "createUser" /\ call[c].step = "check" /\ UNCHANGED <<db, stale>>
    BY <1>6, KeySeemsFreeIs
  <2>4. Empty(call'[c])
    BY <2>2, <2>3 DEF Empty, Holding
  <2> QED BY <2>1, <2>3, <2>4, Aloof, UnchangedShape
<1>7. CASE PutsUser(c)
  BY <1>7, OverEmpties, Aloof, PutShape DEF PutsUser, Doing, Aside
<1>8. CASE StaffLogsIn(c)
  <2>1. Only(c) /\ Empty(call'[c])
    BY <1>8, OverEmpties, AnswerEmpties DEF StaffLogsIn, Doing
  <2> QED BY <1>8, <2>1, Aloof, UnchangedShape DEF StaffLogsIn, Doing, Reads
<1>9. CASE StaffUnknown(c)
  BY <1>9, OverEmpties, Aloof, UnchangedShape DEF StaffUnknown, Doing, Reads
<1>10. CASE ChangeReads(c)
  <2>1. Only(c) /\ Empty(call'[c])
    <3>1. CASE Over(c)
      BY <3>1, OverEmpties
    <3>2. ASSUME NEW row, call' = [call EXCEPT ![c].step = "put", ![c].row = row]
          PROVE  Only(c) /\ Empty(call'[c])
      <4>1. Only(c) /\ call'[c] = [call[c] EXCEPT !.step = "put", !.row = row]
        BY <3>2 DEF Function, Only
      <4>2. CallShape(call'[c]) /\ call'[c].step = "put" /\ call'[c].op = call[c].op
        BY <4>1 DEF CallShape
      <4> QED BY <1>10, <4>1, <4>2 DEF ChangeReads, Doing, Empty, Holding
    <3> QED BY <1>10, <3>1, <3>2 DEF ChangeReads
  <2> QED BY <1>10, <2>1, Aloof, UnchangedShape DEF ChangeReads, Doing, Reads
<1>11. CASE ChangePuts(c)
  BY <1>11, OverEmpties, Aloof, PutShape DEF ChangePuts, Doing, Aside
<1> QED BY <1>1, <1>2, <1>3, <1>4, <1>5, <1>6, <1>7, <1>8, <1>9, <1>10, <1>11 DEF AccountStep

-----------------------------------------------------------------------------
(* Sign-in *)

(* A ticket under a nonce that is free: its login is not done before, so   *)
(* no other ticket is of that login, and nobody has used it.               *)
LEMMA PutsTicketKeeps ==
  ASSUME IInv, NEW c \in Calls, PutsTicket(c)
  PROVE  IInv'
<1>1. PICK n \in Nonces :
        /\ db.tickets[n] = NoRow
        /\ db' = [db EXCEPT !.tickets[n] = NewTicket(c)]
        /\ call' = [call EXCEPT ![c] = [Answered(c, call[c].user) EXCEPT !.at = call[c].at, !.arg = n]]
  BY DEF PutsTicket, Absent
<1>2. call[c].step = "putTicket" /\ call[c].op # "continue" /\ stale' = stale
  BY AtWork DEF PutsTicket, At, Aside
<1> DEFINE t == NewTicket(c)
           a == Answered(c, call[c].user)
<1>3. t.by = c
  BY DEF NewTicket
<1>4. CallShape(a) /\ a.step = "done" /\ a.op = call[c].op
  BY AnsweredShape
<1>5. Only(c) /\ call'[c] = [a EXCEPT !.at = call[c].at, !.arg = n]
  BY <1>1, AtWork, OneCall
<1>6. StoreShape(db) /\ db' = [db EXCEPT !.tickets[n] = t]
  BY <1>1, AtWork
<1> HIDE DEF t, a
<1>7. CallShape(call'[c]) /\ call'[c].step = "done" /\ call'[c].op = call[c].op
  BY <1>4, <1>5 DEF CallShape
<1>8. /\ StoreShape(db') /\ db'.wallets = db.wallets /\ db'.bills = db.bills
      /\ db'.tickets = [db.tickets EXCEPT ![n] = t]
  BY <1>6 DEF StoreShape
<1>9. /\ Function(db'.tickets, Nonces) /\ db'.tickets[n] = t
      /\ \A m \in Nonces \ {n} : db'.tickets[m] = db.tickets[m]
  BY <1>8 DEF IInv, Shapes, Function
<1>10. Shapes'
  BY <1>2, <1>5, <1>7, <1>8, <1>9 DEF IInv, Shapes, Only
<1>11. StoredRows'
  BY <1>2, <1>8 DEF IInv, StoredRows
<1>12. HeldRows'
  BY <1>5, <1>7 DEF IInv, HeldRows, Holding, Only
<1>13. Tickets'
  <2>1. AnsweredBy("continue")' = AnsweredBy("continue")
    BY <1>2, <1>5, <1>7 DEF AnsweredBy, Only
  <2>2. \A d \in AnsweredBy("continue") :
          call'[d] = call[d] /\ d \in Calls /\ d # c /\ call[d].row.by # c
    BY <1>2, <1>5 DEF AnsweredBy, Only, IInv, Tickets
  <2>3. \A d \in Calls : call[d].step = "done" => call'[d].step = "done"
    BY <1>5, <1>7 DEF Only
  <2>4. \A m \in Nonces : db.tickets[m] # NoRow => db.tickets[m].by # c
    BY <1>2 DEF IInv, Tickets
  <2>5. \A d \in Calls : call'[d].op = "continue" =>
          call'[d].step = "done" \/ (call'[d].step = "delete" /\ call'[d].arg \in Nonces)
    <3>1. \A d \in Calls : call[d].op = "continue" =>
            call[d].step = "done" \/ (call[d].step = "delete" /\ call[d].arg \in Nonces)
      BY DEF IInv, Tickets
    <3> QED BY <1>5, <1>7, <3>1 DEF Only
  <2>6. \A m \in Nonces : db'.tickets[m] # NoRow =>
          db'.tickets[m].by \in Calls /\ call'[db'.tickets[m].by].step = "done"
    BY <1>3, <1>7, <1>9, <2>3 DEF IInv, Tickets
  <2>7. \A l, m \in Nonces :
          (db'.tickets[l] # NoRow /\ db'.tickets[m] # NoRow /\ db'.tickets[l].by = db'.tickets[m].by)
            => l = m
    BY <1>3, <1>9, <2>4 DEF IInv, Tickets
  <2>8. \A d \in AnsweredBy("continue") :
          /\ call'[d].row.by \in Calls /\ call'[call'[d].row.by].step = "done"
          /\ \A m \in Nonces : db'.tickets[m] # NoRow => db'.tickets[m].by # call'[d].row.by
    BY <1>3, <1>9, <2>2, <2>3 DEF IInv, Tickets
  <2>9. TicketsOnce'
    BY <2>1, <2>2 DEF IInv, Tickets, TicketsOnce
  <2> QED BY <2>1, <2>5, <2>6, <2>7, <2>8, <2>9 DEF Tickets
<1> QED BY <1>10, <1>11, <1>12, <1>13 DEF IInv

(* A ticket is gone with the first continue that asks for it. *)
LEMMA ContinuesKeeps ==
  ASSUME IInv, NEW c \in Calls, Continues(c)
  PROVE  IInv'
<1> DEFINE n == call[c].arg
           row == db.tickets[n]
<1>1. PICK u \in {NoUser} \cup (IF row # NoRow /\ ~(row.ttl < call[c].at) THEN {row.user} ELSE {}) :
        call' = [call EXCEPT ![c] = [Answered(c, u) EXCEPT !.row = row, !.arg = NoArg]]
  BY DEF Continues
<1>2. /\ call[c].op = "continue" /\ call[c].step = "delete" /\ stale' = stale /\ n \in Nonces
      /\ u # NoUser => row # NoRow
      /\ db' = [db EXCEPT !.tickets[n] = NoRow]
  BY <1>1, AtWork DEF Continues, Doing, Aside, Consumed
<1> DEFINE a == Answered(c, u)
<1>4. CallShape(a) /\ a.step = "done" /\ a.op = call[c].op /\ a.user = u
  BY AnsweredShape
<1>5. Only(c) /\ call'[c] = [a EXCEPT !.row = row, !.arg = NoArg]
  BY <1>1, AtWork, OneCall
<1>6. StoreShape(db)
  BY AtWork
<1> HIDE DEF a
<1>7. /\ CallShape(call'[c]) /\ call'[c].step = "done" /\ call'[c].op = "continue"
      /\ call'[c].user = u /\ call'[c].row = row
  BY <1>2, <1>4, <1>5 DEF CallShape
<1>8. /\ StoreShape(db') /\ db'.wallets = db.wallets /\ db'.bills = db.bills
      /\ db'.tickets = [db.tickets EXCEPT ![n] = NoRow]
  BY <1>2, <1>6 DEF StoreShape
<1>9. /\ Function(db'.tickets, Nonces) /\ db'.tickets[n] = NoRow
      /\ \A m \in Nonces \ {n} : db'.tickets[m] = db.tickets[m]
  BY <1>2, <1>8 DEF IInv, Shapes, Function
<1>10. Shapes'
  BY <1>2, <1>5, <1>7, <1>8, <1>9 DEF IInv, Shapes, Only
<1>11. StoredRows'
  BY <1>2, <1>8 DEF IInv, StoredRows
<1>12. HeldRows'
  BY <1>5, <1>7 DEF IInv, HeldRows, Holding, Only
<1>13. Tickets'
  <2>1. /\ AnsweredBy("continue")' \subseteq AnsweredBy("continue") \cup {c}
        /\ c \in AnsweredBy("continue")' => row # NoRow
        /\ c \notin AnsweredBy("continue")
    BY <1>2, <1>5, <1>7 DEF AnsweredBy, Only
  <2>2. \A d \in AnsweredBy("continue") : call'[d] = call[d] /\ d \in Calls /\ d # c
    BY <1>5, <2>1 DEF AnsweredBy, Only
  <2>3. \A d \in Calls : call[d].step = "done" => call'[d].step = "done"
    BY <1>5, <1>7 DEF Only
  <2>4. row # NoRow => row.by \in Calls /\ call[row.by].step = "done"
    BY <1>2 DEF IInv, Tickets
  <2>5. \A d \in Calls : call'[d].op = "continue" =>
          call'[d].step = "done" \/ (call'[d].step = "delete" /\ call'[d].arg \in Nonces)
    <3>1. \A d \in Calls : call[d].op = "continue" =>
            call[d].step = "done" \/ (call[d].step = "delete" /\ call[d].arg \in Nonces)
      BY DEF IInv, Tickets
    <3> QED BY <1>5, <1>7, <3>1 DEF Only
  <2>6. \A m \in Nonces : db'.tickets[m] # NoRow =>
          db'.tickets[m].by \in Calls /\ call'[db'.tickets[m].by].step = "done"
    BY <1>9, <2>3 DEF IInv, Tickets
  <2>7. \A l, m \in Nonces :
          (db'.tickets[l] # NoRow /\ db'.tickets[m] # NoRow /\ db'.tickets[l].by = db'.tickets[m].by)
            => l = m
    BY <1>9 DEF IInv, Tickets
  <2>8. ASSUME NEW d \in AnsweredBy("continue")'
        PROVE  /\ call'[d].row.by \in Calls /\ call'[call'[d].row.by].step = "done"
               /\ \A m \in Nonces : db'.tickets[m] # NoRow => db'.tickets[m].by # call'[d].row.by
    <3>1. CASE d = c
      <4>1. \A m \in Nonces \ {n} : db.tickets[m] # NoRow => db.tickets[m].by # row.by
        BY <1>2, <2>1, <3>1 DEF IInv, Tickets
      <4> QED BY <1>7, <1>9, <2>1, <2>3, <2>4, <3>1, <4>1
    <3>2. CASE d # c
      <4>1. d \in AnsweredBy("continue")
        BY <2>1, <3>2
      <4> QED BY <1>9, <2>2, <2>3, <4>1 DEF IInv, Tickets
    <3> QED BY <3>1, <3>2
  <2>9. TicketsOnce'
    <3>1. \A d \in AnsweredBy("continue") : row # NoRow => call[d].row.by # row.by
      BY <1>2 DEF IInv, Tickets
    <3> QED BY <1>7, <2>1, <2>2, <3>1 DEF IInv, Tickets, TicketsOnce
  <2> QED BY <2>5, <2>6, <2>7, <2>8, <2>9 DEF Tickets
<1> QED BY <1>10, <1>11, <1>12, <1>13 DEF IInv

LEMMA SignInKeeps ==
  ASSUME IInv, NEW c \in Calls, SignInStep(c)
  PROVE  IInv'
<1> USE AtWork
<1>1. CASE SendReads(c)
  <2>1. Only(c) /\ Empty(call'[c])
    <3>1. CASE Over(c)
      BY <3>1, OverEmpties
    <3>2. ASSUME NEW code, call' = [call EXCEPT ![c].step = "put", ![c].given = code]
          PROVE  Only(c) /\ Empty(call'[c])
      <4>1. Only(c) /\ call'[c] = [call[c] EXCEPT !.step = "put", !.given = code]
        BY <3>2 DEF Function, Only
      <4>2. CallShape(call'[c]) /\ call'[c].step = "put" /\ call'[c].op = call[c].op
        BY <4>1 DEF CallShape
      <4> QED BY <1>1, <4>1, <4>2 DEF SendReads, Doing, Empty, Holding
    <3> QED BY <1>1, <3>1, <3>2 DEF SendReads
  <2> QED BY <1>1, <2>1, Aloof, UnchangedShape DEF SendReads, Doing, Reads
<1>2. CASE SendPuts(c)
  BY <1>2, OverEmpties, Aloof, PutShape DEF SendPuts, Doing, Aside
<1>3. CASE VerifyReads(c)
  <2>1. Only(c) /\ Empty(call'[c])
    <3>1. CASE Over(c)
      BY <3>1, OverEmpties
    <3>2. ASSUME NEW row, NEW s \in {"delete", "count"},
                 call' = [call EXCEPT ![c].row = row, ![c].step = s]
          PROVE  Only(c) /\ Empty(call'[c])
      <4>1. Only(c) /\ call'[c] = [call[c] EXCEPT !.row = row, !.step = s]
        BY <3>2 DEF Function, Only
      <4>2. CallShape(call'[c]) /\ call'[c].step = s /\ call'[c].op = call[c].op
        BY <4>1 DEF CallShape
      <4> QED BY <1>3, <4>1, <4>2 DEF VerifyReads, Doing, Empty, Holding
    <3>3. PICK row : IF ~Open(row, call[c].at) THEN Over(c) ELSE
            call' = [call EXCEPT ![c].row = row,
                                 ![c].step = IF row.code = call[c].given THEN "delete" ELSE "count"]
      BY <1>3 DEF VerifyReads
    <3> QED BY <3>1, <3>2, <3>3
  <2> QED BY <1>3, <2>1, Aloof, UnchangedShape DEF VerifyReads, Doing, Reads
<1>4. CASE VerifyCounts(c)
  <2>1. Only(c) /\ Empty(call'[c])
    BY <1>4, AnswerEmpties DEF VerifyCounts
  <2>2. UNCHANGED db \/ \E k, row : db' = [db EXCEPT !.challenges[k] = row]
    BY <1>4 DEF VerifyCounts
  <2> QED BY <1>4, <2>1, <2>2, Aloof, UnchangedShape, PutShape DEF VerifyCounts, Doing
<1>5. CASE VerifyDeletes(c)
  <2>1. Only(c) /\ call'[c] = Onboarding(call[c], call[c].key) /\ call[c].op = "verify"
    BY <1>5, OneCall DEF VerifyDeletes, Doing
  <2>2. Empty(call'[c])
    <3>1. CASE call'[c] = [call[c] EXCEPT !.step = "done"]
      BY <2>1, <3>1 DEF CallShape, Empty, Holding
    <3>2. ASSUME NEW k, NEW todo, call'[c] = [call[c] EXCEPT !.step = "lookup", !.key = k, !.todo = todo]
          PROVE  Empty(call'[c])
      <4>1. CallShape(call'[c]) /\ call'[c].step = "lookup" /\ call'[c].op = "verify"
        BY <2>1, <3>2 DEF CallShape
      <4> QED BY <4>1 DEF Empty, Holding
    <3> DEFINE todo == LookupKeys(call[c].key)
    <3>3. \/ call'[c] = [call[c] EXCEPT !.step = "done"]
          \/ call'[c] = [call[c] EXCEPT !.step = "lookup", !.key = call[c].key, !.todo = todo]
      BY <2>1 DEF Onboarding
    <3> HIDE DEF todo
    <3> QED BY <3>1, <3>2, <3>3
  <2>3. \E k, row : db' = [db EXCEPT !.challenges[k] = row]
    BY <1>5 DEF VerifyDeletes
  <2> QED BY <1>5, <2>1, <2>2, <2>3, Aloof, PutShape DEF VerifyDeletes, Doing, Aside
<1>6. CASE PutsTicket(c)
  BY <1>6, PutsTicketKeeps
<1>7. CASE NonceInUse(c)
  <2>1. Only(c) /\ Empty(call'[c])
    <3>1. CASE Over(c)
      BY <3>1, OverEmpties
    <3>2. CASE call' = [call EXCEPT ![c].tries = @ + 1]
      <4> DEFINE t == call[c].tries + 1
      <4>1. Only(c) /\ call'[c] = [call[c] EXCEPT !.tries = t]
        BY <3>2 DEF Function, Only
      <4> HIDE DEF t
      <4>2. CallShape(call'[c]) /\ call'[c].step = call[c].step /\ call'[c].op = call[c].op
        BY <4>1 DEF CallShape
      <4> QED BY <1>7, <4>1, <4>2 DEF NonceInUse, At, Empty, Holding
    <3> QED BY <1>7, <3>1, <3>2 DEF NonceInUse
  <2> QED BY <1>7, <2>1, Aloof, UnchangedShape DEF NonceInUse, At, Reads
<1>8. CASE Continues(c)
  BY <1>8, ContinuesKeeps
<1> QED BY <1>1, <1>2, <1>3, <1>4, <1>5, <1>6, <1>7, <1>8 DEF SignInStep

-----------------------------------------------------------------------------
(* Addresses *)

LEMMA AddressKeeps ==
  ASSUME IInv, NEW c \in Calls, AddressStep(c)
  PROVE  IInv'
<1> USE AtWork
<1>1. CASE SaveLists(c)
  <2>1. PICK i, row : call' = [call EXCEPT ![c].step = "put", ![c].arg = i, ![c].row = row]
    BY <1>1 DEF SaveLists
  <2>2. Only(c) /\ call'[c] = [call[c] EXCEPT !.step = "put", !.arg = i, !.row = row]
    BY <2>1 DEF Function, Only
  <2>3. CallShape(call'[c]) /\ call'[c].step = "put" /\ call'[c].op = call[c].op
    BY <2>2 DEF CallShape
  <2>4. Empty(call'[c])
    BY <1>1, <2>3 DEF SaveLists, Doing, Empty, Holding
  <2> QED BY <1>1, <2>2, <2>4, Aloof, UnchangedShape DEF SaveLists, Doing, Reads
<1>2. CASE SavePuts(c)
  BY <1>2, OverEmpties, Aloof, PutShape DEF SavePuts, At, Aside
<1>3. CASE DeleteReads(c)
  <2>1. Only(c) /\ Empty(call'[c])
    BY <1>3, OverEmpties, GotoEmpties DEF DeleteReads, Doing, Holding
  <2> QED BY <1>3, <2>1, Aloof, UnchangedShape DEF DeleteReads, Doing, Reads
<1>4. CASE Deletes(c)
  BY <1>4, OverEmpties, Aloof, PutShape DEF Deletes, Doing, Aside
<1> QED BY <1>1, <1>2, <1>3, <1>4 DEF AddressStep

-----------------------------------------------------------------------------
(* Points *)

(* A wallet or a bill that accounts for itself may replace any other. *)
LEMMA WalletPut ==
  ASSUME IInv, NEW c \in Calls, Only(c), CallShape(call'[c]), NEW u, NEW w, WalletRow(w),
         db' = [db EXCEPT !.wallets[u] = w], stale' = stale
  PROVE  Shapes' /\ StoredRows' /\ db'.tickets = db.tickets
<1>1. /\ StoreShape(db') /\ db'.bills = db.bills /\ db'.tickets = db.tickets
      /\ db'.wallets = [db.wallets EXCEPT ![u] = w]
  BY DEF IInv, Shapes, StoreShape
<1>2. /\ Function(db'.wallets, Ids)
      /\ \A v \in Ids : db'.wallets[v] = w \/ db'.wallets[v] = db.wallets[v]
  BY <1>1 DEF IInv, Shapes, Function
<1>3. Shapes'
  BY <1>1, <1>2 DEF IInv, Shapes, Only
<1>4. StoredRows'
  BY <1>1, <1>2 DEF IInv, StoredRows
<1> QED BY <1>1, <1>3, <1>4

LEMMA BillPut ==
  ASSUME IInv, NEW c \in Calls, Only(c), CallShape(call'[c]), NEW b, NEW bill, BillRow(bill),
         db' = [db EXCEPT !.bills[b] = bill], stale' = stale
  PROVE  Shapes' /\ StoredRows' /\ db'.tickets = db.tickets
<1>1. /\ StoreShape(db') /\ db'.wallets = db.wallets /\ db'.tickets = db.tickets
      /\ db'.bills = [db.bills EXCEPT ![b] = bill]
  BY DEF IInv, Shapes, StoreShape
<1>2. /\ Function(db'.bills, Bills)
      /\ \A v \in Bills : db'.bills[v] = bill \/ db'.bills[v] = db.bills[v]
  BY <1>1 DEF IInv, Shapes, Function
<1>3. Shapes'
  BY <1>1, <1>2 DEF IInv, Shapes, Only
<1>4. StoredRows'
  BY <1>1, <1>2 DEF IInv, StoredRows
<1> QED BY <1>1, <1>3, <1>4

LEMMA PutsEmptyWalletKeeps ==
  ASSUME IInv, NEW c \in Calls, PutsEmptyWallet(c)
  PROVE  IInv'
<1>1. /\ call[c].step = "putWallet" /\ call[c].op # "continue" /\ stale' = stale
      /\ db' = [db EXCEPT !.wallets[call[c].user] = EmptyWallet]
  BY AtWork DEF PutsEmptyWallet, At, Aside
<1>2. Only(c) /\ Empty(call'[c])
  BY <1>1, AnswerEmpties DEF PutsEmptyWallet
<1>3. WalletRow(EmptyWallet)
  BY DEF EmptyWallet, WalletRow, Accounted
<1>4. Shapes' /\ StoredRows' /\ db'.tickets = db.tickets
  BY <1>1, <1>2, <1>3, WalletPut DEF Empty
<1>5. HeldRows'
  BY <1>2 DEF IInv, HeldRows, Holding, Only, Empty
<1>6. Tickets'
  BY <1>1, <1>2, <1>4, TicketsStay DEF Empty
<1> QED BY <1>4, <1>5, <1>6 DEF IInv

(* A call of points that goes on: what it now holds accounts for itself. *)
LEMMA PointsGoOn ==
  ASSUME IInv, NEW c \in Calls, call[c].op # "continue", call[c].step \in Holding \cup {"readBill"},
         Only(c), CallShape(call'[c]), call'[c].op = call[c].op,
         call'[c].step \in Holding,
         call'[c].arg = call[c].arg, call'[c].user = call[c].user,
         BillRow(call'[c].billRow), call'[c].step = "putPoints" => Accounted(call'[c].row)
  PROVE  /\ HeldRows'
         /\ (UNCHANGED <<db, stale>> => IInv')
         /\ (db'.tickets = db.tickets => Tickets')
<1>1. HeldRows'
  BY DEF IInv, HeldRows, Only
<1>2. call[c].step # "done"
  BY DEF Holding
<1>3. db'.tickets = db.tickets => Tickets'
  BY <1>2, TicketsStay
<1>4. UNCHANGED <<db, stale>> => Shapes' /\ StoredRows'
  BY DEF IInv, Shapes, StoredRows, Only
<1> QED BY <1>1, <1>3, <1>4 DEF IInv

LEMMA LoyaltyKeeps ==
  ASSUME IInv, NEW c \in Calls, LoyaltyStep(c)
  PROVE  IInv'
<1> DEFINE bill == call[c].billRow
           u == call[c].user
<1>0. CallShape(call[c]) /\ Function(call, Calls)
  BY AtWork
<1>1. CASE ReadsBill(c)
  <2>1. PICK b \in SeenBill(call[c].arg) :
          call' = [call EXCEPT ![c].step = "readPoints", ![c].billRow = b]
    BY <1>1 DEF ReadsBill
  <2>2. call[c].step = "readBill" /\ UNCHANGED <<db, stale>>
    BY <1>1 DEF ReadsBill, At, Reads
  <2>3. BillRow(b) /\ call[c].op # "continue"
    BY <2>1, <2>2 DEF IInv, HeldRows, StoredRows, SeenBill, Tickets
  <2>4. Only(c) /\ call'[c] = [call[c] EXCEPT !.step = "readPoints", !.billRow = b]
    BY <2>1, <1>0 DEF Function, Only
  <2>5. /\ CallShape(call'[c]) /\ call'[c].step = "readPoints" /\ call'[c].billRow = b
        /\ call'[c].op = call[c].op /\ call'[c].arg = call[c].arg /\ call'[c].user = u
    BY <2>4, <1>0 DEF CallShape
  <2> QED BY <2>2, <2>3, <2>4, <2>5, PointsGoOn DEF Holding
<1>2. ASSUME call[c].step = "readPoints", call[c].op # "continue", Over(c), UNCHANGED <<db, stale>>
      PROVE  IInv'
  BY <1>2, OverEmpties, Aloof, UnchangedShape
<1>3. ASSUME call[c].step = "readPoints", call[c].op # "continue", UNCHANGED <<db, stale>>,
             NEW w, Accounted(w), NEW b, BillRow(b),
             call' = [call EXCEPT ![c].step = "putPoints", ![c].row = w, ![c].billRow = b]
      PROVE  IInv'
  <2>1. Only(c) /\ call'[c] = [call[c] EXCEPT !.step = "putPoints", !.row = w, !.billRow = b]
    BY <1>3, <1>0 DEF Function, Only
  <2>2. /\ CallShape(call'[c]) /\ call'[c].step = "putPoints" /\ call'[c].billRow = b
        /\ call'[c].row = w
        /\ call'[c].op = call[c].op /\ call'[c].arg = call[c].arg /\ call'[c].user = u
    BY <2>1, <1>0 DEF CallShape
  <2> QED BY <1>3, <2>1, <2>2, PointsGoOn DEF Holding
<1>4. ASSUME call[c].step = "readPoints"
      PROVE  /\ BillRow(bill) /\ \A w \in SeenWallet(u) : WalletRow(w)
             /\ bill.total \in Int
  BY <1>4 DEF IInv, HeldRows, StoredRows, SeenWallet, Holding, BillRow, BillShape
<1>5. CASE AddPointsDecides(c)
  <2>1. call[c].step = "readPoints" /\ call[c].op # "continue" /\ UNCHANGED <<db, stale>>
    BY <1>5 DEF AddPointsDecides, Doing, Reads
  <2>2. PICK w \in SeenWallet(u) :
          IF ForAnother(bill, u) \/ Awarded(bill) THEN Over(c) ELSE
            call' = [call EXCEPT
              ![c].step = "putPoints",
              ![c].row = Credited(Points(w), PointsFromSpend(bill.total)),
              ![c].billRow = AwardedBill(bill, u)]
    BY <1>5 DEF AddPointsDecides
  <2>3. PointsFromSpend(bill.total) \in Int
    BY <1>4, <2>1, LoyaltyAssumption, SMT DEF PointsFromSpend
  <2>4. Accounted(Credited(Points(w), PointsFromSpend(bill.total))) /\ BillRow(AwardedBill(bill, u))
    BY <1>4, <2>1, <2>3, PointsAccount, CreditAccounts, AwardKeepsPrice
  <2> QED BY <1>2, <1>3, <2>1, <2>2, <2>4
<1>6. CASE RedeemDecides(c)
  <2>1. call[c].step = "readPoints" /\ call[c].op # "continue" /\ UNCHANGED <<db, stale>>
    BY <1>6 DEF RedeemDecides, Doing, Reads
  <2>2. PICK w \in SeenWallet(u) :
          LET discount == Discount(bill.total, Points(w).balance) IN
          IF ForAnother(bill, u) \/ Redeemed(bill) \/ discount = 0 THEN Over(c) ELSE
            call' = [call EXCEPT
              ![c].step = "putPoints",
              ![c].row = Debited(Points(w), discount),
              ![c].billRow = RedeemedBill(bill, u, discount)]
    BY <1>6 DEF RedeemDecides
  <2> DEFINE discount == Discount(bill.total, Points(w).balance)
  <2>3. Accounted(Points(w)) /\ Points(w).balance \in Int
    BY <1>4, <2>1, PointsAccount DEF Accounted
  <2>4. discount \in Int /\ discount <= bill.total
    BY <1>4, <2>1, <2>3, DiscountBounded
  <2>5. \/ Over(c)
        \/ call' = [call EXCEPT ![c].step = "putPoints", ![c].row = Debited(Points(w), discount),
                                ![c].billRow = RedeemedBill(bill, u, discount)]
    BY <2>2
  <2> HIDE DEF discount
  <2>6. Accounted(Debited(Points(w), discount)) /\ BillRow(RedeemedBill(bill, u, discount))
    BY <1>4, <2>1, <2>3, <2>4, DebitAccounts, RedeemKeepsPrice
  <2> QED BY <1>2, <1>3, <2>1, <2>5, <2>6
<1>7. CASE PutsPoints(c)
  <2>1. /\ call[c].step = "putPoints" /\ stale' = stale /\ Goto(c, "putBill")
        /\ db' = [db EXCEPT !.wallets[u] = call[c].row]
    BY <1>7 DEF PutsPoints, At, Aside
  <2>2. /\ WalletRow(call[c].row) /\ BillRow(bill) /\ call[c].op # "continue"
    BY <2>1 DEF IInv, HeldRows, Holding, Tickets, WalletRow
  <2>3. Only(c) /\ call'[c] = [call[c] EXCEPT !.step = "putBill"]
    BY <2>1, <1>0 DEF Goto, Function, Only
  <2>4. /\ CallShape(call'[c]) /\ call'[c].step = "putBill" /\ call'[c].billRow = bill
        /\ call'[c].op = call[c].op /\ call'[c].arg = call[c].arg /\ call'[c].user = u
    BY <2>3, <1>0 DEF CallShape
  <2>5. Shapes' /\ StoredRows' /\ db'.tickets = db.tickets
    BY <2>1, <2>2, <2>3, <2>4, WalletPut
  <2>6. HeldRows' /\ Tickets'
    BY <2>1, <2>2, <2>3, <2>4, <2>5, PointsGoOn DEF Holding
  <2> QED BY <2>5, <2>6 DEF IInv
<1>8. CASE PutsBill(c)
  <2>1. /\ call[c].step = "putBill" /\ stale' = stale /\ Over(c)
        /\ db' = [db EXCEPT !.bills[call[c].arg] = bill]
    BY <1>8 DEF PutsBill, At, Aside
  <2>2. BillRow(bill)
    BY <2>1 DEF IInv, HeldRows, Holding
  <2>3. Only(c) /\ Empty(call'[c])
    BY <2>1, OverEmpties
  <2>4. Shapes' /\ StoredRows' /\ db'.tickets = db.tickets
    BY <2>1, <2>2, <2>3, BillPut DEF Empty
  <2>5. HeldRows'
    BY <2>3 DEF IInv, HeldRows, Holding, Only, Empty
  <2>6. Tickets'
    BY <2>1, <2>3, <2>4, TicketsStay DEF Empty
  <2> QED BY <2>4, <2>5, <2>6 DEF IInv
<1> QED BY <1>1, <1>5, <1>6, <1>7, <1>8 DEF LoyaltyStep

-----------------------------------------------------------------------------
(* What clients ask for *)

LEMMA AsksShape ==
  ASSUME NEW o, NEW s, NEW r, r = Asks(o, s) \/ r = Timed(o, s)
  PROVE  CallShape(r) /\ r.op = o /\ r.step = s
<1>1. ASSUME NEW q, q = Asks(o, s)
      PROVE  CallShape(q) /\ q.op = o /\ q.step = s
  BY <1>1, BlankShape DEF Asks, CallShape
<1>2. CASE r = Asks(o, s)
  BY <1>1, <1>2
<1>3. CASE r = Timed(o, s)
  <2>1. PICK q : q = Asks(o, s)
    OBVIOUS
  <2>2. r = [q EXCEPT !.at = now]
    BY <1>3, <2>1 DEF Timed
  <2> QED BY <1>1, <2>1, <2>2 DEF CallShape
<1> QED BY <1>2, <1>3

(* A request that names no bill and consumes no ticket *)
Plain(r) == CallShape(r) /\ r.op # "continue" /\ r.step \notin Holding \cup {"readBill"}

LEMMA OnboardingPlain ==
  ASSUME NEW q, CallShape(q), q.op # "continue", NEW k, NEW r, r = Onboarding(q, k)
  PROVE  Plain(r)
<1> DEFINE todo == LookupKeys(k)
<1>1. \/ r = [q EXCEPT !.step = "done"]
      \/ r = [q EXCEPT !.step = "lookup", !.key = k, !.todo = todo]
  BY DEF Onboarding
<1> HIDE DEF todo
<1>2. CASE r = [q EXCEPT !.step = "done"]
  BY <1>2 DEF Plain, CallShape, Holding
<1>3. CASE r = [q EXCEPT !.step = "lookup", !.key = k, !.todo = todo]
  BY <1>3 DEF Plain, CallShape, Holding
<1> QED BY <1>1, <1>2, <1>3

LEMMA WalletsOfPlain ==
  ASSUME NEW keys, NEW r \in WalletsOf(keys)
  PROVE  Plain(r)
<1>1. PICK q, k : q = Asks("wallet", "idle") /\ r = Onboarding(q, Canon(k))
  BY DEF WalletsOf
<1> QED BY <1>1, AsksShape, OnboardingPlain

LEMMA PlainEmpty ==
  ASSUME NEW r, Plain(r)
  PROVE  Empty(r)
BY DEF Plain, Empty

LEMMA StaffPlain ==
  ASSUME NEW a, NEW b, NEW c, NEW r, r \in {StaffLogin(a, b), CreateUser(a), ChangePassword(a, b, c)}
  PROVE  Plain(r)
<1>1. CASE r = StaffLogin(a, b)
  <2> DEFINE q == Asks("staffLogin", "read")
  <2>1. CallShape(q) /\ q.op = "staffLogin" /\ q.step = "read"
    BY AsksShape
  <2>2. r = [q EXCEPT !.key = a, !.given = b]
    BY <1>1 DEF StaffLogin
  <2> HIDE DEF q
  <2> QED BY <2>1, <2>2 DEF CallShape, Plain, Holding
<1>2. CASE r = CreateUser(a)
  <2> DEFINE q == Asks("createUser", "check")
  <2>1. CallShape(q) /\ q.op = "createUser" /\ q.step = "check"
    BY AsksShape
  <2>2. PICK t : r = [q EXCEPT !.row = a, !.todo = t]
    BY <1>2 DEF CreateUser
  <2> HIDE DEF q
  <2> QED BY <2>1, <2>2 DEF CallShape, Plain, Holding
<1>3. CASE r = ChangePassword(a, b, c)
  <2> DEFINE q == Asks("changePassword", "read")
  <2>1. CallShape(q) /\ q.op = "changePassword" /\ q.step = "read"
    BY AsksShape
  <2>2. r = [q EXCEPT !.user = a, !.given = b, !.arg = c]
    BY <1>3 DEF ChangePassword
  <2> HIDE DEF q
  <2> QED BY <2>1, <2>2 DEF CallShape, Plain, Holding
<1> QED BY <1>1, <1>2, <1>3

LEMMA SignInPlain ==
  ASSUME NEW a, NEW b, NEW r, r \in {Send(a), Verify(a, b)}
  PROVE  Plain(r)
<1>1. CASE r = Send(a)
  <2> DEFINE q == Timed("send", "read")
  <2>1. CallShape(q) /\ q.op = "send" /\ q.step = "read"
    BY AsksShape
  <2>2. r = [q EXCEPT !.key = a]
    BY <1>1 DEF Send
  <2> HIDE DEF q
  <2> QED BY <2>1, <2>2 DEF CallShape, Plain, Holding
<1>2. CASE r = Verify(a, b)
  <2> DEFINE q == Timed("verify", "read")
  <2>1. CallShape(q) /\ q.op = "verify" /\ q.step = "read"
    BY AsksShape
  <2>2. r = [q EXCEPT !.key = a, !.given = b]
    BY <1>2 DEF Verify
  <2> HIDE DEF q
  <2> QED BY <2>1, <2>2 DEF CallShape, Plain, Holding
<1> QED BY <1>1, <1>2

LEMMA AddressPlain ==
  ASSUME NEW a, NEW b, NEW r, r \in {Save(a), SaveAs(a, b), DeleteAddress(a)}
  PROVE  Plain(r)
<1>1. CASE r = Save(a)
  <2> DEFINE q == Timed("save", "read")
  <2>1. CallShape(q) /\ q.op = "save" /\ q.step = "read"
    BY AsksShape
  <2>2. r = [q EXCEPT !.arg = a]
    BY <1>1 DEF Save
  <2> HIDE DEF q
  <2> QED BY <2>1, <2>2 DEF CallShape, Plain, Holding
<1>2. CASE r = SaveAs(a, b)
  <2> DEFINE q == Timed("saveAs", "put")
             row == [label |-> b, at |-> now]
  <2>1. CallShape(q) /\ q.op = "saveAs" /\ q.step = "put"
    BY AsksShape
  <2>2. r = [q EXCEPT !.arg = a, !.row = row]
    BY <1>2 DEF SaveAs
  <2> HIDE DEF q, row
  <2> QED BY <2>1, <2>2 DEF CallShape, Plain, Holding
<1>3. CASE r = DeleteAddress(a)
  <2> DEFINE q == Asks("deleteAddress", "read")
  <2>1. CallShape(q) /\ q.op = "deleteAddress" /\ q.step = "read"
    BY AsksShape
  <2>2. r = [q EXCEPT !.arg = a]
    BY <1>3 DEF DeleteAddress
  <2> HIDE DEF q
  <2> QED BY <2>1, <2>2 DEF CallShape, Plain, Holding
<1> QED BY <1>1, <1>2, <1>3

LEMMA ContinueEmpty ==
  ASSUME NEW n \in Nonces, NEW r, r = Continue(n)
  PROVE  Empty(r)
<1> DEFINE q == Timed("continue", "delete")
<1>1. CallShape(q) /\ q.step = "delete"
  BY AsksShape
<1>2. r = [q EXCEPT !.arg = n]
  BY DEF Continue
<1> HIDE DEF q
<1>3. CallShape(r) /\ r.step = "delete" /\ r.arg = n
  BY <1>1, <1>2 DEF CallShape
<1> QED BY <1>3 DEF Empty, Holding

LEMMA OnBillEmpty ==
  ASSUME NEW o \in {"addPoints", "redeem"}, NEW u \in Ids, NEW b \in Bills, NEW r, r = OnBill(o, u, b)
  PROVE  Empty(r)
<1> DEFINE q == Asks(o, "readBill")
<1>1. CallShape(q) /\ q.op = o /\ q.step = "readBill"
  BY AsksShape
<1>2. r = [q EXCEPT !.user = u, !.arg = b]
  BY DEF OnBill
<1> HIDE DEF q
<1>3. CallShape(r) /\ r.op = o /\ r.step = "readBill" /\ r.user = u /\ r.arg = b
  BY <1>1, <1>2 DEF CallShape
<1> QED BY <1>3 DEF Empty, Holding

(* What the staff's clients ask for *)
LEMMA StaffRequestIs ==
  ASSUME NEW r \in StaffRequests
  PROVE  \/ \E k \in Keys, p \in Passwords : r = StaffLogin(k, p)
         \/ \E user \in UserType : KeysOf(user) \subseteq Keys /\ r = CreateUser(user)
         \/ \E u \in Ids, g \in Passwords \cup {NoSecret}, p \in Passwords : r = ChangePassword(u, g, p)
<1>1. CASE r \in {StaffLogin(k, p) : k \in Keys, p \in Passwords}
  BY <1>1
<1>2. CASE r \in {CreateUser(user) : user \in NewUsers}
  <2>1. PICK user \in NewUsers : r = CreateUser(user)
    BY <1>2
  <2>2. user \in UserType /\ KeysOf(user) \subseteq Keys
    BY DEF NewUsers
  <2> QED BY <2>1, <2>2
<1>3. CASE r \in {ChangePassword(u, g, p) : u \in {v \in Ids : db.users[v] # NoRow},
                                            g \in Passwords \cup {NoSecret}, p \in Passwords}
  <2>1. PICK u \in {v \in Ids : db.users[v] # NoRow}, g \in Passwords \cup {NoSecret},
            p \in Passwords : r = ChangePassword(u, g, p)
    BY <1>3
  <2> QED BY <2>1
<1> QED BY <1>1, <1>2, <1>3 DEF StaffRequests

LEMMA RequestsEmpty ==
  ASSUME NEW r \in Requests
  PROVE  Empty(r)
<1>1. CASE r \in OnboardRequests
  <2>1. PICK q, k : q = Asks("onboard", "idle") /\ r = Onboarding(q, k)
    BY <1>1 DEF OnboardRequests
  <2> QED BY <2>1, AsksShape, OnboardingPlain, PlainEmpty
<1>2. CASE r \in WalletRequests
  BY <1>2, WalletsOfPlain, PlainEmpty DEF WalletRequests
<1>3. CASE r \in StaffRequests
  <2>1. PICK a, b, c : r \in {StaffLogin(a, b), CreateUser(a), ChangePassword(a, b, c)}
    BY <1>3, StaffRequestIs
  <2> QED BY <2>1, StaffPlain, PlainEmpty
<1>4. CASE r \in InboundRequests
  <2>1. CASE r \in WalletsOf(BalanceKeys)
    BY <2>1, WalletsOfPlain, PlainEmpty
  <2>2. CASE r \notin WalletsOf(BalanceKeys)
    <3>1. PICK q, k : q = Timed("login", "idle") /\ r = Onboarding(q, k)
      BY <1>4, <2>2 DEF InboundRequests
    <3> QED BY <3>1, AsksShape, OnboardingPlain, PlainEmpty
  <2> QED BY <2>1, <2>2
<1>5. CASE r \in SignInRequests
  BY <1>5, SignInPlain, ContinueEmpty, PlainEmpty DEF SignInRequests
<1>6. CASE r \in LoyaltyRequests
  BY <1>6, OnBillEmpty DEF LoyaltyRequests
<1>7. CASE r \in AddressRequests
  BY <1>7, AddressPlain, PlainEmpty DEF AddressRequests
<1> QED BY <1>1, <1>2, <1>3, <1>4, <1>5, <1>6, <1>7 DEF Requests

-----------------------------------------------------------------------------
(* The whole service *)

LEMMA SweepsTicketKeeps ==
  ASSUME IInv, SweepsTicket
  PROVE  IInv'
<1>1. PICK n \in Nonces : db' = [db EXCEPT !.tickets[n] = NoRow]
  BY DEF SweepsTicket
<1>2. UNCHANGED <<stale, call>>
  BY DEF SweepsTicket
<1>3. /\ StoreShape(db') /\ db'.wallets = db.wallets /\ db'.bills = db.bills
      /\ db'.tickets = [db.tickets EXCEPT ![n] = NoRow]
  BY <1>1 DEF IInv, Shapes, StoreShape
<1>4. /\ Function(db'.tickets, Nonces)
      /\ \A m \in Nonces : db'.tickets[m] = NoRow \/ db'.tickets[m] = db.tickets[m]
  BY <1>3 DEF IInv, Shapes, Function
<1>5. Shapes' /\ StoredRows' /\ HeldRows'
  BY <1>2, <1>3, <1>4 DEF IInv, Shapes, StoredRows, HeldRows
<1>6. AnsweredBy("continue")' = AnsweredBy("continue")
  BY <1>2 DEF AnsweredBy
<1>7. Tickets'
  BY <1>2, <1>4, <1>6 DEF IInv, Tickets, TicketsOnce
<1> QED BY <1>5, <1>7 DEF IInv

(* Rows a call does not touch *)
LEMMA SameRows ==
  ASSUME IInv, UNCHANGED call, StoreShape(db'), db'.wallets = db.wallets,
         db'.bills = db.bills, db'.tickets = db.tickets, stale' \in {stale, db}
  PROVE  IInv'
<1>1. Shapes' /\ StoredRows' /\ HeldRows'
  BY DEF IInv, Shapes, StoredRows, HeldRows
<1>2. AnsweredBy("continue")' = AnsweredBy("continue")
  BY DEF AnsweredBy
<1>3. Tickets'
  BY <1>2 DEF IInv, Tickets, TicketsOnce
<1> QED BY <1>1, <1>3 DEF IInv

(* The tables at the start account for themselves. *)
LEMMA Initially ==
  Init => IInv
<1> SUFFICES ASSUME Init PROVE IInv
  OBVIOUS
<1>1. /\ StoreShape(db) /\ stale = db /\ Function(db.wallets, Ids) /\ Function(db.bills, Bills)
      /\ Function(db.tickets, Nonces)
      /\ \A u \in Ids : db.wallets[u] \in {OpeningWallet, NoRow}
      /\ \A b \in Bills : db.bills[b] = NewBill(Price[b])
      /\ \A n \in Nonces : db.tickets[n] = NoRow
  BY DEF Init, StoreShape, Function
<1>2. /\ Function(call, Calls)
      /\ \A c \in Calls : call[c] = Blank
  BY DEF Init, Function
<1>3. CallShape(Blank) /\ Blank.step = "idle" /\ Blank.op = "none"
  BY DEF Blank, CallShape
<1>4. Shapes
  BY <1>1, <1>2, <1>3 DEF Shapes
<1>5. StoredRows
  <2>1. WalletRow(OpeningWallet)
    BY StoreAssumption DEF OpeningWallet, WalletRow, Accounted
  <2>2. ASSUME NEW b \in Bills PROVE BillRow(NewBill(Price[b]))
    BY StoreAssumption DEF NewBill, BillRow, BillShape
  <2> QED BY <1>1, <2>1, <2>2 DEF StoredRows, WalletRow
<1>6. HeldRows
  BY <1>2, <1>3 DEF HeldRows, Holding
<1>7. Tickets
  BY <1>1, <1>2, <1>3 DEF Tickets, TicketsOnce, AnsweredBy
<1> QED BY <1>4, <1>5, <1>6, <1>7 DEF IInv

(* Every step of every handler keeps the invariant. *)
LEMMA Inductive ==
  IInv /\ [Next]_vars => IInv'
<1> SUFFICES ASSUME IInv, [Next]_vars PROVE IInv'
  OBVIOUS
<1>1. ASSUME NEW c \in Calls, Start(c) PROVE IInv'
  <2>1. PICK r \in Requests : call' = [call EXCEPT ![c] = r]
    BY <1>1 DEF Start
  <2>2. Only(c) /\ Empty(call'[c])
    BY <2>1, AtWork, OneCall, RequestsEmpty
  <2> QED BY <1>1, <2>2, Aloof, UnchangedShape DEF Start
<1>2. ASSUME NEW c \in Calls, AccountStep(c) PROVE IInv'
  BY <1>2, AccountKeeps, PutsEmptyWalletKeeps
<1>3. ASSUME NEW c \in Calls, Die(c) PROVE IInv'
  BY <1>3, OverEmpties, Aloof, UnchangedShape DEF Die, InFlight
<1>4. ASSUME CatchUp \/ Tick \/ AllDone \/ UNCHANGED vars PROVE IInv'
  <2>1. UNCHANGED call /\ UNCHANGED db /\ stale' \in {stale, db}
    BY <1>4 DEF CatchUp, Tick, AllDone, vars
  <2> QED BY <2>1, SameRows, UnchangedShape
<1>5. CASE SweepsChallenge
  <2>1. \E k, row : db' = [db EXCEPT !.challenges[k] = row]
    BY <1>5 DEF SweepsChallenge
  <2> QED BY <1>5, <2>1, PutShape, SameRows DEF SweepsChallenge
<1> QED BY <1>1, <1>2, <1>3, <1>4, <1>5, SignInKeeps, LoyaltyKeeps, AddressKeeps,
           SweepsTicketKeeps DEF Next

(* Every state of the service satisfies the invariant, whichever routes    *)
(* are asked for and whatever races, lags or dies.                         *)
THEOREM CustomerInvariant ==
  Spec => []IInv
BY Initially, Inductive, PTL DEF Spec

(* Whatever races, lags or dies, a wallet of loyalty v1 holds what it      *)
(* earned less what was redeemed: AddPointsForBill and ApplyDiscount put   *)
(* whole rows, each of which accounts for itself.                          *)
THEOREM CustomerWalletAccounts ==
  Spec => []WalletAccounts
<1>1. IInv => WalletAccounts
  BY DEF IInv, StoredRows, WalletRow, Accounted, WalletAccounts
<1> QED BY <1>1, CustomerInvariant, PTL

(* Whatever races, lags or dies, what is left to pay of a bill and the     *)
(* points discount that ApplyDiscount took off add up to its price.        *)
THEOREM CustomerBillAddsUp ==
  Spec => []BillAddsUp
<1>1. IInv => BillAddsUp
  BY DEF IInv, StoredRows, BillRow, BillAddsUp
<1> QED BY <1>1, CustomerInvariant, PTL

(* Whatever races, lags or dies, a login ticket signs in at most one of    *)
(* the calls that ConsumeNonce answers.                                    *)
THEOREM CustomerTicketsOnce ==
  Spec => []TicketsOnce
<1>1. IInv => TicketsOnce
  BY DEF IInv, Tickets
<1> QED BY <1>1, CustomerInvariant, PTL

-----------------------------------------------------------------------------
(* Types *)

(* What a call holds fits the step it is at: the fields that the step uses *)
(* are there.                                                              *)
Working(r, o) == r.op = o /\ r.step # "done"
Fits(r) ==
  /\ r.step = "lookup" => r.key \in Keys /\ IsPhone(r.key)
  /\ r.step \in {"readWallet", "putWallet", "putTicket"} => r.user \in Ids
  /\ r.step = "putTicket" => r.key \in Keys
  /\ (\E o \in {"staffLogin", "send", "verify"} : Working(r, o)) => r.key \in Keys
  /\ (r.op = "createUser" /\ r.step = "check") => r.row \in UserType
  /\ Working(r, "changePassword") =>
       r.user \in Ids /\ r.arg \in Passwords /\ (r.step = "put" => r.row \in UserType)
  /\ (r.op = "send" /\ r.step = "put") => r.given \in Codes
  /\ (r.op = "verify" /\ r.step \in {"count", "delete"}) => r.row \in ChallengeType
  /\ r.step \in Holding => r.billRow \in BillType
  /\ r.step = "putPoints" => r.row \in WalletType
  /\ (r.op = "save" /\ r.step = "read") => r.arg \in Labels
  /\ (r.op \in {"save", "saveAs"} /\ r.step = "put") => r.arg \in AddressIds /\ r.row \in AddressType
  /\ Working(r, "deleteAddress") => r.arg \in AddressIds

Good(r) == r \in CallType /\ Fits(r)

TInv ==
  /\ db \in StoreType /\ stale \in StoreType
  /\ now \in Nat /\ raced \in BOOLEAN /\ died \in BOOLEAN
  /\ \A c \in Calls : Good(call[c])

LEMMA CallMade ==
  ASSUME NEW r, CallShape(r), r.op \in Ops, r.step \in Steps, r.at \in Nat,
         r.key \in Keys \cup {NoKey}, r.user \in Ids \cup {NoUser},
         r.given \in Passwords \cup Codes \cup {NoSecret},
         r.arg \in Passwords \cup Nonces \cup Bills \cup Labels \cup AddressIds \cup {NoArg},
         r.todo \in SUBSET Keys, r.row \in Rows \cup {NoRow}, r.billRow \in BillType \cup {NoRow},
         r.tries \in Nat
  PROVE  r \in CallType
BY DEF CallShape, CallType

LEMMA CallFields ==
  ASSUME NEW r \in CallType
  PROVE  /\ r.op \in Ops /\ r.step \in Steps /\ r.at \in Nat
         /\ r.key \in Keys \cup {NoKey} /\ r.user \in Ids \cup {NoUser}
         /\ r.given \in Passwords \cup Codes \cup {NoSecret}
         /\ r.arg \in Passwords \cup Nonces \cup Bills \cup Labels \cup AddressIds \cup {NoArg}
         /\ r.todo \in SUBSET Keys /\ r.row \in Rows \cup {NoRow}
         /\ r.billRow \in BillType \cup {NoRow} /\ r.tries \in Nat
BY DEF CallType

LEMMA StoreMade ==
  ASSUME NEW d, StoreShape(d),
         d.users \in [Ids -> UserType \cup {NoRow}],
         d.challenges \in [Keys -> ChallengeType \cup {NoRow}],
         d.tickets \in [Nonces -> TicketType \cup {NoRow}],
         d.wallets \in [Ids -> WalletType \cup {NoRow}],
         d.bills \in [Bills -> BillType],
         d.addresses \in [AddressIds -> AddressType \cup {NoRow}]
  PROVE  d \in StoreType
BY DEF StoreShape, StoreType

LEMMA StoreFields ==
  ASSUME NEW d \in StoreType
  PROVE  /\ StoreShape(d)
         /\ d.users \in [Ids -> UserType \cup {NoRow}]
         /\ d.challenges \in [Keys -> ChallengeType \cup {NoRow}]
         /\ d.tickets \in [Nonces -> TicketType \cup {NoRow}]
         /\ d.wallets \in [Ids -> WalletType \cup {NoRow}]
         /\ d.bills \in [Bills -> BillType]
         /\ d.addresses \in [AddressIds -> AddressType \cup {NoRow}]
BY DEF StoreShape, StoreType

(* A put or a delete of a row of its table leaves the store a store. *)
LEMMA PutUser ==
  ASSUME NEW d \in StoreType, NEW k \in Ids, NEW row \in UserType, NEW e,
         e = [d EXCEPT !.users[k] = row]
  PROVE  e \in StoreType
<1>1. StoreShape(e) /\ e.users = [d.users EXCEPT ![k] = row] /\ e.challenges = d.challenges
      /\ e.tickets = d.tickets /\ e.wallets = d.wallets /\ e.bills = d.bills /\ e.addresses = d.addresses
  BY StoreFields DEF StoreShape
<1>2. e.users \in [Ids -> UserType \cup {NoRow}]
  BY <1>1, StoreFields
<1> QED BY <1>1, <1>2, StoreFields, StoreMade

LEMMA PutChallenge ==
  ASSUME NEW d \in StoreType, NEW k \in Keys, NEW row \in ChallengeType \cup {NoRow}, NEW e,
         e = [d EXCEPT !.challenges[k] = row]
  PROVE  e \in StoreType
<1>1. StoreShape(e) /\ e.challenges = [d.challenges EXCEPT ![k] = row] /\ e.users = d.users
      /\ e.tickets = d.tickets /\ e.wallets = d.wallets /\ e.bills = d.bills /\ e.addresses = d.addresses
  BY StoreFields DEF StoreShape
<1>2. e.challenges \in [Keys -> ChallengeType \cup {NoRow}]
  BY <1>1, StoreFields
<1> QED BY <1>1, <1>2, StoreFields, StoreMade

LEMMA PutTicket ==
  ASSUME NEW d \in StoreType, NEW k \in Nonces, NEW row \in TicketType \cup {NoRow}, NEW e,
         e = [d EXCEPT !.tickets[k] = row]
  PROVE  e \in StoreType
<1>1. StoreShape(e) /\ e.tickets = [d.tickets EXCEPT ![k] = row] /\ e.users = d.users
      /\ e.challenges = d.challenges /\ e.wallets = d.wallets /\ e.bills = d.bills
      /\ e.addresses = d.addresses
  BY StoreFields DEF StoreShape
<1>2. e.tickets \in [Nonces -> TicketType \cup {NoRow}]
  BY <1>1, StoreFields
<1> QED BY <1>1, <1>2, StoreFields, StoreMade

LEMMA PutWallet ==
  ASSUME NEW d \in StoreType, NEW k \in Ids, NEW row \in WalletType, NEW e,
         e = [d EXCEPT !.wallets[k] = row]
  PROVE  e \in StoreType
<1>1. StoreShape(e) /\ e.wallets = [d.wallets EXCEPT ![k] = row] /\ e.users = d.users
      /\ e.challenges = d.challenges /\ e.tickets = d.tickets /\ e.bills = d.bills
      /\ e.addresses = d.addresses
  BY StoreFields DEF StoreShape
<1>2. e.wallets \in [Ids -> WalletType \cup {NoRow}]
  BY <1>1, StoreFields
<1> QED BY <1>1, <1>2, StoreFields, StoreMade

LEMMA PutBill ==
  ASSUME NEW d \in StoreType, NEW k \in Bills, NEW row \in BillType, NEW e,
         e = [d EXCEPT !.bills[k] = row]
  PROVE  e \in StoreType
<1>1. StoreShape(e) /\ e.bills = [d.bills EXCEPT ![k] = row] /\ e.users = d.users
      /\ e.challenges = d.challenges /\ e.tickets = d.tickets /\ e.wallets = d.wallets
      /\ e.addresses = d.addresses
  BY StoreFields DEF StoreShape
<1>2. e.bills \in [Bills -> BillType]
  BY <1>1, StoreFields
<1> QED BY <1>1, <1>2, StoreFields, StoreMade

LEMMA PutAddress ==
  ASSUME NEW d \in StoreType, NEW k \in AddressIds, NEW row \in AddressType \cup {NoRow}, NEW e,
         e = [d EXCEPT !.addresses[k] = row]
  PROVE  e \in StoreType
<1>1. StoreShape(e) /\ e.addresses = [d.addresses EXCEPT ![k] = row] /\ e.users = d.users
      /\ e.challenges = d.challenges /\ e.tickets = d.tickets /\ e.wallets = d.wallets
      /\ e.bills = d.bills
  BY StoreFields DEF StoreShape
<1>2. e.addresses \in [AddressIds -> AddressType \cup {NoRow}]
  BY <1>1, StoreFields
<1> QED BY <1>1, <1>2, StoreFields, StoreMade

(* What a read shows is a row of its table. *)
LEMMA SeenRows ==
  ASSUME TInv
  PROVE  /\ \A u \in Ids : SeenUser(u) \subseteq UserType \cup {NoRow}
         /\ \A k \in Keys : SeenChallenge(k) \subseteq ChallengeType \cup {NoRow}
         /\ \A u \in Ids : SeenWallet(u) \subseteq WalletType \cup {NoRow}
         /\ \A b \in Bills : SeenBill(b) \subseteq BillType
         /\ \A i \in AddressIds : SeenAddress(i) \subseteq AddressType \cup {NoRow}
<1>1. db \in StoreType /\ stale \in StoreType
  BY DEF TInv
<1> QED BY <1>1, StoreFields DEF SeenUser, SeenChallenge, SeenWallet, SeenBill, SeenAddress

-----------------------------------------------------------------------------
(* What calls become *)

LEMMA BlankFields ==
  /\ Blank.op = "none" /\ Blank.step = "idle" /\ Blank.at = 0 /\ Blank.key = NoKey
  /\ Blank.user = NoUser /\ Blank.given = NoSecret /\ Blank.arg = NoArg /\ Blank.todo = {}
  /\ Blank.row = NoRow /\ Blank.billRow = NoRow /\ Blank.tries = 0
BY DEF Blank

LEMMA BlankTyped == Blank \in CallType
<1>1. "none" \in Ops /\ "idle" \in Steps
  BY DEF Ops, Steps
<1> QED BY <1>1, BlankFields, BlankShape, CallMade

LEMMA DoneFits ==
  ASSUME NEW r, r.step = "done"
  PROVE  Fits(r)
BY DEF Fits, Working, Holding

LEMMA OverGood ==
  ASSUME TInv, IInv, NEW c \in Calls, Over(c)
  PROVE  Only(c) /\ Good(call'[c])
<1>1. Only(c) /\ call'[c] = [Blank EXCEPT !.op = call[c].op, !.step = "done"]
  BY AtWork, OneCall DEF Over
<1>2. /\ CallShape(call'[c]) /\ call'[c].op = call[c].op /\ call'[c].step = "done"
      /\ call'[c].at = 0 /\ call'[c].key = NoKey /\ call'[c].user = NoUser
      /\ call'[c].given = NoSecret /\ call'[c].arg = NoArg /\ call'[c].todo = {}
      /\ call'[c].row = NoRow /\ call'[c].billRow = NoRow /\ call'[c].tries = 0
  BY <1>1, BlankFields, BlankShape DEF CallShape
<1>3. call[c].op \in Ops /\ "done" \in Steps
  BY CallFields DEF TInv, Good, Steps
<1>4. call'[c] \in CallType
  BY <1>2, <1>3, CallMade
<1> QED BY <1>1, <1>2, <1>4, DoneFits DEF Good

LEMMA GotoTyped ==
  ASSUME TInv, IInv, NEW c \in Calls, NEW s \in Steps, Goto(c, s)
  PROVE  /\ Only(c) /\ call'[c] \in CallType
         /\ call'[c] = [call[c] EXCEPT !.step = s]
<1>1. Only(c) /\ call'[c] = [call[c] EXCEPT !.step = s]
  BY AtWork DEF Goto, Only, Function
<1> QED BY <1>1 DEF TInv, Good, CallType

LEMMA AnsweredTyped ==
  ASSUME TInv, IInv, NEW c \in Calls, NEW u \in Ids \cup {NoUser}
  PROVE  Answered(c, u) \in CallType /\ Answered(c, u).step = "done"
<1>1. call[c] \in CallType /\ "done" \in Steps
  BY DEF TInv, Good, Steps
<1> QED BY <1>1 DEF Answered, CallType

LEMMA AnswerGood ==
  ASSUME TInv, IInv, NEW c \in Calls, NEW u \in Ids \cup {NoUser}, Answer(c, u)
  PROVE  Only(c) /\ Good(call'[c])
<1>1. Only(c) /\ call'[c] = Answered(c, u)
  BY AtWork, OneCall DEF Answer
<1> QED BY <1>1, AnsweredTyped, DoneFits DEF Good

(* A step of one call that leaves the store a store *)
LEMMA TypedStep ==
  ASSUME TInv, NEW c \in Calls, Only(c), Good(call'[c]), db' \in StoreType,
         stale' = stale, now' = now, raced' \in BOOLEAN, died' \in BOOLEAN
  PROVE  TInv'
BY DEF TInv, Only

LEMMA TypedRead ==
  ASSUME TInv, NEW c \in Calls, Only(c), Good(call'[c]), Reads
  PROVE  TInv'
BY TypedStep DEF TInv, Reads

LEMMA TypedPut ==
  ASSUME TInv, NEW c \in Calls, Only(c), Good(call'[c]), db' \in StoreType, Aside
  PROVE  TInv'
BY TypedStep DEF TInv, Aside

-----------------------------------------------------------------------------
(* Accounts keep types *)

LEMMA CanonKey ==
  ASSUME NEW k \in Keys, IsPhone(k)
  PROVE  Canon(k) \in Keys /\ IsPhone(Canon(k))
BY CanonInUse DEF Canon, IsPhone

LEMMA AfterStep ==
  ASSUME NEW o
  PROVE  After(o) \in {"done", "putTicket", "readWallet"} /\ After(o) \in Steps
BY DEF After, Steps

LEMMA NewUserTyped ==
  ASSUME NEW k \in Keys, NEW m \in BOOLEAN, NEW p \in Passwords \cup {NoSecret}
  PROVE  NewUser(k, m, p) \in UserType
BY DEF NewUser, UserType

LEMMA AccountTypes ==
  ASSUME TInv, IInv, NEW c \in Calls, AccountStep(c)
  PROVE  TInv'
<1>0. call[c] \in CallType /\ Fits(call[c]) /\ db \in StoreType /\ Function(call, Calls)
  BY AtWork DEF TInv, Good
<1>1. CASE FindsCustomer(c)
  <2>1. PICK u \in Ids :
          call' = [call EXCEPT ![c].step = After(call[c].op), ![c].user = u, ![c].todo = {}]
    BY <1>1 DEF FindsCustomer
  <2>2. PICK s \in Steps : s = After(call[c].op) /\ s \in {"done", "putTicket", "readWallet"}
    BY AfterStep
  <2>3. Only(c) /\ call'[c] = [call[c] EXCEPT !.step = s, !.user = u, !.todo = {}]
    BY <1>0, <2>1, <2>2 DEF Function, Only
  <2>4. call'[c] \in CallType
    BY <1>0, <2>3 DEF CallType
  <2>5. /\ call'[c].step = s /\ call'[c].user = u /\ call'[c].key = call[c].key
        /\ call'[c].op = call[c].op /\ call'[c].arg = call[c].arg
    BY <1>0, <2>3 DEF CallType
  <2>6. call[c].step = "lookup" /\ call[c].key \in Keys /\ IsPhone(call[c].key)
    BY <1>0, <1>1 DEF FindsCustomer, At, Fits
  <2>7. Fits(call'[c])
    BY <1>0, <2>2, <2>5, <2>6 DEF Fits, Working, Holding
  <2> QED BY <1>1, <2>3, <2>4, <2>7, TypedRead DEF FindsCustomer, Good
<1>2. CASE MissesCustomer(c)
  <2>1. PICK l : call' = [call EXCEPT ![c].todo = @ \ {l}]
    BY <1>2 DEF MissesCustomer
  <2>2. PICK t : t = call[c].todo \ {l}
    OBVIOUS
  <2>3. Only(c) /\ call'[c] = [call[c] EXCEPT !.todo = t]
    BY <1>0, <2>1, <2>2 DEF Function, Only
  <2>4. t \in SUBSET Keys
    BY <1>0, <2>2, CallFields
  <2>5. call'[c] \in CallType
    BY <1>0, <2>3, <2>4 DEF CallType
  <2>6. /\ call'[c].step = "lookup" /\ call'[c].key = call[c].key /\ call[c].key \in Keys
        /\ IsPhone(call[c].key) /\ call'[c].op = call[c].op /\ call'[c].arg = call[c].arg
        /\ call'[c].user = call[c].user
    BY <1>0, <1>2, <2>3 DEF CallType, MissesCustomer, At, Fits
  <2>7. Fits(call'[c])
    BY <1>0, <1>2, <2>6 DEF Fits, Working, Holding, MissesCustomer, At
  <2> QED BY <1>2, <2>3, <2>5, <2>7, TypedRead DEF MissesCustomer, Good
<1>3. CASE PutsCustomer(c)
  <2>1. PICK s \in Steps : s = After(call[c].op) /\ s \in {"done", "putTicket", "readWallet"}
    BY AfterStep
  <2>2. c \in Ids
    BY DEF Ids
  <2>3. Only(c) /\ call'[c] = [call[c] EXCEPT !.step = s, !.user = c]
    BY <1>0, <1>3, <2>1 DEF PutsCustomer, Function, Only
  <2>4. call'[c] \in CallType
    BY <1>0, <2>2, <2>3 DEF CallType
  <2>5. /\ call'[c].step = s /\ call'[c].user = c /\ call'[c].key = call[c].key
        /\ call'[c].op = call[c].op /\ call'[c].arg = call[c].arg
    BY <1>0, <2>3 DEF CallType
  <2>6. call[c].step = "lookup" /\ call[c].key \in Keys /\ IsPhone(call[c].key)
    BY <1>0, <1>3 DEF PutsCustomer, At, Fits
  <2>7. Fits(call'[c])
    BY <1>0, <2>1, <2>2, <2>5, <2>6 DEF Fits, Working, Holding
  <2>8. NewUser(Canon(call[c].key), FALSE, NoSecret) \in UserType
    BY <2>6, CanonKey, NewUserTyped
  <2>9. db' \in StoreType
    BY <1>0, <1>3, <2>2, <2>8, PutUser DEF PutsCustomer
  <2> QED BY <1>3, <2>3, <2>4, <2>7, <2>9, TypedPut DEF PutsCustomer, Good
<1>4. CASE ReadsWallet(c)
  <2>1. call[c].step = "readWallet" /\ call[c].user \in Ids
    BY <1>0, <1>4 DEF ReadsWallet, At, Fits
  <2>2. CASE Answer(c, call[c].user)
    BY <1>4, <2>1, <2>2, AnswerGood, TypedRead DEF ReadsWallet
  <2>3. CASE Goto(c, "putWallet")
    <3>1. "putWallet" \in Steps
      BY DEF Steps
    <3>2. Only(c) /\ call'[c] \in CallType /\ call'[c] = [call[c] EXCEPT !.step = "putWallet"]
      BY <2>3, <3>1, GotoTyped
    <3>3. /\ call'[c].step = "putWallet" /\ call'[c].key = call[c].key
          /\ call'[c].op = call[c].op /\ call'[c].arg = call[c].arg
          /\ call'[c].user = call[c].user
      BY <1>0, <3>2 DEF CallType
    <3>4. Fits(call'[c])
      BY <1>0, <2>1, <3>3 DEF Fits, Working, Holding
    <3> QED BY <1>4, <3>2, <3>4, TypedRead DEF ReadsWallet, Good
  <2> QED BY <1>4, <2>2, <2>3 DEF ReadsWallet
<1>5. CASE PutsEmptyWallet(c)
  <2>1. call[c].step = "putWallet" /\ call[c].user \in Ids
    BY <1>0, <1>5 DEF PutsEmptyWallet, At, Fits
  <2>2. EmptyWallet \in WalletType
    BY DEF EmptyWallet, WalletType
  <2>3. db' \in StoreType
    BY <1>0, <1>5, <2>1, <2>2, PutWallet DEF PutsEmptyWallet
  <2> QED BY <1>5, <2>1, <2>3, AnswerGood, TypedPut DEF PutsEmptyWallet
<1>6. CASE KeyTaken(c)
  BY <1>6, OverGood, TypedRead DEF KeyTaken
<1>7. CASE KeySeemsFree(c)
  <2>1. PICK t \in SUBSET call[c].todo : Only(c) /\ call'[c] = [call[c] EXCEPT !.todo = t]
    BY <1>7, KeySeemsFreeIs
  <2>2. call'[c] \in CallType
    BY <1>0, <2>1 DEF CallType
  <2>3. /\ call'[c].step = "check" /\ call'[c].row = call[c].row /\ call'[c].op = "createUser"
        /\ call[c].op = "createUser" /\ call[c].step = "check"
    BY <1>0, <1>7, <2>1, KeySeemsFreeIs DEF CallType
  <2>4. Fits(call'[c])
    BY <1>0, <2>3 DEF Fits, Working, Holding
  <2>5. died' \in BOOLEAN /\ raced' \in BOOLEAN /\ UNCHANGED <<db, stale, now>>
    BY <1>7 DEF KeySeemsFree, TInv
  <2> QED BY <1>0, <2>1, <2>2, <2>4, <2>5, TypedStep DEF Good
<1>8. CASE PutsUser(c)
  <2>1. c \in Ids /\ call[c].row \in UserType
    BY <1>0, <1>8 DEF PutsUser, Doing, Fits, Working, Ids
  <2>3. db' \in StoreType
    BY <1>0, <1>8, <2>1, PutUser DEF PutsUser
  <2> QED BY <1>8, <2>3, OverGood, TypedPut DEF PutsUser
<1>9. CASE StaffLogsIn(c)
  <2>1. Only(c) /\ Good(call'[c])
    BY <1>9, OverGood, AnswerGood DEF StaffLogsIn
  <2> QED BY <1>9, <2>1, TypedRead DEF StaffLogsIn
<1>10. CASE StaffUnknown(c)
  BY <1>10, OverGood, TypedRead DEF StaffUnknown
<1>11. CASE ChangeReads(c)
  <2>1. /\ call[c].op = "changePassword" /\ call[c].step = "read"
        /\ call[c].user \in Ids /\ call[c].arg \in Passwords
    BY <1>0, <1>11 DEF ChangeReads, Doing, Fits, Working
  <2>2. ASSUME NEW row \in SeenUser(call[c].user), row # NoRow,
               call' = [call EXCEPT ![c].step = "put", ![c].row = [row EXCEPT !.password = call[c].arg]]
        PROVE  Only(c) /\ Good(call'[c])
    <3>1. PICK new : new = [row EXCEPT !.password = call[c].arg]
      OBVIOUS
    <3>2. row \in UserType
      BY <2>1, <2>2, SeenRows
    <3>3. new \in UserType
      BY <2>1, <3>1, <3>2 DEF UserType
    <3>4. Only(c) /\ call'[c] = [call[c] EXCEPT !.step = "put", !.row = new]
      BY <1>0, <2>2, <3>1 DEF Function, Only
    <3>5. "put" \in Steps /\ new \in Rows
      BY <3>3 DEF Steps, Rows
    <3>6. call'[c] \in CallType
      BY <1>0, <3>4, <3>5 DEF CallType
    <3>7. /\ call'[c].step = "put" /\ call'[c].op = "changePassword" /\ call'[c].row = new
          /\ call'[c].user = call[c].user /\ call'[c].arg = call[c].arg
      BY <1>0, <2>1, <3>4 DEF CallType
    <3>8. Fits(call'[c])
      BY <2>1, <3>3, <3>7 DEF Fits, Working, Holding
    <3> QED BY <3>4, <3>6, <3>8 DEF Good
  <2>3. Only(c) /\ Good(call'[c])
    BY <1>11, <2>2, OverGood DEF ChangeReads
  <2> QED BY <1>11, <2>3, TypedRead DEF ChangeReads
<1>12. CASE ChangePuts(c)
  <2>1. call[c].user \in Ids /\ call[c].row \in UserType
    BY <1>0, <1>12 DEF ChangePuts, Doing, Fits, Working
  <2>2. db' \in StoreType
    BY <1>0, <1>12, <2>1, PutUser DEF ChangePuts
  <2> QED BY <1>12, <2>2, OverGood, TypedPut DEF ChangePuts
<1> QED BY <1>1, <1>2, <1>3, <1>4, <1>5, <1>6, <1>7, <1>8, <1>9, <1>10, <1>11, <1>12 DEF AccountStep

-----------------------------------------------------------------------------
(* Sign-in keeps types *)

LEMMA ChallengesTyped ==
  /\ \A c \in Calls, code \in Codes : call[c].at \in Nat => NewChallenge(c, code) \in ChallengeType
  /\ \A row \in ChallengeType \cup {NoRow} : Counted(row) \in ChallengeType
<1>1. ASSUME NEW c \in Calls, NEW code \in Codes, call[c].at \in Nat
      PROVE  NewChallenge(c, code) \in ChallengeType
  <2>1. call[c].at + CodeLife \in Nat /\ c \in Ids
    BY <1>1, SignInAssumption DEF Ids
  <2> QED BY <1>1, <2>1 DEF NewChallenge, ChallengeType
<1>2. Leftover \in ChallengeType
  BY DEF Leftover, ChallengeType, Ids
<1>3. ASSUME NEW row \in ChallengeType
      PROVE  [row EXCEPT !.attempts = @ + 1] \in ChallengeType
  BY DEF ChallengeType
<1> QED BY <1>1, <1>2, <1>3 DEF Counted

(* CreateOrGetCustomer starts, for a call that asked for a key *)
LEMMA OnboardingGood ==
  ASSUME NEW q \in CallType, q.op \in {"none", "onboard", "wallet", "login", "verify"},
         NEW k \in Keys, NEW r, r = Onboarding(q, k)
  PROVE  Good(r)
<1>1. CASE IsPhone(k)
  <2>1. PICK t : t = LookupKeys(k)
    OBVIOUS
  <2>2. t \in SUBSET Keys
    BY <2>1 DEF LookupKeys
  <2>3. r = [q EXCEPT !.step = "lookup", !.key = k, !.todo = t]
    BY <1>1, <2>1 DEF Onboarding
  <2>4. "lookup" \in Steps
    BY DEF Steps
  <2>5. r \in CallType
    BY <2>2, <2>3, <2>4 DEF CallType
  <2>6. r.step = "lookup" /\ r.key = k /\ r.op = q.op
    BY <2>3 DEF CallType
  <2>7. Fits(r)
    BY <1>1, <2>6 DEF Fits, Working, Holding
  <2> QED BY <2>5, <2>7 DEF Good
<1>2. CASE ~IsPhone(k)
  <2>1. r = [q EXCEPT !.step = "done"] /\ "done" \in Steps
    BY <1>2 DEF Onboarding, Steps
  <2>2. r \in CallType /\ r.step = "done"
    BY <2>1 DEF CallType
  <2> QED BY <2>2, DoneFits DEF Good
<1> QED BY <1>1, <1>2

LEMMA SignInTypes ==
  ASSUME TInv, IInv, NEW c \in Calls, SignInStep(c)
  PROVE  TInv'
<1>0. call[c] \in CallType /\ Fits(call[c]) /\ db \in StoreType /\ Function(call, Calls)
  BY AtWork DEF TInv, Good
<1>1. CASE SendReads(c)
  <2>1. call[c].op = "send" /\ call[c].step = "read" /\ call[c].key \in Keys
    BY <1>0, <1>1 DEF SendReads, Doing, Fits, Working
  <2>2. ASSUME NEW code \in Codes, call' = [call EXCEPT ![c].step = "put", ![c].given = code]
        PROVE  Only(c) /\ Good(call'[c])
    <3>1. Only(c) /\ call'[c] = [call[c] EXCEPT !.step = "put", !.given = code]
      BY <1>0, <2>2 DEF Function, Only
    <3>2. "put" \in Steps
      BY DEF Steps
    <3>3. call'[c] \in CallType
      BY <1>0, <3>1, <3>2 DEF CallType
    <3>4. /\ call'[c].step = "put" /\ call'[c].op = "send" /\ call'[c].given = code
          /\ call'[c].key = call[c].key
      BY <1>0, <2>1, <3>1 DEF CallType
    <3>5. Fits(call'[c])
      BY <2>1, <3>4 DEF Fits, Working, Holding
    <3> QED BY <3>1, <3>3, <3>5 DEF Good
  <2>3. Only(c) /\ Good(call'[c])
    BY <1>1, <2>2, OverGood DEF SendReads
  <2> QED BY <1>1, <2>3, TypedRead DEF SendReads
<1>2. CASE SendPuts(c)
  <2>1. call[c].key \in Keys /\ call[c].given \in Codes
    BY <1>0, <1>2 DEF SendPuts, Doing, Fits, Working
  <2>2. NewChallenge(c, call[c].given) \in ChallengeType
    BY <1>0, <2>1, CallFields, ChallengesTyped
  <2>3. db' \in StoreType
    BY <1>0, <1>2, <2>1, <2>2, PutChallenge DEF SendPuts
  <2> QED BY <1>2, <2>3, OverGood, TypedPut DEF SendPuts
<1>3. CASE VerifyReads(c)
  <2>1. call[c].op = "verify" /\ call[c].step = "read" /\ call[c].key \in Keys
    BY <1>0, <1>3 DEF VerifyReads, Doing, Fits, Working
  <2>2. ASSUME NEW row \in ChallengeType, NEW s \in {"delete", "count"},
               call' = [call EXCEPT ![c].row = row, ![c].step = s]
        PROVE  Only(c) /\ Good(call'[c])
    <3>1. Only(c) /\ call'[c] = [call[c] EXCEPT !.row = row, !.step = s]
      BY <1>0, <2>2 DEF Function, Only
    <3>2. s \in Steps /\ row \in Rows
      BY DEF Steps, Rows
    <3>3. call'[c] \in CallType
      BY <1>0, <3>1, <3>2 DEF CallType
    <3>4. /\ call'[c].step = s /\ call'[c].op = "verify" /\ call'[c].row = row
          /\ call'[c].key = call[c].key
      BY <1>0, <2>1, <3>1 DEF CallType
    <3>5. Fits(call'[c])
      BY <2>1, <3>4 DEF Fits, Working, Holding
    <3> QED BY <3>1, <3>3, <3>5 DEF Good
  <2>3. PICK row \in SeenChallenge(call[c].key) :
          IF ~Open(row, call[c].at) THEN Over(c) ELSE
            call' = [call EXCEPT ![c].row = row,
                                 ![c].step = IF row.code = call[c].given THEN "delete" ELSE "count"]
    BY <1>3 DEF VerifyReads
  <2>4. Open(row, call[c].at) => row \in ChallengeType
    BY <2>1, <2>3, SeenRows DEF Open
  <2>5. Only(c) /\ Good(call'[c])
    BY <2>2, <2>3, <2>4, OverGood
  <2> QED BY <1>3, <2>5, TypedRead DEF VerifyReads
<1>4. CASE VerifyCounts(c)
  <2>1. call[c].key \in Keys
    BY <1>0, <1>4 DEF VerifyCounts, Doing, Fits, Working
  <2>2. Counted(db.challenges[call[c].key]) \in ChallengeType
    BY <1>0, <2>1, StoreFields, ChallengesTyped
  <2>3. db' = [db EXCEPT !.challenges[call[c].key] = Counted(db.challenges[call[c].key])]
          \/ db' = db
    BY <1>4 DEF VerifyCounts
  <2>4. db' \in StoreType
    BY <1>0, <2>1, <2>2, <2>3, PutChallenge
  <2>5. Only(c) /\ Good(call'[c])
    BY <1>4, AnswerGood DEF VerifyCounts
  <2>6. stale' = stale /\ now' = now /\ raced' \in BOOLEAN /\ died' \in BOOLEAN
    BY <1>4 DEF VerifyCounts, TInv
  <2> QED BY <2>4, <2>5, <2>6, TypedStep
<1>5. CASE VerifyDeletes(c)
  <2>1. call[c].op = "verify" /\ call[c].key \in Keys
    BY <1>0, <1>5 DEF VerifyDeletes, Doing, Fits, Working
  <2>2. Only(c) /\ call'[c] = Onboarding(call[c], call[c].key)
    BY <1>0, <1>5, OneCall DEF VerifyDeletes
  <2>3. Good(call'[c])
    BY <1>0, <2>1, <2>2, OnboardingGood
  <2>4. db' = [db EXCEPT !.challenges[call[c].key] = NoRow]
    BY <1>5 DEF VerifyDeletes, UsedUp
  <2>5. db' \in StoreType
    BY <1>0, <2>1, <2>4, PutChallenge
  <2> QED BY <1>5, <2>2, <2>3, <2>5, TypedPut DEF VerifyDeletes
<1>6. CASE PutsTicket(c)
  <2>1. call[c].user \in Ids /\ call[c].key \in Keys /\ call[c].at \in Nat
    BY <1>0, <1>6, CallFields DEF PutsTicket, At, Fits
  <2>2. PICK n \in Nonces :
          /\ db' = [db EXCEPT !.tickets[n] = NewTicket(c)]
          /\ call' = [call EXCEPT ![c] = [Answered(c, call[c].user) EXCEPT !.at = call[c].at, !.arg = n]]
    BY <1>6 DEF PutsTicket
  <2>3. NewTicket(c) \in TicketType
    <3>1. call[c].at + TicketLife \in Nat
      BY <2>1, SignInAssumption
    <3> QED BY <2>1, <3>1 DEF NewTicket, TicketType
  <2>4. db' \in StoreType
    BY <1>0, <2>2, <2>3, PutTicket
  <2>5. PICK a \in CallType : a = Answered(c, call[c].user) /\ a.step = "done"
    BY <2>1, AnsweredTyped
  <2>6. Only(c) /\ call'[c] = [a EXCEPT !.at = call[c].at, !.arg = n]
    BY <1>0, <2>2, <2>5, OneCall
  <2>7. call'[c] \in CallType /\ call'[c].step = "done"
    BY <2>1, <2>5, <2>6 DEF CallType
  <2> QED BY <1>6, <2>4, <2>6, <2>7, DoneFits, TypedPut DEF PutsTicket, Good
<1>7. CASE NonceInUse(c)
  <2>1. ASSUME call' = [call EXCEPT ![c].tries = @ + 1]
        PROVE  Only(c) /\ Good(call'[c])
    <3>1. PICK t \in Nat : t = call[c].tries + 1
      BY <1>0, CallFields
    <3>2. Only(c) /\ call'[c] = [call[c] EXCEPT !.tries = t]
      BY <1>0, <2>1, <3>1 DEF Function, Only
    <3>3. call'[c] \in CallType
      BY <1>0, <3>2 DEF CallType
    <3>4. /\ call'[c].step = "putTicket" /\ call'[c].key = call[c].key
          /\ call'[c].op = call[c].op /\ call'[c].arg = call[c].arg
          /\ call'[c].user = call[c].user /\ call[c].step = "putTicket"
      BY <1>0, <1>7, <3>2 DEF CallType, NonceInUse, At
    <3>5. Fits(call'[c])
      BY <1>0, <3>4 DEF Fits, Working, Holding
    <3> QED BY <3>2, <3>3, <3>5 DEF Good
  <2>2. Only(c) /\ Good(call'[c])
    BY <1>7, <2>1, OverGood DEF NonceInUse
  <2> QED BY <1>7, <2>2, TypedRead DEF NonceInUse
<1>8. CASE Continues(c)
  <2>1. call[c].arg \in Nonces
    BY <1>8, AtWork DEF Continues, Doing
  <2>2. PICK row : row = db.tickets[call[c].arg]
    OBVIOUS
  <2>3. row \in TicketType \cup {NoRow}
    BY <1>0, <2>1, <2>2, StoreFields
  <2>4. PICK u \in {NoUser} \cup (IF row # NoRow THEN {row.user} ELSE {}) :
          call' = [call EXCEPT ![c] = [Answered(c, u) EXCEPT !.row = row, !.arg = NoArg]]
    BY <1>8, <2>2 DEF Continues
  <2>5. u \in Ids \cup {NoUser}
    BY <2>3, <2>4 DEF TicketType
  <2>6. PICK a \in CallType : a = Answered(c, u) /\ a.step = "done"
    BY <2>5, AnsweredTyped
  <2>7. Only(c) /\ call'[c] = [a EXCEPT !.row = row, !.arg = NoArg]
    BY <1>0, <2>4, <2>6, OneCall
  <2>8. row \in Rows \cup {NoRow}
    BY <2>3 DEF Rows
  <2>9. call'[c] \in CallType /\ call'[c].step = "done"
    BY <2>6, <2>7, <2>8 DEF CallType
  <2>10. db' = [db EXCEPT !.tickets[call[c].arg] = NoRow]
    BY <1>8 DEF Continues, Consumed
  <2>11. db' \in StoreType
    BY <1>0, <2>1, <2>10, PutTicket
  <2> QED BY <1>8, <2>7, <2>9, <2>11, DoneFits, TypedPut DEF Continues, Good
<1> QED BY <1>1, <1>2, <1>3, <1>4, <1>5, <1>6, <1>7, <1>8 DEF SignInStep

-----------------------------------------------------------------------------
(* Addresses keep types *)

LEMMA AddressTypes ==
  ASSUME TInv, IInv, NEW c \in Calls, AddressStep(c)
  PROVE  TInv'
<1>0. call[c] \in CallType /\ Fits(call[c]) /\ db \in StoreType /\ Function(call, Calls)
  BY AtWork DEF TInv, Good
<1>1. CASE SaveLists(c)
  <2>1. PICK i \in AddressIds, list \in SeenLists :
          call' = [call EXCEPT ![c].step = "put", ![c].arg = i,
                               ![c].row = NewAddress(c, call[c].arg)]
    <3>1. c \in AddressIds
      BY DEF AddressIds, Ids
    <3> QED BY <1>1, <3>1 DEF SaveLists, Labelled, Newest
  <2>2. call[c].op = "save" /\ call[c].step = "read" /\ call[c].arg \in Labels /\ call[c].at \in Nat
    BY <1>0, <1>1, CallFields DEF SaveLists, Doing, Fits, Working
  <2>3. PICK row \in AddressType : row = NewAddress(c, call[c].arg)
    BY <2>2 DEF NewAddress, AddressType
  <2>4. Only(c) /\ call'[c] = [call[c] EXCEPT !.step = "put", !.arg = i, !.row = row]
    BY <1>0, <2>1, <2>3 DEF Function, Only
  <2>5. "put" \in Steps /\ row \in Rows
    BY DEF Steps, Rows
  <2>6. call'[c] \in CallType
    BY <1>0, <2>4, <2>5 DEF CallType
  <2>7. call'[c].step = "put" /\ call'[c].op = "save" /\ call'[c].arg = i /\ call'[c].row = row
    BY <1>0, <2>2, <2>4 DEF CallType
  <2>8. Fits(call'[c])
    BY <2>7 DEF Fits, Working, Holding
  <2> QED BY <1>1, <2>4, <2>6, <2>8, TypedRead DEF SaveLists, Good
<1>2. CASE SavePuts(c)
  <2>1. call[c].arg \in AddressIds /\ call[c].row \in AddressType
    BY <1>0, <1>2 DEF SavePuts, At, Fits
  <2>2. db' \in StoreType
    BY <1>0, <1>2, <2>1, PutAddress DEF SavePuts
  <2> QED BY <1>2, <2>2, OverGood, TypedPut DEF SavePuts
<1>3. CASE DeleteReads(c)
  <2>1. ASSUME Goto(c, "delete")
        PROVE  Only(c) /\ Good(call'[c])
    <3>1. "delete" \in Steps
      BY DEF Steps
    <3>2. Only(c) /\ call'[c] \in CallType /\ call'[c] = [call[c] EXCEPT !.step = "delete"]
      BY <2>1, <3>1, GotoTyped
    <3>3. /\ call'[c].step = "delete" /\ call'[c].op = "deleteAddress" /\ call'[c].arg = call[c].arg
          /\ call[c].step = "read" /\ call[c].op = "deleteAddress"
      BY <1>0, <1>3, <3>2 DEF CallType, DeleteReads, Doing
    <3>4. Fits(call'[c])
      BY <1>0, <3>3 DEF Fits, Working, Holding
    <3> QED BY <3>2, <3>4 DEF Good
  <2>2. Only(c) /\ Good(call'[c])
    BY <1>3, <2>1, OverGood DEF DeleteReads
  <2> QED BY <1>3, <2>2, TypedRead DEF DeleteReads
<1>4. CASE Deletes(c)
  <2>1. call[c].arg \in AddressIds
    BY <1>0, <1>4 DEF Deletes, Doing, Fits, Working
  <2>2. db' \in StoreType
    BY <1>0, <1>4, <2>1, PutAddress DEF Deletes
  <2> QED BY <1>4, <2>2, OverGood, TypedPut DEF Deletes
<1> QED BY <1>1, <1>2, <1>3, <1>4 DEF AddressStep

-----------------------------------------------------------------------------
(* Points keep types: no wallet is overdrawn by what is read of it *)

LEMMA BlocksOf ==
  ASSUME NEW n \in Nat, NEW m \in Nat, NEW p \in Nat \ {0}, n <= m * p
  PROVE  n \div p \in Nat /\ n \div p <= m /\ (n \div p) * p \in Nat /\ (n \div p) * p <= n
<1>1. PICK q \in Int : q = n \div p
  OBVIOUS
<1>2. q * p <= n /\ n < q * p + p
  BY <1>1
<1>3. q >= 0
  <2>1. SUFFICES ASSUME q <= -1 PROVE FALSE
    BY <1>1
  <2>2. q * p <= (-1) * p
    BY <2>1
  <2>3. q * p \in Int /\ (-1) * p = -p
    OBVIOUS
  <2> QED BY <1>2, <2>2, <2>3
<1>4. q <= m
  <2>1. SUFFICES ASSUME m + 1 <= q PROVE FALSE
    BY <1>1
  <2>2. (m + 1) * p <= q * p
    BY <2>1
  <2>3. (m + 1) * p = m * p + p /\ m * p \in Nat /\ q * p \in Int
    OBVIOUS
  <2> QED BY <1>2, <2>2, <2>3
<1>5. q * p \in Nat
  BY <1>3
<1> QED BY <1>1, <1>2, <1>3, <1>4, <1>5

LEMMA DiscountAffordable ==
  ASSUME NEW total \in Nat, NEW balance \in Nat
  PROVE  /\ Discount(total, balance) \in Nat /\ PointsFor(Discount(total, balance)) \in Nat
         /\ PointsFor(Discount(total, balance)) <= balance
<1>0. PerBlock \in Nat \ {0} /\ RedeemBlock \in Nat \ {0}
  BY LoyaltyAssumption
<1>1. PICK m \in Nat : m = balance \div RedeemBlock /\ m * RedeemBlock <= balance /\ m * RedeemBlock \in Nat
  <2>1. balance <= balance * RedeemBlock
    BY <1>0
  <2> QED BY <1>0, <2>1, BlocksOf
<1>2. RedeemableDiscount(balance) = m * PerBlock /\ m * PerBlock \in Nat
  BY <1>0, <1>1 DEF RedeemableDiscount
<1>3. PICK d \in Nat : d = Discount(total, balance) /\ d <= m * PerBlock
  <2>1. total <= total * PerBlock
    BY <1>0
  <2>2. (total \div PerBlock) * PerBlock \in Nat /\ (total \div PerBlock) * PerBlock <= total
    BY <1>0, <2>1, BlocksOf
  <2> QED BY <1>2, <2>2 DEF Discount
<1>4. PICK q \in Nat : q = d \div PerBlock /\ q <= m
  BY <1>0, <1>3, BlocksOf
<1>5. q * RedeemBlock <= m * RedeemBlock /\ q * RedeemBlock \in Nat
  BY <1>0, <1>4
<1>6. PointsFor(d) = q * RedeemBlock
  BY <1>4 DEF PointsFor
<1> QED BY <1>1, <1>3, <1>5, <1>6

LEMMA EarnedTyped ==
  ASSUME NEW total \in Nat
  PROVE  PointsFromSpend(total) \in Nat
<1>1. EarnPer \in Nat \ {0}
  BY LoyaltyAssumption
<1>2. total <= total * EarnPer
  BY <1>1
<1> QED BY <1>1, <1>2, BlocksOf DEF PointsFromSpend

LEMMA PointsTyped ==
  ASSUME NEW w \in WalletType \cup {NoRow}
  PROVE  Points(w) \in WalletType
BY DEF Points, EmptyWallet, WalletType

LEMMA LoyaltyTypes ==
  ASSUME TInv, IInv, NEW c \in Calls, LoyaltyStep(c)
  PROVE  TInv'
<1> DEFINE bill == call[c].billRow
           u == call[c].user
<1>0. call[c] \in CallType /\ Fits(call[c]) /\ db \in StoreType /\ Function(call, Calls)
  BY AtWork DEF TInv, Good
<1>1. ASSUME call[c].step \in Holding \cup {"readBill"}
      PROVE  call[c].arg \in Bills /\ u \in Ids
  BY <1>1 DEF IInv, HeldRows
(* A call that keeps what it is about, and goes on *)
<1>2. ASSUME NEW r, r \in CallType, r.op = call[c].op, r.step \in Holding, r.billRow \in BillType,
             r.user = u, r.arg = call[c].arg, r.key = call[c].key,
             r.step = "putPoints" => r.row \in WalletType,
             call[c].step \in Holding \cup {"readBill"}
      PROVE  Good(r)
  BY <1>0, <1>2 DEF Good, Fits, Working, Holding
<1>3. CASE ReadsBill(c)
  <2>1. call[c].step = "readBill"
    BY <1>3 DEF ReadsBill, At
  <2>2. PICK b \in SeenBill(call[c].arg) :
          call' = [call EXCEPT ![c].step = "readPoints", ![c].billRow = b]
    BY <1>3 DEF ReadsBill
  <2>3. b \in BillType
    BY <1>1, <2>1, <2>2, SeenRows
  <2>4. Only(c) /\ call'[c] = [call[c] EXCEPT !.step = "readPoints", !.billRow = b]
    BY <1>0, <2>2 DEF Function, Only
  <2>5. call'[c] \in CallType
    <3>1. "readPoints" \in Steps
      BY DEF Steps
    <3> QED BY <1>0, <2>3, <2>4, <3>1 DEF CallType
  <2>6. /\ call'[c].step = "readPoints" /\ call'[c].billRow = b
        /\ call'[c].op = call[c].op /\ call'[c].arg = call[c].arg /\ call'[c].user = u
        /\ call'[c].key = call[c].key
    BY <1>0, <2>4 DEF CallType
  <2>7. Good(call'[c])
    BY <1>2, <2>1, <2>3, <2>5, <2>6 DEF Holding
  <2> QED BY <1>3, <2>4, <2>7, TypedRead DEF ReadsBill
<1>4. ASSUME NEW w \in WalletType, NEW b \in BillType, call[c].step = "readPoints",
             call' = [call EXCEPT ![c].step = "putPoints", ![c].row = w, ![c].billRow = b]
      PROVE  Only(c) /\ Good(call'[c])
  <2>1. Only(c) /\ call'[c] = [call[c] EXCEPT !.step = "putPoints", !.row = w, !.billRow = b]
    BY <1>0, <1>4 DEF Function, Only
  <2>2. call'[c] \in CallType
    <3>1. "putPoints" \in Steps /\ w \in Rows
      BY DEF Steps, Rows
    <3> QED BY <1>0, <2>1, <3>1 DEF CallType
  <2>3. /\ call'[c].step = "putPoints" /\ call'[c].billRow = b /\ call'[c].row = w
        /\ call'[c].op = call[c].op /\ call'[c].arg = call[c].arg /\ call'[c].user = u
        /\ call'[c].key = call[c].key
    BY <1>0, <2>1 DEF CallType
  <2> QED BY <1>2, <1>4, <2>1, <2>2, <2>3 DEF Holding
<1>5. ASSUME call[c].step = "readPoints"
      PROVE  /\ bill \in BillType /\ bill.total \in Nat /\ u \in Ids
             /\ \A w \in SeenWallet(u) : Points(w) \in WalletType
  <2>1. bill \in BillType /\ u \in Ids
    BY <1>0, <1>1, <1>5 DEF Fits, Holding
  <2> QED BY <2>1, SeenRows, PointsTyped DEF BillType
<1>6. CASE AddPointsDecides(c)
  <2>1. call[c].step = "readPoints"
    BY <1>6 DEF AddPointsDecides, Doing
  <2>2. PICK w \in SeenWallet(u) :
          IF ForAnother(bill, u) \/ Awarded(bill) THEN Over(c) ELSE
            call' = [call EXCEPT
              ![c].step = "putPoints",
              ![c].row = Credited(Points(w), PointsFromSpend(bill.total)),
              ![c].billRow = AwardedBill(bill, u)]
    BY <1>6 DEF AddPointsDecides
  <2>3. PICK n \in Nat : n = PointsFromSpend(bill.total)
    BY <1>5, <2>1, EarnedTyped
  <2>4. PICK p \in WalletType : p = Points(w)
    BY <1>5, <2>1
  <2>5. Credited(p, n) \in WalletType
    <3>1. PICK b \in Nat, e \in Nat : b = p.balance + n /\ e = p.earned + n
      BY DEF WalletType
    <3>2. Credited(p, n) = [p EXCEPT !.balance = b, !.earned = e]
      BY <3>1 DEF Credited
    <3> QED BY <3>2 DEF WalletType
  <2>6. AwardedBill(bill, u) \in BillType
    <3>1. AwardedBill(bill, u) = [bill EXCEPT !.owner = u, !.earned = n, !.processed = TRUE]
      BY <2>3 DEF AwardedBill
    <3> HIDE DEF bill, u
    <3> QED BY <1>5, <2>1, <3>1 DEF BillType
  <2>7. Only(c) /\ Good(call'[c])
    BY <1>4, <2>1, <2>2, <2>3, <2>4, <2>5, <2>6, OverGood
  <2> QED BY <1>6, <2>7, TypedRead DEF AddPointsDecides
<1>7. CASE RedeemDecides(c)
  <2>1. call[c].step = "readPoints"
    BY <1>7 DEF RedeemDecides, Doing
  <2>2. PICK w \in SeenWallet(u) :
          LET discount == Discount(bill.total, Points(w).balance) IN
          IF ForAnother(bill, u) \/ Redeemed(bill) \/ discount = 0 THEN Over(c) ELSE
            call' = [call EXCEPT
              ![c].step = "putPoints",
              ![c].row = Debited(Points(w), discount),
              ![c].billRow = RedeemedBill(bill, u, discount)]
    BY <1>7 DEF RedeemDecides
  <2>3. PICK p \in WalletType : p = Points(w)
    BY <1>5, <2>1
  <2>4. p.balance \in Nat
    BY DEF WalletType
  <2>5. PICK d \in Nat : d = Discount(bill.total, p.balance) /\ PointsFor(d) \in Nat /\ PointsFor(d) <= p.balance
    BY <1>5, <2>1, <2>4, DiscountAffordable
  <2>6. PICK q \in Nat : q = PointsFor(d) /\ q <= p.balance
    BY <2>5
  <2>7. Debited(p, d) \in WalletType
    <3>1. Debited(p, d) = [p EXCEPT !.balance = p.balance - q, !.redeemed = p.redeemed + q]
      BY <2>6 DEF Debited
    <3>2. p.balance - q \in Nat /\ p.redeemed + q \in Nat
      BY <2>4, <2>6 DEF WalletType
    <3> QED BY <3>1, <3>2 DEF WalletType
  <2>8. RedeemedBill(bill, u, d) \in BillType
    <3>1. PICK t \in Nat : t = IF bill.total >= d THEN bill.total - d ELSE 0
      BY <1>5, <2>1
    <3>2. PICK e \in Nat : e = bill.discount + d
      BY <1>5, <2>1 DEF BillType
    <3>3. RedeemedBill(bill, u, d) =
            [bill EXCEPT !.owner = u, !.redeemed = q, !.discount = e, !.total = t]
      BY <2>6, <3>1, <3>2 DEF RedeemedBill
    <3> HIDE DEF bill, u
    <3> QED BY <1>5, <2>1, <3>3 DEF BillType
  <2>9. \/ Over(c)
        \/ call' = [call EXCEPT ![c].step = "putPoints", ![c].row = Debited(p, d),
                                ![c].billRow = RedeemedBill(bill, u, d)]
    BY <2>2, <2>3, <2>5
  <2>10. Only(c) /\ Good(call'[c])
    BY <1>4, <2>1, <2>7, <2>8, <2>9, OverGood
  <2> QED BY <1>7, <2>10, TypedRead DEF RedeemDecides
<1>8. CASE PutsPoints(c)
  <2>1. call[c].step = "putPoints" /\ u \in Ids /\ call[c].row \in WalletType /\ bill \in BillType
    BY <1>0, <1>1, <1>8 DEF PutsPoints, At, Fits, Holding
  <2>2. db' \in StoreType
    BY <1>0, <1>8, <2>1, PutWallet DEF PutsPoints
  <2>3. "putBill" \in Steps
    BY DEF Steps
  <2>4. Only(c) /\ call'[c] \in CallType /\ call'[c] = [call[c] EXCEPT !.step = "putBill"]
    BY <1>8, <2>3, GotoTyped DEF PutsPoints
  <2>5. /\ call'[c].step = "putBill" /\ call'[c].billRow = bill
        /\ call'[c].op = call[c].op /\ call'[c].arg = call[c].arg /\ call'[c].user = u
        /\ call'[c].key = call[c].key
    BY <1>0, <2>4 DEF CallType
  <2>6. Good(call'[c])
    BY <1>2, <2>1, <2>4, <2>5 DEF Holding
  <2> QED BY <1>8, <2>2, <2>4, <2>6, TypedPut DEF PutsPoints
<1>9. CASE PutsBill(c)
  <2>1. call[c].arg \in Bills /\ bill \in BillType
    BY <1>0, <1>1, <1>9 DEF PutsBill, At, Fits, Holding
  <2>2. db' \in StoreType
    BY <1>0, <1>9, <2>1, PutBill DEF PutsBill
  <2> QED BY <1>9, <2>2, OverGood, TypedPut DEF PutsBill
<1> QED BY <1>3, <1>6, <1>7, <1>8, <1>9 DEF LoyaltyStep

-----------------------------------------------------------------------------
(* What clients ask for is typed *)

LEMMA AsksTyped ==
  ASSUME TInv, NEW o \in Ops, NEW s \in Steps, NEW r, r = Asks(o, s) \/ r = Timed(o, s)
  PROVE  r \in CallType /\ r.op = o /\ r.step = s /\ r.at \in Nat
<1>1. PICK q \in CallType : q = Asks(o, s) /\ q.op = o /\ q.step = s
  <2>1. PICK b \in CallType : b = Blank
    BY BlankTyped
  <2>2. PICK q : q = [b EXCEPT !.op = o, !.step = s]
    OBVIOUS
  <2>3. q \in CallType /\ q.op = o /\ q.step = s
    BY <2>2 DEF CallType
  <2> QED BY <2>1, <2>2, <2>3 DEF Asks
<1>2. r = q \/ r = [q EXCEPT !.at = now]
  BY <1>1 DEF Timed
<1>3. now \in Nat
  BY DEF TInv
<1> QED BY <1>1, <1>2, <1>3 DEF CallType

LEMMA OnboardingRequestGood ==
  ASSUME TInv, NEW o \in {"onboard", "wallet", "login"}, NEW q, q = Asks(o, "idle") \/ q = Timed(o, "idle"),
         NEW k \in Keys, NEW r, r = Onboarding(q, k)
  PROVE  Good(r)
<1>1. o \in Ops /\ "idle" \in Steps
  BY DEF Ops, Steps
<1>2. q \in CallType /\ q.op = o
  BY <1>1, AsksTyped
<1> QED BY <1>2, OnboardingGood

LEMMA WalletsOfGood ==
  ASSUME TInv, NEW keys \in SUBSET Keys, NEW r \in WalletsOf(keys)
  PROVE  Good(r)
<1>1. PICK k \in keys : IsPhone(k) /\ r = Onboarding(Asks("wallet", "idle"), Canon(k))
  BY DEF WalletsOf
<1>2. PICK l \in Keys : l = Canon(k)
  BY <1>1, CanonKey
<1> QED BY <1>1, <1>2, OnboardingRequestGood

LEMMA StaffGood ==
  ASSUME TInv, NEW r \in StaffRequests
  PROVE  Good(r)
<1>1. "staffLogin" \in Ops /\ "createUser" \in Ops /\ "changePassword" \in Ops
      /\ "read" \in Steps /\ "check" \in Steps
  BY DEF Ops, Steps
<1>2. ASSUME NEW k \in Keys, NEW p \in Passwords, r = StaffLogin(k, p)
      PROVE  Good(r)
  <2>1. PICK q \in CallType : q = Asks("staffLogin", "read") /\ q.op = "staffLogin" /\ q.step = "read"
    BY <1>1, AsksTyped
  <2>2. r = [q EXCEPT !.key = k, !.given = p]
    BY <1>2, <2>1 DEF StaffLogin
  <2>3. r \in CallType /\ r.op = "staffLogin" /\ r.step = "read" /\ r.key = k
    BY <2>1, <2>2 DEF CallType
  <2> QED BY <2>3 DEF Good, Fits, Working, Holding
<1>3. ASSUME NEW user \in UserType, KeysOf(user) \subseteq Keys, r = CreateUser(user)
      PROVE  Good(r)
  <2>1. PICK q \in CallType : q = Asks("createUser", "check") /\ q.op = "createUser" /\ q.step = "check"
    BY <1>1, AsksTyped
  <2>2. PICK t \in SUBSET Keys : t = KeysOf(user)
    BY <1>3
  <2>3. r = [q EXCEPT !.row = user, !.todo = t] /\ user \in Rows
    BY <1>3, <2>1, <2>2 DEF CreateUser, Rows
  <2>4. r \in CallType /\ r.op = "createUser" /\ r.step = "check" /\ r.row = user
    BY <2>1, <2>2, <2>3 DEF CallType
  <2> QED BY <1>3, <2>4 DEF Good, Fits, Working, Holding
<1>4. ASSUME NEW u \in Ids, NEW g \in Passwords \cup {NoSecret}, NEW p \in Passwords,
             r = ChangePassword(u, g, p)
      PROVE  Good(r)
  <2>1. PICK q \in CallType : q = Asks("changePassword", "read") /\ q.op = "changePassword" /\ q.step = "read"
    BY <1>1, AsksTyped
  <2>2. r = [q EXCEPT !.user = u, !.given = g, !.arg = p]
    BY <1>4, <2>1 DEF ChangePassword
  <2>3. r \in CallType /\ r.op = "changePassword" /\ r.step = "read" /\ r.user = u /\ r.arg = p
    BY <2>1, <2>2 DEF CallType
  <2> QED BY <2>3 DEF Good, Fits, Working, Holding
<1> QED BY <1>2, <1>3, <1>4, StaffRequestIs

LEMMA SignInRequestsGood ==
  ASSUME TInv, NEW r \in SignInRequests
  PROVE  Good(r)
<1>1. "send" \in Ops /\ "verify" \in Ops /\ "continue" \in Ops
      /\ "read" \in Steps /\ "delete" \in Steps /\ SignInKeys \subseteq Keys
  BY StoreAssumption DEF Ops, Steps
<1>2. ASSUME NEW k \in Keys, r = Send(k)
      PROVE  Good(r)
  <2>1. PICK q \in CallType : q = Timed("send", "read") /\ q.op = "send" /\ q.step = "read"
    BY <1>1, AsksTyped
  <2>2. r = [q EXCEPT !.key = k]
    BY <1>2, <2>1 DEF Send
  <2>3. r \in CallType /\ r.op = "send" /\ r.step = "read" /\ r.key = k
    BY <2>1, <2>2 DEF CallType
  <2> QED BY <2>3 DEF Good, Fits, Working, Holding
<1>3. ASSUME NEW k \in Keys, NEW g \in Codes, r = Verify(k, g)
      PROVE  Good(r)
  <2>1. PICK q \in CallType : q = Timed("verify", "read") /\ q.op = "verify" /\ q.step = "read"
    BY <1>1, AsksTyped
  <2>2. r = [q EXCEPT !.key = k, !.given = g]
    BY <1>3, <2>1 DEF Verify
  <2>3. r \in CallType /\ r.op = "verify" /\ r.step = "read" /\ r.key = k
    BY <2>1, <2>2 DEF CallType
  <2> QED BY <2>3 DEF Good, Fits, Working, Holding
<1>4. ASSUME NEW n \in Nonces, r = Continue(n)
      PROVE  Good(r)
  <2>1. PICK q \in CallType : q = Timed("continue", "delete") /\ q.op = "continue" /\ q.step = "delete"
    BY <1>1, AsksTyped
  <2>2. r = [q EXCEPT !.arg = n]
    BY <1>4, <2>1 DEF Continue
  <2>3. r \in CallType /\ r.op = "continue" /\ r.step = "delete"
    BY <2>1, <2>2 DEF CallType
  <2> QED BY <2>3 DEF Good, Fits, Working, Holding
<1> QED BY <1>1, <1>2, <1>3, <1>4 DEF SignInRequests

LEMMA OnBillGood ==
  ASSUME TInv, NEW o \in {"addPoints", "redeem"}, NEW u \in Ids, NEW b \in Bills, NEW r, r = OnBill(o, u, b)
  PROVE  Good(r)
<1>1. o \in Ops /\ "readBill" \in Steps
  BY DEF Ops, Steps
<1>2. PICK q \in CallType : q = Asks(o, "readBill") /\ q.op = o /\ q.step = "readBill"
  BY <1>1, AsksTyped
<1>3. r = [q EXCEPT !.user = u, !.arg = b]
  BY <1>2 DEF OnBill
<1>4. r \in CallType /\ r.op = o /\ r.step = "readBill"
  BY <1>2, <1>3 DEF CallType
<1> QED BY <1>4 DEF Good, Fits, Working, Holding

LEMMA AddressRequestsGood ==
  ASSUME TInv, NEW r \in AddressRequests
  PROVE  Good(r)
<1>1. "save" \in Ops /\ "saveAs" \in Ops /\ "deleteAddress" \in Ops
      /\ "read" \in Steps /\ "put" \in Steps /\ local \in AddressIds /\ now \in Nat
  BY DEF Ops, Steps, AddressIds, TInv
<1>2. ASSUME NEW l \in Labels, r = Save(l)
      PROVE  Good(r)
  <2>1. PICK q \in CallType : q = Timed("save", "read") /\ q.op = "save" /\ q.step = "read"
    BY <1>1, AsksTyped
  <2>2. r = [q EXCEPT !.arg = l]
    BY <1>2, <2>1 DEF Save
  <2>3. r \in CallType /\ r.op = "save" /\ r.step = "read" /\ r.arg = l
    BY <2>1, <2>2 DEF CallType
  <2> QED BY <2>3 DEF Good, Fits, Working, Holding
<1>3. ASSUME NEW i \in AddressIds, NEW l \in Labels, r = SaveAs(i, l)
      PROVE  Good(r)
  <2>1. PICK q \in CallType : q = Timed("saveAs", "put") /\ q.op = "saveAs" /\ q.step = "put"
    BY <1>1, AsksTyped
  <2>2. PICK row \in AddressType : row = [label |-> l, at |-> now]
    BY <1>1 DEF AddressType
  <2>3. r = [q EXCEPT !.arg = i, !.row = row]
    BY <1>3, <2>1, <2>2 DEF SaveAs
  <2>4. row \in Rows
    BY DEF Rows
  <2>5. r \in CallType /\ r.op = "saveAs" /\ r.step = "put" /\ r.arg = i /\ r.row = row
    BY <2>1, <2>3, <2>4 DEF CallType
  <2> QED BY <2>5 DEF Good, Fits, Working, Holding
<1>4. ASSUME NEW i \in AddressIds, r = DeleteAddress(i)
      PROVE  Good(r)
  <2>1. PICK q \in CallType : q = Asks("deleteAddress", "read") /\ q.op = "deleteAddress" /\ q.step = "read"
    BY <1>1, AsksTyped
  <2>2. r = [q EXCEPT !.arg = i]
    BY <1>4, <2>1 DEF DeleteAddress
  <2>3. r \in CallType /\ r.op = "deleteAddress" /\ r.step = "read" /\ r.arg = i
    BY <2>1, <2>2 DEF CallType
  <2> QED BY <2>3 DEF Good, Fits, Working, Holding
<1> QED BY <1>1, <1>2, <1>3, <1>4 DEF AddressRequests

LEMMA RequestsGood ==
  ASSUME TInv, NEW r \in Requests
  PROVE  Good(r)
<1>1. LoginKeys \subseteq Keys /\ BalanceKeys \subseteq Keys
  BY StoreAssumption DEF LoginKeys, BalanceKeys, InboundKeys
<1>2. CASE r \in OnboardRequests
  BY <1>2, OnboardingRequestGood DEF OnboardRequests
<1>3. CASE r \in WalletRequests
  BY <1>3, WalletsOfGood DEF WalletRequests
<1>4. CASE r \in InboundRequests
  <2>1. CASE r \in WalletsOf(BalanceKeys)
    BY <1>1, <2>1, WalletsOfGood
  <2>2. CASE r \notin WalletsOf(BalanceKeys)
    <3>1. PICK k \in Keys : r = Onboarding(Timed("login", "idle"), k)
      BY <1>1, <1>4, <2>2 DEF InboundRequests
    <3> QED BY <3>1, OnboardingRequestGood
  <2> QED BY <2>1, <2>2
<1>5. CASE r \in LoyaltyRequests
  BY <1>5, OnBillGood DEF LoyaltyRequests
<1> QED BY <1>2, <1>3, <1>4, <1>5, StaffGood, SignInRequestsGood, AddressRequestsGood DEF Requests

-----------------------------------------------------------------------------
(* The whole service keeps types *)

LEMMA InitiallyTyped ==
  Init => TInv
<1> SUFFICES ASSUME Init PROVE TInv
  OBVIOUS
<1>1. /\ firstKey \in Keys /\ NewUser(firstKey, FALSE, NoSecret) \in UserType /\ Epoch \in Nat
  BY StoreAssumption, NewUserTyped
<1>2. OpeningWallet \in WalletType
  BY StoreAssumption DEF OpeningWallet, WalletType
<1>3. ASSUME NEW b \in Bills PROVE NewBill(Price[b]) \in BillType
  BY StoreAssumption DEF NewBill, BillType
<1>4. [label |-> firstLabel, at |-> Epoch] \in AddressType
  BY StoreAssumption DEF AddressType
<1>5. db \in StoreType
  <2>1. StoreShape(db)
    BY DEF Init, StoreShape
  <2>2. /\ db.users = [u \in Ids |-> IF u = first THEN NewUser(firstKey, FALSE, NoSecret) ELSE NoRow]
        /\ db.challenges = [k \in Keys |-> NoRow] /\ db.tickets = [n \in Nonces |-> NoRow]
        /\ db.wallets = [u \in Ids |-> IF u = first THEN OpeningWallet ELSE NoRow]
        /\ db.bills = [b \in Bills |-> NewBill(Price[b])]
        /\ db.addresses = [i \in AddressIds |->
             IF i = first THEN [label |-> firstLabel, at |-> Epoch] ELSE NoRow]
    BY DEF Init
  <2> QED BY <1>1, <1>2, <1>3, <1>4, <2>1, <2>2, StoreMade
<1>6. stale \in StoreType /\ now \in Nat /\ raced \in BOOLEAN /\ died \in BOOLEAN
  BY <1>1, <1>5 DEF Init
<1>7. ASSUME NEW c \in Calls PROVE Good(call[c])
  <2>1. call[c] = Blank
    BY DEF Init
  <2> QED BY <2>1, BlankFields, BlankTyped DEF Good, Fits, Working, Holding
<1> QED BY <1>5, <1>6, <1>7 DEF TInv

LEMMA TypesInductive ==
  IInv /\ TInv /\ [Next]_vars => TInv'
<1> SUFFICES ASSUME IInv, TInv, [Next]_vars PROVE TInv'
  OBVIOUS
<1>1. ASSUME NEW c \in Calls, Start(c) PROVE TInv'
  <2>1. PICK r \in Requests : call' = [call EXCEPT ![c] = r]
    BY <1>1 DEF Start
  <2>2. Only(c) /\ Good(call'[c])
    BY <2>1, AtWork, OneCall, RequestsGood
  <2>3. db' \in StoreType /\ UNCHANGED <<stale, now>> /\ raced' \in BOOLEAN /\ died' \in BOOLEAN
    BY <1>1 DEF Start, TInv
  <2> QED BY <2>2, <2>3, TypedStep
<1>2. ASSUME NEW c \in Calls, Die(c) PROVE TInv'
  <2>1. db' \in StoreType /\ UNCHANGED <<stale, now>> /\ raced' \in BOOLEAN /\ died' \in BOOLEAN
    BY <1>2 DEF Die, TInv
  <2> QED BY <1>2, <2>1, OverGood, TypedStep DEF Die
<1>3. CASE UNCHANGED vars \/ AllDone
  BY <1>3 DEF AllDone, vars, TInv
<1>4. CASE CatchUp
  BY <1>4 DEF CatchUp, TInv
<1>5. CASE Tick
  BY <1>5 DEF Tick, TInv
<1>6. CASE SweepsChallenge
  BY <1>6, PutChallenge DEF SweepsChallenge, TInv
<1>7. CASE SweepsTicket
  BY <1>7, PutTicket DEF SweepsTicket, TInv
<1> QED BY <1>1, <1>2, <1>3, <1>4, <1>5, <1>6, <1>7, AccountTypes, SignInTypes, LoyaltyTypes,
           AddressTypes DEF Next

LEMMA TypesHold ==
  Spec => [](IInv /\ TInv)
<1>1. Init => IInv /\ TInv
  BY Initially, InitiallyTyped
<1>2. IInv /\ TInv /\ [Next]_vars => IInv' /\ TInv'
  BY Inductive, TypesInductive
<1> QED BY <1>1, <1>2, PTL DEF Spec

(* The tables, the lagging copies and the memory of every call hold what   *)
(* the code decodes: no wallet is ever overdrawn, no bill owes less than   *)
(* nothing, and a step never uses a field that no earlier step has set.    *)
THEOREM CustomerTypeOK ==
  Spec => []TypeOK
<1>1. TInv => TypeOK
  BY DEF TInv, Good, TypeOK
<1> QED BY <1>1, TypesHold, PTL

-----------------------------------------------------------------------------
(* Who is who: a row of users never goes away and never changes its key,   *)
(* so what a call learnt of a user from a lagging copy stays true.         *)

Is(u, k) == db.users[u] # NoRow /\ db.users[u].key[1] = k[1]

UsersKept ==
  \A u \in Ids : stale.users[u] # NoRow => db.users[u] # NoRow /\ stale.users[u].key = db.users[u].key

(* A user is made by the call it is named after, which then goes on *)
MadeBy(c) == db.users[c] # NoRow => call[c].step \in {"readWallet", "putWallet", "putTicket", "done"}

(* Steps at which a call has learnt of no user, and has made none *)
Ignorant == {"check", "read", "count", "delete", "readBill", "readPoints", "putPoints",
             "putBill"}

Knows(c) ==
  LET r == call[c] IN
  /\ r.step = "lookup" => \A l \in r.todo : l[1] = r.key[1]
  /\ r.step \in {"readWallet", "putWallet", "putTicket"} => Is(r.user, r.key)
  /\ r.step \in {"readWallet", "putWallet"} => r.op # "login"
  /\ (r.op = "verify" /\ r.step \in Ignorant) => r.user = NoUser
  /\ (r.op = "changePassword" /\ r.step = "put") =>
       db.users[r.user] # NoRow /\ r.row.key = db.users[r.user].key
  /\ (r.step = "done" /\ r.user # NoUser) =>
       Is(r.user, IF r.op = "continue" THEN r.row.sender ELSE r.key)

TicketsKnow ==
  \A n \in Nonces : db.tickets[n] # NoRow => Is(db.tickets[n].user, db.tickets[n].sender)

(* The ticket that a login answered *)
LoggedIn(r) == r.op = "login" /\ r.step = "done" /\ r.user # NoUser
Holds(n, c) == db.tickets[n] # NoRow /\ db.tickets[n].by = c
UsedBy(d, c) ==
  call[d].op = "continue" /\ call[d].step = "done" /\ call[d].row # NoRow /\ call[d].row.by = c
KeptFor(c) ==
  LoggedIn(call[c]) =>
    /\ call[c].arg \in Nonces
    /\ Holds(call[c].arg, c) => db.tickets[call[c].arg].ttl = call[c].at + TicketLife
    /\ \/ Holds(call[c].arg, c)
       \/ now > call[c].at + TicketLife
       \/ \E d \in Calls : UsedBy(d, c)

People ==
  /\ UsersKept /\ TicketsKnow
  /\ \A c \in Calls : MadeBy(c) /\ Knows(c) /\ KeptFor(c)

(* What a step of c may do to users: make its own, and change no key *)
UsersGrow(c) ==
  /\ \A u \in Ids : db.users[u] # NoRow => db'.users[u] # NoRow /\ db'.users[u].key = db.users[u].key
  /\ \A u \in Ids \ {c} : db.users[u] = NoRow => db'.users[u] = NoRow

LEMMA IsStays ==
  ASSUME NEW c, UsersGrow(c), NEW u \in Ids, NEW k, Is(u, k)
  PROVE  Is(u, k)'
BY DEF Is, UsersGrow

LEMMA SameUsersGrow ==
  ASSUME NEW c, db'.users = db.users
  PROVE  UsersGrow(c)
BY DEF UsersGrow

(* What is known of users to others than the call that takes a step *)
LEMMA OthersKnow ==
  ASSUME TInv, People, NEW c \in Calls, Only(c), UsersGrow(c), stale' = stale
  PROVE  /\ UsersKept'
         /\ \A d \in Calls \ {c} : MadeBy(d)' /\ Knows(d)'
         /\ db'.tickets = db.tickets => TicketsKnow'
<1>1. UsersKept'
  BY DEF People, UsersKept, UsersGrow
<1>2. ASSUME NEW d \in Calls \ {c}
      PROVE  MadeBy(d)' /\ Knows(d)'
  <2>1. call'[d] = call[d] /\ d \in Ids /\ Good(call[d])
    BY DEF Only, Ids, TInv
  <2>2. MadeBy(d)'
    BY <2>1 DEF People, MadeBy, UsersGrow
  <2>3. PICK r : r = call[d] /\ r = call'[d]
    BY <2>1
  <2>4. r.user # NoUser => r.user \in Ids
    BY <2>1, <2>3, CallFields DEF Good
  <2>5. /\ r.step \in {"readWallet", "putWallet", "putTicket"} => r.user \in Ids
        /\ (r.op = "changePassword" /\ r.step = "put") => r.user \in Ids
    BY <2>1, <2>3 DEF Good, Fits, Working
  <2>6. Knows(d)
    BY DEF People
  <2>7. Knows(d)'
    <3>1. r.step = "lookup" => \A l \in r.todo : l[1] = r.key[1]
      BY <2>3, <2>6 DEF Knows
    <3>2. r.step \in {"readWallet", "putWallet", "putTicket"} => Is(r.user, r.key)'
      BY <2>3, <2>5, <2>6, IsStays DEF Knows
    <3>3. r.step \in {"readWallet", "putWallet"} => r.op # "login"
      BY <2>3, <2>6 DEF Knows
    <3>4. (r.op = "changePassword" /\ r.step = "put") =>
            db'.users[r.user] # NoRow /\ r.row.key = db'.users[r.user].key
      BY <2>3, <2>5, <2>6 DEF Knows, UsersGrow
    <3>5. (r.step = "done" /\ r.user # NoUser) =>
            Is(r.user, IF r.op = "continue" THEN r.row.sender ELSE r.key)'
      BY <2>3, <2>4, <2>6, IsStays DEF Knows
    <3>6. (r.op = "verify" /\ r.step \in Ignorant) => r.user = NoUser
      BY <2>3, <2>6 DEF Knows
    <3> QED BY <2>3, <3>1, <3>2, <3>3, <3>4, <3>5, <3>6 DEF Knows
  <2> QED BY <2>2, <2>7
<1>3. ASSUME db'.tickets = db.tickets
      PROVE  TicketsKnow'
  <2>1. \A n \in Nonces : db.tickets[n] # NoRow => db.tickets[n].user \in Ids
    <3>1. db.tickets \in [Nonces -> TicketType \cup {NoRow}]
      BY StoreFields DEF TInv
    <3> QED BY <3>1 DEF TicketType
  <2> QED BY <1>3, <2>1, IsStays DEF People, TicketsKnow
<1> QED BY <1>1, <1>2, <1>3

(* What is known of tickets, when no ticket is made, used or swept *)
LEMMA OthersKeep ==
  ASSUME People, NEW c \in Calls, call[c].step # "done", Only(c), db'.tickets = db.tickets, now' = now
  PROVE  \A d \in Calls \ {c} : KeptFor(d)'
<1> TAKE d \in Calls \ {c}
<1>1. call'[d] = call[d] /\ KeptFor(d)
  BY DEF Only, People
<1>2. \A e \in Calls : UsedBy(e, d) => UsedBy(e, d)'
  BY DEF UsedBy, Only
<1>3. \A n \in Nonces : Holds(n, d)' <=> Holds(n, d)
  BY DEF Holds
<1> QED BY <1>1, <1>2, <1>3 DEF KeptFor

(* A step of c that makes, uses and sweeps no ticket: what is left to show *)
(* is about c alone.                                                       *)
LEMMA PeopleStep ==
  ASSUME TInv, People, NEW c \in Calls, call[c].step # "done", Only(c), UsersGrow(c),
         stale' = stale, now' = now, db'.tickets = db.tickets,
         MadeBy(c)', Knows(c)', ~LoggedIn(call'[c])
  PROVE  People'
<1>1. UsersKept' /\ TicketsKnow' /\ \A d \in Calls \ {c} : MadeBy(d)' /\ Knows(d)'
  BY OthersKnow
<1>2. \A d \in Calls \ {c} : KeptFor(d)'
  BY OthersKeep
<1>3. KeptFor(c)'
  BY DEF KeptFor
<1> QED BY <1>1, <1>2, <1>3 DEF People

(* A call that ends without an answer knows nothing. *)
LEMMA OverPeople ==
  ASSUME IInv, TInv, People, NEW c \in Calls, call[c].step # "done", Over(c), UsersGrow(c),
         stale' = stale, now' = now, db'.tickets = db.tickets
  PROVE  People'
<1>1. Only(c) /\ call'[c] = [Blank EXCEPT !.op = call[c].op, !.step = "done"]
  BY AtWork, OneCall DEF Over
<1>2. call'[c].step = "done" /\ call'[c].user = NoUser
  BY <1>1, BlankFields, BlankShape DEF CallShape
<1>3. MadeBy(c)' /\ Knows(c)' /\ ~LoggedIn(call'[c])
  BY <1>2 DEF MadeBy, Knows, LoggedIn, Ignorant
<1> QED BY <1>1, <1>3, PeopleStep

(* A call that goes to a step where it knows nothing of users *)
LEMMA IgnorantPeople ==
  ASSUME TInv, People, NEW c \in Calls,
         call[c].step \notin {"readWallet", "putWallet", "putTicket", "done"}, Only(c),
         call'[c].step \in Ignorant \/ (call'[c].step = "put" /\ call'[c].op # "changePassword"),
         call'[c].op = "verify" => call'[c].user = NoUser,
         db'.users = db.users, stale' = stale, now' = now, db'.tickets = db.tickets
  PROVE  People'
<1>1. MadeBy(c)' /\ Knows(c)' /\ ~LoggedIn(call'[c])
  <2>1. db.users[c] = NoRow
    BY DEF People, MadeBy
  <2> QED BY <2>1 DEF MadeBy, Knows, LoggedIn, Ignorant
<1> QED BY <1>1, PeopleStep, SameUsersGrow

(* A row of a user that a read shows is of that user. *)
LEMMA SeenIs ==
  ASSUME TInv, People, NEW u \in Ids, NEW row \in SeenUser(u), row # NoRow
  PROVE  db.users[u] # NoRow /\ row.key = db.users[u].key /\ row \in UserType
<1>1. db.users[u] # NoRow /\ row.key = db.users[u].key
  BY DEF SeenUser, People, UsersKept
<1> QED BY <1>1, SeenRows

LEMMA AccountPeople ==
  ASSUME IInv, TInv, People, NEW c \in Calls, AccountStep(c)
  PROVE  People'
<1>0. /\ call[c] \in CallType /\ Fits(call[c]) /\ Function(call, Calls) /\ StoreShape(db)
      /\ MadeBy(c) /\ Knows(c) /\ c \in Ids
      /\ db.users \in [Ids -> UserType \cup {NoRow}]
  BY AtWork, StoreFields DEF TInv, Good, People, Ids
(* A user of whom c learns what it says of users *)
<1>1. ASSUME call[c].step = "lookup", UNCHANGED <<stale, now>>,
             NEW u \in Ids, UsersGrow(c), NEW k, k = call[c].key, Is(u, k)', db'.tickets = db.tickets,
             NEW t, call' = [call EXCEPT ![c].step = After(call[c].op), ![c].user = u, ![c].todo = t]
      PROVE  People'
  <2>1. PICK s : s = After(call[c].op) /\ s \in {"done", "putTicket", "readWallet"}
    BY AfterStep
  <2>2. /\ s = "readWallet" => call[c].op # "login"
        /\ s = "done" => call[c].op = "onboard"
    BY <2>1 DEF After
  <2>3. Only(c) /\ call'[c] = [call[c] EXCEPT !.step = s, !.user = u, !.todo = t]
    BY <1>0, <1>1, <2>1 DEF Function, Only
  <2>4. /\ call'[c].step = s /\ call'[c].user = u /\ call'[c].key = call[c].key
        /\ call'[c].op = call[c].op
    BY <1>0, <2>3 DEF CallType
  <2>5. MadeBy(c)'
    BY <2>1, <2>4 DEF MadeBy
  <2>6. Knows(c)' /\ ~LoggedIn(call'[c])
    BY <1>1, <2>1, <2>2, <2>4 DEF Knows, LoggedIn, Ignorant
  <2> QED BY <1>1, <2>3, <2>5, <2>6, PeopleStep
<1>2. CASE FindsCustomer(c)
  <2>1. PICK l \in call[c].todo, u \in Ids : \E row \in SeenUser(u) :
          /\ Finds(l, u, row)
          /\ call' = [call EXCEPT ![c].step = After(call[c].op), ![c].user = u, ![c].todo = {}]
    BY <1>2 DEF FindsCustomer
  <2>2. PICK row \in SeenUser(u) : row # NoRow /\ row.key[1] = l[1]
    BY <2>1 DEF Finds, Matches, KeysOf, Mail
  <2>3. call[c].step = "lookup" /\ UNCHANGED <<db, stale, now>>
    BY <1>2 DEF FindsCustomer, At, Reads
  <2>4. PICK k : k = call[c].key
    OBVIOUS
  <2>5. db.users[u] # NoRow /\ row.key = db.users[u].key
    BY <2>2, SeenIs
  <2>6. l[1] = k[1]
    BY <1>0, <2>1, <2>3, <2>4 DEF Knows
  <2>7. Is(u, k)'
    BY <2>2, <2>3, <2>5, <2>6 DEF Is
  <2> QED BY <1>1, <2>1, <2>3, <2>4, <2>7, SameUsersGrow
<1>3. CASE MissesCustomer(c)
  <2>1. PICK l : call' = [call EXCEPT ![c].todo = @ \ {l}]
    BY <1>3 DEF MissesCustomer
  <2>2. PICK t : t = call[c].todo \ {l}
    OBVIOUS
  <2>3. Only(c) /\ call'[c] = [call[c] EXCEPT !.todo = t]
    BY <1>0, <2>1, <2>2 DEF Function, Only
  <2>4. /\ call'[c].step = "lookup" /\ call[c].step = "lookup" /\ call'[c].key = call[c].key
        /\ call'[c].todo \subseteq call[c].todo /\ call'[c].op = call[c].op
    BY <1>0, <1>3, <2>2, <2>3 DEF CallType, MissesCustomer, At
  <2>5. UNCHANGED <<db, stale, now>>
    BY <1>3 DEF MissesCustomer, Reads
  <2>6. MadeBy(c)' /\ Knows(c)' /\ ~LoggedIn(call'[c])
    BY <1>0, <2>4, <2>5 DEF MadeBy, Knows, LoggedIn, Ignorant
  <2> QED BY <2>3, <2>4, <2>5, <2>6, PeopleStep, SameUsersGrow
<1>4. CASE PutsCustomer(c)
  <2>1. call[c].step = "lookup" /\ UNCHANGED <<stale, now>>
    BY <1>4 DEF PutsCustomer, At, Aside
  <2>2. db.users[c] = NoRow
    BY <1>0, <2>1 DEF MadeBy
  <2>3. PICK row \in UserType : row = NewUser(Canon(call[c].key), FALSE, NoSecret)
    BY <1>0, <2>1, CanonKey, NewUserTyped DEF Fits
  <2>4. row.key[1] = call[c].key[1]
    BY <2>3 DEF NewUser, Canon
  <2>5. row # NoRow
    BY NoRowIsNoRow DEF Rows
  <2>6. db'.users = [db.users EXCEPT ![c] = row] /\ db'.tickets = db.tickets
    BY <1>0, <1>4, <2>3 DEF PutsCustomer, StoreShape
  <2>10. PICK k : k = call[c].key
    OBVIOUS
  <2>7. UsersGrow(c) /\ Is(c, k)'
    BY <1>0, <2>2, <2>4, <2>5, <2>6, <2>10 DEF UsersGrow, Is
  <2>8. PICK t : t = call[c].todo
    OBVIOUS
  <2>9. call' = [call EXCEPT ![c].step = After(call[c].op), ![c].user = c, ![c].todo = t]
    BY <1>0, <1>4, <2>8 DEF PutsCustomer, CallType
  <2> QED BY <1>0, <1>1, <2>1, <2>6, <2>7, <2>9, <2>10
<1>5. CASE ReadsWallet(c)
  <2>1. call[c].step = "readWallet" /\ UNCHANGED <<db, stale, now>> /\ call[c].user \in Ids
    BY <1>0, <1>5 DEF ReadsWallet, At, Reads, Fits
  <2>2. call[c].op # "login" /\ Is(call[c].user, call[c].key) /\ call[c].op # "continue"
    BY <1>0, <2>1, AtWork DEF Knows
  <2>3. CASE Goto(c, "putWallet")
    <3>1. Only(c) /\ call'[c] = [call[c] EXCEPT !.step = "putWallet"]
      BY <1>0, <2>3 DEF Goto, Function, Only
    <3>2. /\ call'[c].step = "putWallet" /\ call'[c].key = call[c].key
          /\ call'[c].op = call[c].op /\ call'[c].user = call[c].user
      BY <1>0, <3>1 DEF CallType
    <3>3. MadeBy(c)' /\ Knows(c)' /\ ~LoggedIn(call'[c])
      BY <2>1, <2>2, <3>2 DEF MadeBy, Knows, LoggedIn, Ignorant, Is
    <3> QED BY <2>1, <3>1, <3>3, PeopleStep, SameUsersGrow
  <2>4. CASE Answer(c, call[c].user)
    <3>1. Only(c) /\ call'[c] = Answered(c, call[c].user)
      BY <1>0, <2>4, OneCall DEF Answer
    <3>2. /\ call'[c].step = "done" /\ call'[c].key = call[c].key
          /\ call'[c].op = call[c].op /\ call'[c].user = call[c].user
      BY <1>0, <3>1 DEF CallType, Answered
    <3>3. MadeBy(c)' /\ Knows(c)' /\ ~LoggedIn(call'[c])
      BY <2>1, <2>2, <3>2 DEF MadeBy, Knows, LoggedIn, Ignorant, Is
    <3> QED BY <2>1, <3>1, <3>3, PeopleStep, SameUsersGrow
  <2> QED BY <1>5, <2>3, <2>4 DEF ReadsWallet
<1>6. CASE PutsEmptyWallet(c)
  <2>1. call[c].step = "putWallet" /\ UNCHANGED <<stale, now>> /\ call[c].user \in Ids
    BY <1>0, <1>6 DEF PutsEmptyWallet, At, Aside, Fits
  <2>2. call[c].op # "login" /\ Is(call[c].user, call[c].key) /\ call[c].op # "continue"
    BY <1>0, <2>1, AtWork DEF Knows
  <2>3. db'.users = db.users /\ db'.tickets = db.tickets
    BY <1>0, <1>6 DEF PutsEmptyWallet, StoreShape
  <2>4. Only(c) /\ call'[c] = Answered(c, call[c].user)
    BY <1>0, <1>6, OneCall DEF PutsEmptyWallet, Answer
  <2>5. /\ call'[c].step = "done" /\ call'[c].key = call[c].key
        /\ call'[c].op = call[c].op /\ call'[c].user = call[c].user
    BY <1>0, <2>4 DEF CallType, Answered
  <2>6. MadeBy(c)' /\ Knows(c)' /\ ~LoggedIn(call'[c])
    BY <2>2, <2>3, <2>5 DEF MadeBy, Knows, LoggedIn, Ignorant, Is
  <2> QED BY <2>1, <2>3, <2>4, <2>6, PeopleStep, SameUsersGrow
<1>7. CASE KeyTaken(c)
  BY <1>7, OverPeople, SameUsersGrow DEF KeyTaken, Checks, Doing, Reads
<1>8. CASE KeySeemsFree(c)
  <2>1. PICK t : Only(c) /\ call'[c] = [call[c] EXCEPT !.todo = t]
    BY <1>8, KeySeemsFreeIs
  <2>2. call'[c].step = "check" /\ call[c].step = "check" /\ call'[c].op = "createUser"
    BY <1>0, <1>8, <2>1, KeySeemsFreeIs DEF CallType
  <2> QED BY <1>8, <2>1, <2>2, KeySeemsFreeIs, IgnorantPeople DEF Ignorant
<1>9. CASE PutsUser(c)
  <2>1. call[c].step = "check" /\ UNCHANGED <<stale, now>>
    BY <1>9 DEF PutsUser, Doing, Aside
  <2>2. db.users[c] = NoRow
    BY <1>0, <2>1 DEF MadeBy
  <2>3. PICK row \in UserType : row = call[c].row
    BY <1>0, <1>9 DEF Fits, Working, PutsUser, Doing
  <2>4. row # NoRow
    BY NoRowIsNoRow DEF Rows
  <2>5. db'.users = [db.users EXCEPT ![c] = row] /\ db'.tickets = db.tickets
    BY <1>0, <1>9, <2>3 DEF PutsUser, StoreShape
  <2>6. UsersGrow(c)
    BY <1>0, <2>2, <2>4, <2>5 DEF UsersGrow
  <2> QED BY <1>9, <2>1, <2>5, <2>6, OverPeople DEF PutsUser
<1>10. CASE StaffLogsIn(c)
  <2>1. PICK u \in Ids : \E row \in SeenUser(u) :
          Finds(call[c].key, u, row) /\ (Answer(c, u) \/ Over(c))
    BY <1>10 DEF StaffLogsIn
  <2>2. PICK row \in SeenUser(u) : row # NoRow /\ row.key[1] = call[c].key[1]
    BY <2>1 DEF Finds, Matches, KeysOf, Mail
  <2>3. call[c].step = "read" /\ call[c].op = "staffLogin" /\ UNCHANGED <<db, stale, now>>
    BY <1>10 DEF StaffLogsIn, Doing, Reads
  <2>4. Is(u, call[c].key)
    BY <2>2, SeenIs DEF Is
  <2>5. CASE Answer(c, u)
    <3>1. Only(c) /\ call'[c] = Answered(c, u)
      BY <1>0, <2>5, OneCall DEF Answer
    <3>2. /\ call'[c].step = "done" /\ call'[c].key = call[c].key
          /\ call'[c].op = call[c].op /\ call'[c].user = u
      BY <1>0, <3>1 DEF CallType, Answered
    <3>3. MadeBy(c)' /\ Knows(c)' /\ ~LoggedIn(call'[c])
      BY <2>3, <2>4, <3>2 DEF MadeBy, Knows, LoggedIn, Ignorant, Is
    <3> QED BY <2>3, <3>1, <3>3, PeopleStep, SameUsersGrow
  <2> QED BY <2>1, <2>3, <2>5, OverPeople, SameUsersGrow
<1>11. CASE StaffUnknown(c)
  BY <1>11, OverPeople, SameUsersGrow DEF StaffUnknown, Doing, Reads
<1>12. CASE ChangeReads(c)
  <2>1. /\ call[c].step = "read" /\ call[c].op = "changePassword" /\ UNCHANGED <<db, stale, now>>
        /\ call[c].user \in Ids
    BY <1>0, <1>12 DEF ChangeReads, Doing, Reads, Fits, Working
  <2>2. ASSUME NEW row \in SeenUser(call[c].user), row # NoRow,
               call' = [call EXCEPT ![c].step = "put", ![c].row = [row EXCEPT !.password = call[c].arg]]
        PROVE  People'
    <3>1. PICK new : new = [row EXCEPT !.password = call[c].arg]
      OBVIOUS
    <3>2. db.users[call[c].user] # NoRow /\ new.key = db.users[call[c].user].key
      BY <2>1, <2>2, <3>1, SeenIs DEF UserType
    <3>3. Only(c) /\ call'[c] = [call[c] EXCEPT !.step = "put", !.row = new]
      BY <1>0, <2>2, <3>1 DEF Function, Only
    <3>4. /\ call'[c].step = "put" /\ call'[c].row = new /\ call'[c].user = call[c].user
      BY <1>0, <3>3 DEF CallType
    <3>5. MadeBy(c)' /\ Knows(c)' /\ ~LoggedIn(call'[c])
      BY <1>0, <2>1, <3>2, <3>4 DEF MadeBy, Knows, LoggedIn, Ignorant
    <3> QED BY <2>1, <3>3, <3>5, PeopleStep, SameUsersGrow
  <2> QED BY <1>12, <2>1, <2>2, OverPeople, SameUsersGrow DEF ChangeReads
<1>13. CASE ChangePuts(c)
  <2>1. /\ call[c].step = "put" /\ call[c].op = "changePassword" /\ UNCHANGED <<stale, now>>
        /\ call[c].user \in Ids /\ call[c].row \in UserType
    BY <1>0, <1>13 DEF ChangePuts, Doing, Aside, Fits, Working
  <2>2. db.users[call[c].user] # NoRow /\ call[c].row.key = db.users[call[c].user].key
    BY <1>0, <2>1 DEF Knows
  <2>3. call[c].row # NoRow
    BY <2>1, NoRowIsNoRow DEF Rows
  <2>4. db'.users = [db.users EXCEPT ![call[c].user] = call[c].row] /\ db'.tickets = db.tickets
    BY <1>0, <1>13 DEF ChangePuts, StoreShape
  <2>5. UsersGrow(c)
    BY <1>0, <2>1, <2>2, <2>3, <2>4 DEF UsersGrow
  <2> QED BY <1>13, <2>1, <2>4, <2>5, OverPeople DEF ChangePuts
<1> QED BY <1>2, <1>3, <1>4, <1>5, <1>6, <1>7, <1>8, <1>9, <1>10, <1>11, <1>12, <1>13
        DEF AccountStep

LEMMA OnboardingKnows ==
  ASSUME NEW q \in CallType, q.user = NoUser, q.op # "continue", NEW k \in Keys, NEW r, r = Onboarding(q, k)
  PROVE  /\ r.user = NoUser /\ r.step \in {"lookup", "done"}
         /\ r.step = "lookup" => (\A l \in r.todo : l[1] = r.key[1]) /\ r.todo = LookupKeys(r.key)
         /\ r.op = q.op /\ r.row = q.row /\ r.given = q.given
<1>1. CASE IsPhone(k)
  <2>1. PICK t : t = LookupKeys(k)
    OBVIOUS
  <2>2. r = [q EXCEPT !.step = "lookup", !.key = k, !.todo = t]
    BY <1>1, <2>1 DEF Onboarding
  <2>3. /\ r.user = NoUser /\ r.step = "lookup" /\ r.todo = t /\ r.key = k
        /\ r.op = q.op /\ r.row = q.row /\ r.given = q.given
    BY <2>2 DEF CallType
  <2>4. \A l \in t : l[1] = k[1]
    BY <2>1 DEF LookupKeys
  <2> QED BY <2>1, <2>3, <2>4
<1>2. CASE ~IsPhone(k)
  <2>1. r = [q EXCEPT !.step = "done"]
    BY <1>2 DEF Onboarding
  <2> QED BY <2>1 DEF CallType
<1> QED BY <1>1, <1>2

LEMMA PutsTicketPeople ==
  ASSUME IInv, TInv, People, NEW c \in Calls, PutsTicket(c)
  PROVE  People'
<1>0. /\ call[c] \in CallType /\ Fits(call[c]) /\ Function(call, Calls) /\ StoreShape(db)
      /\ MadeBy(c) /\ Knows(c) /\ db.tickets \in [Nonces -> TicketType \cup {NoRow}]
  BY AtWork, StoreFields DEF TInv, Good, People
<1>1. /\ call[c].step = "putTicket" /\ UNCHANGED <<stale, now>> /\ call[c].op # "continue"
      /\ call[c].user \in Ids /\ call[c].key \in Keys /\ call[c].at \in Nat
  BY <1>0, AtWork, CallFields DEF PutsTicket, At, Aside, Fits
<1>2. PICK n \in Nonces :
        /\ db.tickets[n] = NoRow
        /\ db' = [db EXCEPT !.tickets[n] = NewTicket(c)]
        /\ call' = [call EXCEPT ![c] = [Answered(c, call[c].user) EXCEPT !.at = call[c].at, !.arg = n]]
  BY DEF PutsTicket, Absent
<1>3. PICK t \in TicketType : /\ t = NewTicket(c) /\ t.user = call[c].user /\ t.sender = call[c].key
                              /\ t.by = c /\ t.ttl = call[c].at + TicketLife
  <2>1. call[c].at + TicketLife \in Nat
    BY <1>1, SignInAssumption
  <2>2. PICK l : l = call[c].at + TicketLife /\ l \in Nat
    BY <2>1
  <2>3. NewTicket(c) = [user |-> call[c].user, ttl |-> l, by |-> c, sender |-> call[c].key]
    BY <2>2 DEF NewTicket
  <2>4. NewTicket(c) \in TicketType
    BY <1>1, <2>2, <2>3 DEF TicketType
  <2> QED BY <2>2, <2>3, <2>4
<1>4. t # NoRow
  BY NoRowIsNoRow DEF Rows
<1>5. db'.users = db.users /\ db'.tickets = [db.tickets EXCEPT ![n] = t]
  BY <1>0, <1>2, <1>3 DEF StoreShape
<1>6. PICK a : a = Answered(c, call[c].user) /\ a \in CallType
  BY <1>1, AnsweredTyped
<1>7. a.step = "done" /\ a.user = call[c].user /\ a.op = call[c].op /\ a.key = call[c].key
  BY <1>0, <1>6 DEF Answered, CallType
<1>8. Only(c) /\ call'[c] = [a EXCEPT !.at = call[c].at, !.arg = n]
  BY <1>0, <1>2, <1>6, OneCall
<1>9. /\ call'[c].step = "done" /\ call'[c].user = call[c].user /\ call'[c].op = call[c].op
      /\ call'[c].key = call[c].key /\ call'[c].at = call[c].at /\ call'[c].arg = n
  BY <1>6, <1>7, <1>8 DEF CallType
<1>10. UsersGrow(c)
  BY <1>5, SameUsersGrow
<1>11. UsersKept' /\ \A d \in Calls \ {c} : MadeBy(d)' /\ Knows(d)'
  BY <1>1, <1>8, <1>10, OthersKnow
<1>12. MadeBy(c)' /\ Knows(c)'
  BY <1>0, <1>1, <1>5, <1>9 DEF MadeBy, Knows, Is, Ignorant
<1>13. TicketsKnow'
  BY <1>0, <1>1, <1>3, <1>5 DEF People, TicketsKnow, Knows, Is
<1>14. KeptFor(c)'
  <2>1. Holds(n, c)'
    BY <1>0, <1>3, <1>4, <1>5 DEF Holds
  <2>2. db'.tickets[n].ttl = call[c].at + TicketLife
    BY <1>0, <1>3, <1>5
  <2> QED BY <1>9, <2>1, <2>2 DEF KeptFor
<1>15. ASSUME NEW d \in Calls \ {c} PROVE KeptFor(d)'
  <2>1. call'[d] = call[d] /\ KeptFor(d)
    BY <1>8 DEF Only, People
  <2>2. \A e \in Calls : UsedBy(e, d) => UsedBy(e, d)'
    BY <1>1, <1>8 DEF UsedBy, Only
  <2>3. \A m \in Nonces : /\ Holds(m, d) => Holds(m, d)' /\ db'.tickets[m] = db.tickets[m]
                          /\ Holds(m, d)' => Holds(m, d)
    BY <1>0, <1>2, <1>3, <1>5 DEF Holds
  <2> QED BY <1>1, <2>1, <2>2, <2>3 DEF KeptFor
<1> QED BY <1>11, <1>12, <1>13, <1>14, <1>15 DEF People

LEMMA ContinuesPeople ==
  ASSUME IInv, TInv, People, NEW c \in Calls, Continues(c)
  PROVE  People'
<1>0. /\ call[c] \in CallType /\ Function(call, Calls) /\ StoreShape(db)
      /\ MadeBy(c) /\ Knows(c) /\ db.tickets \in [Nonces -> TicketType \cup {NoRow}]
  BY AtWork, StoreFields DEF TInv, Good, People
<1>1. /\ call[c].step = "delete" /\ call[c].op = "continue" /\ UNCHANGED <<stale, now>>
      /\ call[c].arg \in Nonces
  BY AtWork DEF Continues, Doing, Aside
<1>2. PICK n, row : n \in Nonces /\ n = call[c].arg /\ row = db.tickets[n]
  BY <1>1
<1>3. PICK u \in {NoUser} \cup (IF row # NoRow THEN {row.user} ELSE {}) :
        call' = [call EXCEPT ![c] = [Answered(c, u) EXCEPT !.row = row, !.arg = NoArg]]
  BY <1>2 DEF Continues
<1>4. row \in TicketType \cup {NoRow} /\ u \in Ids \cup {NoUser}
  BY <1>0, <1>2, <1>3 DEF TicketType
<1>5. db'.users = db.users /\ db'.tickets = [db.tickets EXCEPT ![n] = NoRow]
  BY <1>0, <1>2 DEF Continues, Consumed, StoreShape
<1>6. PICK a : a = Answered(c, u) /\ a \in CallType
  BY <1>4, AnsweredTyped
<1>7. a.step = "done" /\ a.user = u /\ a.op = "continue"
  BY <1>0, <1>1, <1>6 DEF Answered, CallType
<1>8. Only(c) /\ call'[c] = [a EXCEPT !.row = row, !.arg = NoArg]
  BY <1>0, <1>3, <1>6, OneCall
<1>9. /\ call'[c].step = "done" /\ call'[c].user = u /\ call'[c].op = "continue" /\ call'[c].row = row
  BY <1>6, <1>7, <1>8 DEF CallType
<1>10. UsersGrow(c)
  BY <1>5, SameUsersGrow
<1>11. UsersKept' /\ \A d \in Calls \ {c} : MadeBy(d)' /\ Knows(d)'
  BY <1>1, <1>8, <1>10, OthersKnow
<1>12. MadeBy(c)' /\ Knows(c)'
  <2>1. u # NoUser => u = row.user /\ Is(row.user, row.sender)
    BY <1>2, <1>3 DEF People, TicketsKnow
  <2> QED BY <1>5, <1>9, <2>1 DEF MadeBy, Knows, Is, Ignorant
<1>13. TicketsKnow'
  BY <1>0, <1>5 DEF People, TicketsKnow, Is
<1>14. KeptFor(c)'
  BY <1>9 DEF KeptFor, LoggedIn
<1>15. ASSUME NEW d \in Calls \ {c} PROVE KeptFor(d)'
  <2>1. call'[d] = call[d] /\ KeptFor(d)
    BY <1>8 DEF Only, People
  <2>2. \A e \in Calls : UsedBy(e, d) => UsedBy(e, d)'
    BY <1>1, <1>8 DEF UsedBy, Only
  <2>3. \A m \in Nonces : Holds(m, d)' => Holds(m, d) /\ db'.tickets[m] = db.tickets[m]
    BY <1>0, <1>5 DEF Holds
  <2>4. \A m \in Nonces : Holds(m, d) => Holds(m, d)' \/ UsedBy(c, d)'
    BY <1>0, <1>2, <1>5, <1>9 DEF Holds, UsedBy
  <2> QED BY <1>1, <2>1, <2>2, <2>3, <2>4 DEF KeptFor
<1> QED BY <1>11, <1>12, <1>13, <1>14, <1>15 DEF People

LEMMA SignInPeople ==
  ASSUME IInv, TInv, People, NEW c \in Calls, SignInStep(c)
  PROVE  People'
<1>0. /\ call[c] \in CallType /\ Fits(call[c]) /\ Function(call, Calls) /\ StoreShape(db)
      /\ MadeBy(c) /\ Knows(c)
  BY AtWork DEF TInv, Good, People
<1>1. CASE SendReads(c)
  <2>1. call[c].step = "read" /\ call[c].op = "send" /\ UNCHANGED <<db, stale, now>>
    BY <1>1 DEF SendReads, Doing, Reads
  <2>2. ASSUME NEW code, call' = [call EXCEPT ![c].step = "put", ![c].given = code]
        PROVE  People'
    <3>1. Only(c) /\ call'[c] = [call[c] EXCEPT !.step = "put", !.given = code]
      BY <1>0, <2>2 DEF Function, Only
    <3>2. call'[c].step = "put" /\ call'[c].op = "send"
      BY <1>0, <2>1, <3>1 DEF CallType
    <3> QED BY <2>1, <3>1, <3>2, IgnorantPeople
  <2> QED BY <1>1, <2>1, <2>2, OverPeople, SameUsersGrow DEF SendReads
<1>2. CASE SendPuts(c)
  <2>1. db'.users = db.users /\ db'.tickets = db.tickets
    BY <1>0, <1>2 DEF SendPuts, StoreShape
  <2> QED BY <1>2, <2>1, OverPeople, SameUsersGrow DEF SendPuts, Doing, Aside
<1>3. CASE VerifyReads(c)
  <2>1. call[c].step = "read" /\ call[c].op = "verify" /\ UNCHANGED <<db, stale, now>>
    BY <1>3 DEF VerifyReads, Doing, Reads
  <2>2. ASSUME NEW row, NEW s \in {"delete", "count"},
               call' = [call EXCEPT ![c].row = row, ![c].step = s]
        PROVE  People'
    <3>1. Only(c) /\ call'[c] = [call[c] EXCEPT !.row = row, !.step = s]
      BY <1>0, <2>2 DEF Function, Only
    <3>2. call'[c].step = s /\ call'[c].op = "verify" /\ call'[c].user = call[c].user
      BY <1>0, <2>1, <3>1 DEF CallType
    <3>3. call[c].user = NoUser
      BY <1>0, <2>1 DEF Knows, Ignorant
    <3>4. s \in Ignorant
      BY DEF Ignorant
    <3> QED BY <2>1, <3>1, <3>2, <3>3, <3>4, IgnorantPeople
  <2>3. PICK row : IF ~Open(row, call[c].at) THEN Over(c) ELSE
          call' = [call EXCEPT ![c].row = row,
                               ![c].step = IF row.code = call[c].given THEN "delete" ELSE "count"]
    BY <1>3 DEF VerifyReads
  <2> QED BY <2>1, <2>2, <2>3, OverPeople, SameUsersGrow
<1>4. CASE VerifyCounts(c)
  <2>1. /\ call[c].step = "count" /\ call[c].op = "verify" /\ UNCHANGED <<stale, now>>
        /\ db'.users = db.users /\ db'.tickets = db.tickets
    BY <1>0, <1>4 DEF VerifyCounts, Doing, StoreShape
  <2>2. Only(c) /\ call'[c] = Answered(c, NoUser)
    BY <1>0, <1>4, OneCall DEF VerifyCounts, Answer
  <2>3. call'[c].step = "done" /\ call'[c].user = NoUser
    BY <1>0, <2>2 DEF CallType, Answered
  <2>4. MadeBy(c)' /\ Knows(c)' /\ ~LoggedIn(call'[c])
    BY <2>3 DEF MadeBy, Knows, LoggedIn, Ignorant
  <2> QED BY <2>1, <2>2, <2>4, PeopleStep, SameUsersGrow
<1>5. CASE VerifyDeletes(c)
  <2>1. /\ call[c].step = "delete" /\ call[c].op = "verify" /\ UNCHANGED <<stale, now>>
        /\ call[c].key \in Keys
    BY <1>0, <1>5 DEF VerifyDeletes, Doing, Aside, Fits, Working
  <2>2. db'.users = db.users /\ db'.tickets = db.tickets
    BY <1>0, <1>5 DEF VerifyDeletes, StoreShape
  <2>3. Only(c) /\ call'[c] = Onboarding(call[c], call[c].key)
    BY <1>0, <1>5, OneCall DEF VerifyDeletes
  <2>4. call[c].user = NoUser /\ db.users[c] = NoRow
    BY <1>0, <2>1 DEF Knows, Ignorant, MadeBy
  <2>5. /\ call'[c].user = NoUser /\ call'[c].step \in {"lookup", "done"}
        /\ call'[c].step = "lookup" => \A l \in call'[c].todo : l[1] = call'[c].key[1]
    BY <1>0, <2>1, <2>3, <2>4, OnboardingKnows
  <2>6. MadeBy(c)' /\ Knows(c)' /\ ~LoggedIn(call'[c])
    BY <2>2, <2>4, <2>5 DEF MadeBy, Knows, LoggedIn, Ignorant
  <2> QED BY <2>1, <2>2, <2>3, <2>6, PeopleStep, SameUsersGrow
<1>6. CASE NonceInUse(c)
  <2>1. call[c].step = "putTicket" /\ UNCHANGED <<db, stale, now>>
    BY <1>6 DEF NonceInUse, At, Reads
  <2>2. ASSUME call' = [call EXCEPT ![c].tries = @ + 1]
        PROVE  People'
    <3>1. PICK t : t = call[c].tries + 1
      OBVIOUS
    <3>2. Only(c) /\ call'[c] = [call[c] EXCEPT !.tries = t]
      BY <1>0, <2>2, <3>1 DEF Function, Only
    <3>3. /\ call'[c].step = "putTicket" /\ call'[c].user = call[c].user /\ call'[c].key = call[c].key
          /\ call'[c].op = call[c].op
      BY <1>0, <2>1, <3>2 DEF CallType
    <3>4. MadeBy(c)' /\ Knows(c)' /\ ~LoggedIn(call'[c])
      BY <1>0, <2>1, <3>3 DEF MadeBy, Knows, LoggedIn, Ignorant, Is
    <3> QED BY <2>1, <3>2, <3>4, PeopleStep, SameUsersGrow
  <2> QED BY <1>6, <2>1, <2>2, OverPeople, SameUsersGrow DEF NonceInUse
<1> QED BY <1>1, <1>2, <1>3, <1>4, <1>5, <1>6, PutsTicketPeople, ContinuesPeople DEF SignInStep

LEMMA AddressPeople ==
  ASSUME IInv, TInv, People, NEW c \in Calls, AddressStep(c)
  PROVE  People'
<1>0. /\ call[c] \in CallType /\ Function(call, Calls) /\ StoreShape(db)
  BY AtWork DEF TInv, Good
<1>1. CASE SaveLists(c)
  <2>1. call[c].step = "read" /\ call[c].op = "save" /\ UNCHANGED <<db, stale, now>>
    BY <1>1 DEF SaveLists, Doing, Reads
  <2>2. PICK i, row : call' = [call EXCEPT ![c].step = "put", ![c].arg = i, ![c].row = row]
    BY <1>1 DEF SaveLists
  <2>3. Only(c) /\ call'[c] = [call[c] EXCEPT !.step = "put", !.arg = i, !.row = row]
    BY <1>0, <2>2 DEF Function, Only
  <2>4. call'[c].step = "put" /\ call'[c].op = "save"
    BY <1>0, <2>1, <2>3 DEF CallType
  <2> QED BY <2>1, <2>3, <2>4, IgnorantPeople
<1>2. CASE SavePuts(c)
  <2>1. db'.users = db.users /\ db'.tickets = db.tickets
    BY <1>0, <1>2 DEF SavePuts, StoreShape
  <2> QED BY <1>2, <2>1, OverPeople, SameUsersGrow DEF SavePuts, At, Aside
<1>3. CASE DeleteReads(c)
  <2>1. call[c].step = "read" /\ call[c].op = "deleteAddress" /\ UNCHANGED <<db, stale, now>>
    BY <1>3 DEF DeleteReads, Doing, Reads
  <2>2. CASE Goto(c, "delete")
    <3>1. Only(c) /\ call'[c] = [call[c] EXCEPT !.step = "delete"]
      BY <1>0, <2>2 DEF Goto, Function, Only
    <3>2. call'[c].step = "delete" /\ call'[c].op = "deleteAddress"
      BY <1>0, <2>1, <3>1 DEF CallType
    <3> QED BY <2>1, <3>1, <3>2, IgnorantPeople DEF Ignorant
  <2> QED BY <1>3, <2>1, <2>2, OverPeople, SameUsersGrow DEF DeleteReads
<1>4. CASE Deletes(c)
  <2>1. db'.users = db.users /\ db'.tickets = db.tickets
    BY <1>0, <1>4 DEF Deletes, StoreShape
  <2> QED BY <1>4, <2>1, OverPeople, SameUsersGrow DEF Deletes, Doing, Aside
<1> QED BY <1>1, <1>2, <1>3, <1>4 DEF AddressStep

LEMMA LoyaltyPeople ==
  ASSUME IInv, TInv, People, NEW c \in Calls, LoyaltyStep(c)
  PROVE  People'
<1>0. /\ call[c] \in CallType /\ Function(call, Calls) /\ StoreShape(db) /\ Knows(c)
  BY AtWork DEF TInv, Good, People
(* A call that goes on with points *)
<1>1. ASSUME call[c].step \in Holding \cup {"readBill"}, Only(c), call'[c].step \in Holding,
             call'[c].op = call[c].op, call'[c].user = call[c].user,
             db'.users = db.users, db'.tickets = db.tickets, UNCHANGED <<stale, now>>
      PROVE  People'
  <2>1. call[c].op = "verify" => call[c].user = NoUser
    BY <1>0, <1>1 DEF Knows, Holding, Ignorant
  <2> QED BY <1>1, <2>1, IgnorantPeople DEF Holding, Ignorant
<1>2. CASE ReadsBill(c)
  <2>1. PICK b : call' = [call EXCEPT ![c].step = "readPoints", ![c].billRow = b]
    BY <1>2 DEF ReadsBill
  <2>2. Only(c) /\ call'[c] = [call[c] EXCEPT !.step = "readPoints", !.billRow = b]
    BY <1>0, <2>1 DEF Function, Only
  <2>3. call'[c].step = "readPoints" /\ call'[c].op = call[c].op /\ call'[c].user = call[c].user
    BY <1>0, <2>2 DEF CallType
  <2> QED BY <1>1, <1>2, <2>2, <2>3 DEF ReadsBill, At, Reads, Holding
<1>3. ASSUME call[c].step = "readPoints", UNCHANGED <<db, stale, now>>, NEW w, NEW b,
             call' = [call EXCEPT ![c].step = "putPoints", ![c].row = w, ![c].billRow = b]
      PROVE  People'
  <2>1. Only(c) /\ call'[c] = [call[c] EXCEPT !.step = "putPoints", !.row = w, !.billRow = b]
    BY <1>0, <1>3 DEF Function, Only
  <2>2. call'[c].step = "putPoints" /\ call'[c].op = call[c].op /\ call'[c].user = call[c].user
    BY <1>0, <2>1 DEF CallType
  <2> QED BY <1>1, <1>3, <2>1, <2>2 DEF Holding
<1>4. CASE AddPointsDecides(c)
  <2>1. Over(c) \/ \E w, b : call' = [call EXCEPT ![c].step = "putPoints", ![c].row = w, ![c].billRow = b]
    BY <1>4 DEF AddPointsDecides
  <2> QED BY <1>3, <1>4, <2>1, OverPeople, SameUsersGrow DEF AddPointsDecides, Doing, Reads
<1>5. CASE RedeemDecides(c)
  <2>1. Over(c) \/ \E w, b : call' = [call EXCEPT ![c].step = "putPoints", ![c].row = w, ![c].billRow = b]
    BY <1>5 DEF RedeemDecides
  <2> QED BY <1>3, <1>5, <2>1, OverPeople, SameUsersGrow DEF RedeemDecides, Doing, Reads
<1>6. CASE PutsPoints(c)
  <2>1. Only(c) /\ call'[c] = [call[c] EXCEPT !.step = "putBill"]
    BY <1>0, <1>6 DEF PutsPoints, Goto, Function, Only
  <2>2. call'[c].step = "putBill" /\ call'[c].op = call[c].op /\ call'[c].user = call[c].user
    BY <1>0, <2>1 DEF CallType
  <2>3. db'.users = db.users /\ db'.tickets = db.tickets
    BY <1>0, <1>6 DEF PutsPoints, StoreShape
  <2> QED BY <1>1, <1>6, <2>1, <2>2, <2>3 DEF PutsPoints, At, Aside, Holding
<1>7. CASE PutsBill(c)
  <2>1. db'.users = db.users /\ db'.tickets = db.tickets
    BY <1>0, <1>7 DEF PutsBill, StoreShape
  <2> QED BY <1>7, <2>1, OverPeople, SameUsersGrow DEF PutsBill, At, Aside
<1> QED BY <1>2, <1>4, <1>5, <1>6, <1>7 DEF LoyaltyStep

(* A request knows nothing yet: only a lookup has something to go by. *)
LEMMA RequestsKnow ==
  ASSUME TInv, NEW r \in Requests
  PROVE  /\ r.step \in Ignorant \cup {"lookup", "done", "put"}
         /\ r.step = "put" => r.op = "saveAs" /\ (r.arg = local \/ db.addresses[r.arg] # NoRow)
         /\ r.step = "done" \/ r.op = "verify" => r.user = NoUser
         /\ r.op = "verify" => r.step = "read"
         /\ r.step = "lookup" => (\A l \in r.todo : l[1] = r.key[1]) /\ r.todo = LookupKeys(r.key)
<1> DEFINE Fine(x) == /\ x.step \in Ignorant \cup {"lookup", "done", "put"}
                      /\ x.step = "put" => x.op = "saveAs" /\ (x.arg = local \/ db.addresses[x.arg] # NoRow)
                      /\ x.step = "done" \/ x.op = "verify" => x.user = NoUser
                      /\ x.op = "verify" => x.step = "read"
                      /\ x.step = "lookup" => (\A l \in x.todo : l[1] = x.key[1]) /\ x.todo = LookupKeys(x.key)
<1>1. ASSUME NEW o \in Ops, NEW s \in Steps, NEW q, q = Asks(o, s) \/ q = Timed(o, s)
      PROVE  q \in CallType /\ q.op = o /\ q.step = s /\ q.user = NoUser
  <2>1. PICK b \in CallType : b = Blank /\ b.user = NoUser
    BY BlankTyped, BlankFields
  <2>2. PICK d : d = [b EXCEPT !.op = o, !.step = s]
    OBVIOUS
  <2>3. d.user = NoUser /\ d \in CallType
    BY <2>1, <2>2 DEF CallType
  <2>4. q = d \/ q = [d EXCEPT !.at = now]
    BY <1>1, <2>1, <2>2 DEF Asks, Timed
  <2>5. q.user = NoUser
    BY <2>3, <2>4 DEF CallType
  <2> QED BY <1>1, <2>5, AsksTyped
<1>2. /\ Ops = {"onboard", "wallet", "createUser", "staffLogin", "changePassword",
                "send", "verify", "login", "continue", "addPoints", "redeem",
                "save", "saveAs", "deleteAddress", "none"}
      /\ {"idle", "check", "read", "delete", "readBill", "put"} \subseteq Steps
  BY DEF Ops, Steps
<1>3. ASSUME NEW o \in {"onboard", "wallet", "login"}, NEW q, q = Asks(o, "idle") \/ q = Timed(o, "idle"),
             NEW k \in Keys, r = Onboarding(q, k)
      PROVE  Fine(r)
  <2>1. o \in Ops /\ "idle" \in Steps
    BY <1>2
  <2>2. q \in CallType /\ q.user = NoUser /\ q.op = o
    BY <1>1, <1>3, <2>1
  <2>3. /\ r.user = NoUser /\ r.step \in {"lookup", "done"} /\ r.op = o
        /\ r.step = "lookup" => (\A l \in r.todo : l[1] = r.key[1]) /\ r.todo = LookupKeys(r.key)
    BY <1>3, <2>2, OnboardingKnows
  <2> QED BY <2>3
<1>4. ASSUME NEW keys \in SUBSET Keys, r \in WalletsOf(keys) PROVE Fine(r)
  <2>1. PICK k \in keys : IsPhone(k) /\ r = Onboarding(Asks("wallet", "idle"), Canon(k))
    BY <1>4 DEF WalletsOf
  <2>2. PICK l \in Keys : l = Canon(k)
    BY <2>1, CanonKey
  <2> QED BY <1>3, <2>1, <2>2
<1>5. CASE r \in OnboardRequests
  BY <1>3, <1>5 DEF OnboardRequests
<1>6. CASE r \in WalletRequests
  BY <1>4, <1>6 DEF WalletRequests
<1>7. CASE r \in InboundRequests
  <2>1. LoginKeys \subseteq Keys /\ BalanceKeys \subseteq Keys
    BY StoreAssumption DEF LoginKeys, BalanceKeys, InboundKeys
  <2>2. CASE r \in WalletsOf(BalanceKeys)
    BY <1>4, <2>1, <2>2
  <2>3. CASE r \notin WalletsOf(BalanceKeys)
    <3>1. PICK k \in Keys : r = Onboarding(Timed("login", "idle"), k)
      BY <2>1, <1>7, <2>3 DEF InboundRequests
    <3> QED BY <1>3, <3>1
  <2> QED BY <2>2, <2>3
<1>8. CASE r \in StaffRequests
  <2>1. ASSUME NEW k, NEW p, r = StaffLogin(k, p) PROVE r.step = "read" /\ r.op = "staffLogin"
    <3>1. PICK q \in CallType : q = Asks("staffLogin", "read") /\ q.op = "staffLogin" /\ q.step = "read"
      BY <1>1, <1>2
    <3>2. r = [q EXCEPT !.key = k, !.given = p]
      BY <2>1, <3>1 DEF StaffLogin
    <3> QED BY <3>1, <3>2 DEF CallType
  <2>2. ASSUME NEW user, r = CreateUser(user) PROVE r.step = "check" /\ r.op = "createUser"
    <3>1. PICK q \in CallType : q = Asks("createUser", "check") /\ q.op = "createUser" /\ q.step = "check"
      BY <1>1, <1>2
    <3>2. PICK t : r = [q EXCEPT !.row = user, !.todo = t]
      BY <2>2, <3>1 DEF CreateUser
    <3> QED BY <3>1, <3>2 DEF CallType
  <2>3. ASSUME NEW u, NEW g, NEW p, r = ChangePassword(u, g, p)
        PROVE  r.step = "read" /\ r.op = "changePassword"
    <3>1. PICK q \in CallType : q = Asks("changePassword", "read") /\ q.op = "changePassword" /\ q.step = "read"
      BY <1>1, <1>2
    <3>2. r = [q EXCEPT !.user = u, !.given = g, !.arg = p]
      BY <2>3, <3>1 DEF ChangePassword
    <3> QED BY <3>1, <3>2 DEF CallType
  <2>4. \/ \E k, p : r = StaffLogin(k, p)
        \/ \E user : r = CreateUser(user)
        \/ \E u, g, p : r = ChangePassword(u, g, p)
    BY <1>8, StaffRequestIs
  <2> QED BY <2>1, <2>2, <2>3, <2>4 DEF Ignorant
<1>9. CASE r \in SignInRequests
  <2>1. ASSUME NEW k, r = Send(k) PROVE r.step = "read" /\ r.op = "send"
    <3>1. PICK q \in CallType : q = Timed("send", "read") /\ q.op = "send" /\ q.step = "read"
      BY <1>1, <1>2
    <3>2. r = [q EXCEPT !.key = k]
      BY <2>1, <3>1 DEF Send
    <3> QED BY <3>1, <3>2 DEF CallType
  <2>2. ASSUME NEW k, NEW g, r = Verify(k, g) PROVE r.step = "read" /\ r.user = NoUser
    <3>1. PICK q \in CallType : q = Timed("verify", "read") /\ q.step = "read" /\ q.user = NoUser
      BY <1>1, <1>2
    <3>2. r = [q EXCEPT !.key = k, !.given = g]
      BY <2>2, <3>1 DEF Verify
    <3> QED BY <3>1, <3>2 DEF CallType
  <2>3. ASSUME NEW n, r = Continue(n) PROVE r.step = "delete" /\ r.op = "continue"
    <3>1. PICK q \in CallType : q = Timed("continue", "delete") /\ q.op = "continue" /\ q.step = "delete"
      BY <1>1, <1>2
    <3>2. r = [q EXCEPT !.arg = n]
      BY <2>3, <3>1 DEF Continue
    <3> QED BY <3>1, <3>2 DEF CallType
  <2> QED BY <1>9, <2>1, <2>2, <2>3 DEF SignInRequests, Ignorant
<1>10. CASE r \in LoyaltyRequests
  <2>1. PICK o, u, b : o \in {"addPoints", "redeem"} /\ r = OnBill(o, u, b)
    BY <1>10 DEF LoyaltyRequests
  <2>2. PICK q \in CallType : q = Asks(o, "readBill") /\ q.op = o /\ q.step = "readBill"
    BY <1>1, <1>2, <2>1
  <2>3. r = [q EXCEPT !.user = u, !.arg = b]
    BY <2>1, <2>2 DEF OnBill
  <2>4. r.step = "readBill" /\ r.op = o
    BY <2>2, <2>3 DEF CallType
  <2> QED BY <2>1, <2>4 DEF Ignorant
<1>11. CASE r \in AddressRequests
  <2>1. ASSUME NEW l, r = Save(l) PROVE r.step = "read" /\ r.op = "save"
    <3>1. PICK q \in CallType : q = Timed("save", "read") /\ q.op = "save" /\ q.step = "read"
      BY <1>1, <1>2
    <3>2. r = [q EXCEPT !.arg = l]
      BY <2>1, <3>1 DEF Save
    <3> QED BY <3>1, <3>2 DEF CallType
  <2>2. ASSUME NEW i, NEW l, r = SaveAs(i, l) PROVE r.step = "put" /\ r.op = "saveAs" /\ r.arg = i
    <3>1. PICK q \in CallType : q = Timed("saveAs", "put") /\ q.op = "saveAs" /\ q.step = "put"
      BY <1>1, <1>2
    <3>2. PICK row : row = [label |-> l, at |-> now]
      OBVIOUS
    <3>3. r = [q EXCEPT !.arg = i, !.row = row]
      BY <2>2, <3>1, <3>2 DEF SaveAs
    <3> QED BY <3>1, <3>3 DEF CallType
  <2>3. ASSUME NEW i, r = DeleteAddress(i) PROVE r.step = "read" /\ r.op = "deleteAddress"
    <3>1. PICK q \in CallType : q = Asks("deleteAddress", "read") /\ q.op = "deleteAddress" /\ q.step = "read"
      BY <1>1, <1>2
    <3>2. r = [q EXCEPT !.arg = i]
      BY <2>3, <3>1 DEF DeleteAddress
    <3> QED BY <3>1, <3>2 DEF CallType
  <2> QED BY <1>11, <2>1, <2>2, <2>3 DEF AddressRequests, Ignorant
<1> QED BY <1>5, <1>6, <1>7, <1>8, <1>9, <1>10, <1>11 DEF Requests

LEMMA SweepsTicketPeople ==
  ASSUME TInv, People, SweepsTicket
  PROVE  People'
<1>1. PICK n \in Nonces :
        /\ db.tickets[n] # NoRow /\ db.tickets[n].ttl < now
        /\ db' = [db EXCEPT !.tickets[n] = NoRow]
  BY DEF SweepsTicket
<1>2. UNCHANGED <<stale, now, call>>
  BY DEF SweepsTicket
<1>3. StoreShape(db) /\ db.tickets \in [Nonces -> TicketType \cup {NoRow}]
  BY StoreFields DEF TInv
<1>4. db'.users = db.users /\ db'.tickets = [db.tickets EXCEPT ![n] = NoRow]
  BY <1>1, <1>3 DEF StoreShape
<1>5. UsersKept' /\ TicketsKnow'
  BY <1>2, <1>3, <1>4 DEF People, UsersKept, TicketsKnow, Is
<1>6. ASSUME NEW c \in Calls PROVE MadeBy(c)' /\ Knows(c)'
  <2>1. MadeBy(c) /\ Knows(c) /\ call'[c] = call[c]
    BY <1>2 DEF People
  <2> QED BY <1>4, <2>1 DEF MadeBy, Knows, Is
<1>7. ASSUME NEW c \in Calls PROVE KeptFor(c)'
  <2>1. KeptFor(c) /\ call'[c] = call[c] /\ \A d \in Calls : UsedBy(d, c)' <=> UsedBy(d, c)
    BY <1>2 DEF People, UsedBy
  <2>2. \A m \in Nonces : Holds(m, c)' => Holds(m, c) /\ db'.tickets[m] = db.tickets[m]
    BY <1>3, <1>4 DEF Holds
  <2>3. \A m \in Nonces : Holds(m, c) => Holds(m, c)' \/ db.tickets[m].ttl < now
    BY <1>1, <1>3, <1>4 DEF Holds
  <2>4. db.tickets[call[c].arg].ttl = call[c].at + TicketLife /\ db.tickets[call[c].arg].ttl < now
          => now > call[c].at + TicketLife
    OBVIOUS
  <2> QED BY <1>2, <2>1, <2>2, <2>3, <2>4 DEF KeptFor
<1> QED BY <1>5, <1>6, <1>7 DEF People

LEMMA StartPeople ==
  ASSUME IInv, TInv, People, NEW c \in Calls, Start(c)
  PROVE  People'
<1>1. call[c].step = "idle" /\ UNCHANGED <<db, stale, now>>
  BY DEF Start
<1>2. PICK r \in Requests : call' = [call EXCEPT ![c] = r]
  BY DEF Start
<1>3. Only(c) /\ call'[c] = r
  BY <1>2, AtWork, OneCall
<1>4. db.users[c] = NoRow
  BY <1>1 DEF People, MadeBy
<1>5. MadeBy(c)' /\ Knows(c)' /\ ~LoggedIn(call'[c])
  <2>1. /\ r.step \in Ignorant \cup {"lookup", "done", "put"}
        /\ r.step = "put" => r.op = "saveAs"
        /\ r.step = "done" \/ r.op = "verify" => r.user = NoUser
        /\ r.step = "lookup" => \A l \in r.todo : l[1] = r.key[1]
    BY RequestsKnow
  <2> QED BY <1>1, <1>3, <1>4, <2>1 DEF MadeBy, Knows, LoggedIn, Ignorant
<1> QED BY <1>1, <1>3, <1>5, PeopleStep, SameUsersGrow

(* What happens beside the calls *)
LEMMA SamePeople ==
  ASSUME TInv, People, UNCHANGED call, db'.users = db.users, db'.tickets = db.tickets,
         stale' \in {stale, db}, now' \in Nat, now' >= now
  PROVE  People'
<1>1. UsersKept' /\ TicketsKnow'
  BY DEF People, UsersKept, TicketsKnow, Is
<1>2. ASSUME NEW c \in Calls PROVE MadeBy(c)' /\ Knows(c)'
  <2>1. MadeBy(c) /\ Knows(c) /\ call'[c] = call[c]
    BY DEF People
  <2> QED BY <2>1 DEF MadeBy, Knows, Is
<1>3. ASSUME NEW c \in Calls PROVE KeptFor(c)'
  <2>1. KeptFor(c) /\ call'[c] = call[c] /\ \A d \in Calls : UsedBy(d, c)' <=> UsedBy(d, c)
    BY DEF People, UsedBy
  <2>2. \A n \in Nonces : Holds(n, c)' <=> Holds(n, c)
    BY DEF Holds
  <2>3. PICK t \in Nat : t = call[c].at + TicketLife /\ t = call'[c].at + TicketLife
    BY <2>1, CallFields, SignInAssumption DEF TInv, Good
  <2>4. now > t => now' > t
    BY <2>3 DEF TInv
  <2> QED BY <2>1, <2>2, <2>3, <2>4 DEF KeptFor
<1> QED BY <1>1, <1>2, <1>3 DEF People

LEMMA InitiallyPeople ==
  Init => People
<1> SUFFICES ASSUME Init PROVE People
  OBVIOUS
<1>1. stale = db /\ \A n \in Nonces : db.tickets[n] = NoRow
  BY DEF Init
<1>2. ASSUME NEW c \in Calls PROVE call[c] = Blank /\ db.users[c] = NoRow
  BY StoreAssumption DEF Init, Ids
<1>3. UsersKept /\ TicketsKnow
  BY <1>1 DEF UsersKept, TicketsKnow
<1>4. ASSUME NEW c \in Calls PROVE MadeBy(c) /\ Knows(c) /\ KeptFor(c)
  BY <1>2, BlankFields DEF MadeBy, Knows, KeptFor, LoggedIn, Ignorant
<1> QED BY <1>3, <1>4 DEF People

LEMMA PeopleInductive ==
  IInv /\ TInv /\ People /\ [Next]_vars => People'
<1> SUFFICES ASSUME IInv, TInv, People, [Next]_vars PROVE People'
  OBVIOUS
<1>1. ASSUME NEW c \in Calls, Die(c) PROVE People'
  BY <1>1, OverPeople, SameUsersGrow DEF Die, InFlight
<1>2. ASSUME CatchUp \/ Tick \/ AllDone \/ UNCHANGED vars PROVE People'
  <2>1. UNCHANGED <<call, db>> /\ stale' \in {stale, db} /\ now' \in Nat /\ now' >= now
    BY <1>2 DEF CatchUp, Tick, AllDone, vars, TInv
  <2> QED BY <2>1, SamePeople
<1>3. CASE SweepsChallenge
  <2>1. UNCHANGED <<stale, now, call>> /\ db'.users = db.users /\ db'.tickets = db.tickets
    BY <1>3, StoreFields DEF SweepsChallenge, TInv, StoreShape
  <2> QED BY <2>1, SamePeople DEF TInv
<1> QED BY <1>1, <1>2, <1>3, StartPeople, AccountPeople, SignInPeople, LoyaltyPeople, AddressPeople,
           SweepsTicketPeople DEF Next

LEMMA PeopleHold ==
  Spec => [](IInv /\ TInv /\ People)
<1>1. Init => IInv /\ TInv /\ People
  BY Initially, InitiallyTyped, InitiallyPeople
<1>2. IInv /\ TInv /\ People /\ [Next]_vars => IInv' /\ TInv' /\ People'
  BY Inductive, TypesInductive, PeopleInductive
<1> QED BY <1>1, <1>2, PTL DEF Spec

(* Whatever races, lags or dies, a call of GetOrCreateByPhone, Verify,     *)
(* Login or ConsumeNonce never answers a user who has another number than  *)
(* the one it was asked for, or than the one that asked for the link.      *)
THEOREM CustomerAnswersMatchPhone ==
  Spec => []AnswersMatchPhone
<1>1. ASSUME TInv, People PROVE AnswersMatchPhone
  <2>1. ASSUME NEW o \in Ops, NEW c \in AnsweredBy(o)
        PROVE  /\ db.users[call[c].user] # NoRow
               /\ db.users[call[c].user].key[1] =
                    IF o = "continue" THEN call[c].row.sender[1] ELSE call[c].key[1]
    <3>1. c \in Calls /\ call[c].op = o /\ call[c].step = "done" /\ call[c].user # NoUser
      BY DEF AnsweredBy
    <3>2. Is(call[c].user, IF o = "continue" THEN call[c].row.sender ELSE call[c].key)
      BY <1>1, <3>1 DEF People, Knows
    <3> QED BY <3>2 DEF Is
  <2> QED BY <2>1 DEF AnswersMatchPhone
<1> QED BY <1>1, PeopleHold, PTL

(* Whatever races, lags or dies, the ticket that StartFromWhatsApp named   *)
(* is on record until a call of ConsumeNonce takes it or it is too old:    *)
(* no later login ever puts its own ticket over it.                        *)
THEOREM CustomerTicketsKept ==
  Spec => []TicketsKept
<1>1. ASSUME TInv, People PROVE TicketsKept
  <2>1. ASSUME NEW c \in AnsweredBy("login") PROVE LoggedIn(call[c]) /\ KeptFor(c)
    BY <1>1 DEF AnsweredBy, LoggedIn, People
  <2> QED BY <2>1 DEF TicketsKept, KeptFor, Holds, UsedBy
<1> QED BY <1>1, PeopleHold, PTL

-----------------------------------------------------------------------------
(* One call after the other: while one is under way nobody else is, and    *)
(* what it reads of a table it has not written is what is there.  Only     *)
(* challenges may be gone meanwhile.                                       *)

Aligned(c) ==
  /\ stale.bills = db.bills /\ stale.addresses = db.addresses
  /\ call[c].step # "putBill" => stale.wallets = db.wallets
  /\ call[c].step \notin {"readWallet", "putWallet", "putTicket"} => stale.users = db.users
  /\ \A k \in Keys : db.challenges[k] \in {stale.challenges[k], NoRow}

(* What a call has read is still so when it acts on it: the forms it looked *)
(* up are free, the wallet it missed is missing, the bill it decides about  *)
(* is the one on record, and the address it saves is known or its label new *)
Saw(c) ==
  LET r == call[c] IN
  /\ r.step = "lookup" => \A l \in LookupKeys(r.key) \ r.todo, u \in Ids : ~Matches(db.users[u], l)
  /\ r.step = "putWallet" => db.wallets[r.user] = NoRow
  /\ r.step = "readPoints" => r.billRow = db.bills[r.arg]
  /\ (r.step = "put" /\ r.op \in {"save", "saveAs"}) =>
       \/ r.arg = local \/ db.addresses[r.arg] # NoRow
       \/ /\ r.op = "save" /\ r.arg = c
          /\ \A i \in AddressIds : db.addresses[i] # NoRow => db.addresses[i].label[1] # r.row.label[1]

InTurn ==
  ~raced => \A c \in InFlight : (\A d \in InFlight : d = c) /\ Aligned(c) /\ Saw(c)

-----------------------------------------------------------------------------
(* The ledger: wallets w match bills b *)

Ledger(w, b) ==
  /\ \A x \in Bills : b[x].owner = NoUser => b[x].earned = 0 /\ b[x].redeemed = 0
  /\ \A u \in Ids :
       LET mine == {x \in Bills : b[x].owner = u} IN
       /\ IsFiniteSet(mine)
       /\ Points(w[u]).earned =
            (IF u = first THEN Opening ELSE 0)
              + SumFunctionOnSet([x \in Bills |-> b[x].earned], mine)
       /\ Points(w[u]).redeemed = SumFunctionOnSet([x \in Bills |-> b[x].redeemed], mine)

(* A call that has decided about points makes them match once it is done *)
WalletsThen(c) == [db.wallets EXCEPT ![call[c].user] = call[c].row]
BillsThen(c) == [db.bills EXCEPT ![call[c].arg] = call[c].billRow]
Balanced ==
  (~raced /\ ~died) =>
    /\ (\A c \in Calls : call[c].step # "putBill") => Ledger(db.wallets, db.bills)
    /\ \A c \in Calls :
         /\ call[c].step = "putPoints" => Ledger(WalletsThen(c), BillsThen(c))
         /\ call[c].step = "putBill" => Ledger(db.wallets, BillsThen(c))

-----------------------------------------------------------------------------
(* Codes.  ch and st are tables of challenges, the one on record and the   *)
(* one that may lag, and cl is what the calls hold.                        *)

(* A verify that has its code right, one that has yet to use it up or to   *)
(* count it as wrong, and one that is done and keeps what it read          *)
Taken(r) ==
  /\ r.op = "verify"
  /\ \/ r.step \in {"lookup", "readWallet", "putWallet", "putTicket"}
     \/ r.step = "done" /\ r.user # NoUser
Trying(r) == r.op = "verify" /\ r.step \in {"count", "delete"}
Ended(r) == r.op = "verify" /\ r.step = "done" /\ r.row # NoRow
Right(r) == Taken(r) \/ (Trying(r) /\ r.step = "delete")

Flying(cl) == {c \in Calls : cl[c].step \notin {"idle", "done"}}
Wrong(cl, s) == {c \in Calls : Ended(cl[c]) /\ cl[c].row.by = s /\ cl[c].row.code # cl[c].given}
Shows(ch, s) == \E k \in Keys : ch[k] # NoRow /\ ch[k].by = s

(* A row with a code was put by a call that is done; what a count left of  *)
(* a deleted row signs nobody in.                                          *)
SentBy(cl, row) == row.by \in Calls /\ cl[row.by].step = "done"
RowSent(cl, row) == row # NoRow => SentBy(cl, row) \/ (row.by = first /\ row.ttl = 0)

OneKey(ch) ==
  \A k, l \in Keys :
    (ch[k] # NoRow /\ ch[l] # NoRow /\ ch[k].by = ch[l].by /\ ch[k].by \in Calls) => k = l

CodesKnown(ch, st, cl) ==
  /\ \A k \in Keys : RowSent(cl, ch[k]) /\ RowSent(cl, st[k])
  /\ OneKey(ch) /\ OneKey(st)
  /\ \A c \in Calls :
       /\ Right(cl[c]) => cl[c].row.code = cl[c].given
       /\ Taken(cl[c]) \/ Trying(cl[c]) \/ Ended(cl[c]) => SentBy(cl, cl[c].row)
  /\ \A s \in Calls : IsFiniteSet(Wrong(cl, s))

(* One call after the other: a code that signed in is nowhere to be read,  *)
(* and one that is being tried is where it was read.                       *)
CodesUsed(ch, st, cl) ==
  \A c \in Calls :
    /\ Taken(cl[c]) =>
         /\ ~Shows(ch, cl[c].row.by)
         /\ \A d \in Flying(cl) : d # c => ~Shows(st, cl[c].row.by)
         /\ \A d \in Calls : d # c /\ Taken(cl[d]) => cl[d].row.by # cl[c].row.by
    /\ Trying(cl[c]) =>
         /\ \A k \in Keys : (ch[k] # NoRow /\ ch[k].by = cl[c].row.by) => k = cl[c].key /\ ch[k] = cl[c].row
         /\ cl[c].row.attempts < MaxAttempts
         /\ \A d \in Calls : Taken(cl[d]) => cl[d].row.by # cl[c].row.by

(* ... and if none died, every wrong one was counted. *)
Counts(cl, row) == Cardinality(Wrong(cl, row.by)) <= row.attempts
CountsAll(cl, ch) == \A k \in Keys : (ch[k] # NoRow /\ ch[k].by \in Calls) => Counts(cl, ch[k])
CodesCounted(ch, st, cl) ==
  /\ \A c \in Calls :
       /\ Taken(cl[c]) => Cardinality(Wrong(cl, cl[c].row.by)) < MaxAttempts
       /\ Trying(cl[c]) => Counts(cl, cl[c].row)
  /\ CountsAll(cl, ch)
  /\ Flying(cl) # {} => CountsAll(cl, st)

Challenges == CodesKnown(db.challenges, stale.challenges, call)
CodesInTurn ==
  ~raced => /\ CodesUsed(db.challenges, stale.challenges, call)
            /\ ~died => CodesCounted(db.challenges, stale.challenges, call)

-----------------------------------------------------------------------------
(* What the steps leave alone *)

LEMMA AccountFrame ==
  ASSUME IInv, NEW c \in Calls, AccountStep(c)
  PROVE  /\ UNCHANGED <<stale, now, raced>> /\ (died => died') /\ c \in InFlight
         /\ db'.challenges = db.challenges /\ db'.tickets = db.tickets /\ db'.bills = db.bills
         /\ db'.addresses = db.addresses
<1>1. StoreShape(db)
  BY AtWork
<1>2. c \in InFlight
  BY DEF AccountStep, FindsCustomer, MissesCustomer, PutsCustomer, ReadsWallet, PutsEmptyWallet, KeyTaken,
         KeySeemsFree, Checks, PutsUser, StaffLogsIn, StaffUnknown, ChangeReads, ChangePuts, At, Doing,
         InFlight
<1>3. UNCHANGED <<stale, now, raced>> /\ (UNCHANGED died \/ died' = TRUE)
  BY DEF AccountStep, FindsCustomer, MissesCustomer, PutsCustomer, ReadsWallet, PutsEmptyWallet, KeyTaken,
         KeySeemsFree, PutsUser, StaffLogsIn, StaffUnknown, ChangeReads, ChangePuts, Reads, Aside
<1>4. \/ UNCHANGED db
      \/ \E k, row : db' = [db EXCEPT !.users[k] = row]
      \/ \E k, row : db' = [db EXCEPT !.wallets[k] = row]
  BY DEF AccountStep, FindsCustomer, MissesCustomer, PutsCustomer, ReadsWallet, PutsEmptyWallet, KeyTaken,
         KeySeemsFree, PutsUser, StaffLogsIn, StaffUnknown, ChangeReads, ChangePuts, Reads
<1>5. /\ db'.challenges = db.challenges /\ db'.tickets = db.tickets /\ db'.bills = db.bills
      /\ db'.addresses = db.addresses
  BY <1>1, <1>4 DEF StoreShape
<1>6. died => died'
  BY <1>3
<1> QED BY <1>2, <1>3, <1>5, <1>6

LEMMA SignInFrame ==
  ASSUME IInv, NEW c \in Calls, SignInStep(c)
  PROVE  /\ UNCHANGED <<stale, now, raced>> /\ (died => died') /\ c \in InFlight
         /\ db'.users = db.users /\ db'.wallets = db.wallets /\ db'.bills = db.bills
         /\ db'.addresses = db.addresses
<1>1. StoreShape(db)
  BY AtWork
<1>2. c \in InFlight
  BY DEF SignInStep, SendReads, SendPuts, VerifyReads, VerifyCounts, VerifyDeletes, PutsTicket, NonceInUse,
         Continues, At, Doing, InFlight
<1>3. UNCHANGED <<stale, now, raced>> /\ (UNCHANGED died \/ died' = TRUE)
  BY DEF SignInStep, SendReads, SendPuts, VerifyReads, VerifyCounts, VerifyDeletes, PutsTicket, NonceInUse,
         Continues, Reads, Aside
<1>4. \/ UNCHANGED db
      \/ \E k, row : db' = [db EXCEPT !.challenges[k] = row]
      \/ \E k, row : db' = [db EXCEPT !.tickets[k] = row]
  BY DEF SignInStep, SendReads, SendPuts, VerifyReads, VerifyCounts, VerifyDeletes, PutsTicket, NonceInUse,
         Continues, Reads
<1>5. /\ db'.users = db.users /\ db'.wallets = db.wallets /\ db'.bills = db.bills
      /\ db'.addresses = db.addresses
  BY <1>1, <1>4 DEF StoreShape
<1>6. died => died'
  BY <1>3
<1> QED BY <1>2, <1>3, <1>5, <1>6

LEMMA LoyaltyFrame ==
  ASSUME IInv, NEW c \in Calls, LoyaltyStep(c)
  PROVE  /\ UNCHANGED <<stale, now, raced, died>> /\ c \in InFlight
         /\ db'.users = db.users /\ db'.challenges = db.challenges /\ db'.tickets = db.tickets
         /\ db'.addresses = db.addresses
<1>1. StoreShape(db)
  BY AtWork
<1>2. c \in InFlight
  BY DEF LoyaltyStep, ReadsBill, AddPointsDecides, RedeemDecides, PutsPoints, PutsBill, At, Doing, InFlight
<1>3. UNCHANGED <<stale, now, raced, died>>
  BY DEF LoyaltyStep, ReadsBill, AddPointsDecides, RedeemDecides, PutsPoints, PutsBill, Reads, Aside
<1>4. \/ UNCHANGED db
      \/ \E k, row : db' = [db EXCEPT !.wallets[k] = row]
      \/ \E k, row : db' = [db EXCEPT !.bills[k] = row]
  BY DEF LoyaltyStep, ReadsBill, AddPointsDecides, RedeemDecides, PutsPoints, PutsBill, Reads
<1>5. /\ db'.users = db.users /\ db'.challenges = db.challenges /\ db'.tickets = db.tickets
      /\ db'.addresses = db.addresses
  BY <1>1, <1>4 DEF StoreShape
<1> QED BY <1>2, <1>3, <1>5

LEMMA AddressFrame ==
  ASSUME IInv, NEW c \in Calls, AddressStep(c)
  PROVE  /\ UNCHANGED <<stale, now, raced, died>> /\ c \in InFlight
         /\ db'.users = db.users /\ db'.challenges = db.challenges /\ db'.tickets = db.tickets
         /\ db'.wallets = db.wallets /\ db'.bills = db.bills
<1>1. StoreShape(db)
  BY AtWork
<1>2. c \in InFlight
  BY DEF AddressStep, SaveLists, SavePuts, DeleteReads, Deletes, At, Doing, InFlight
<1>3. UNCHANGED <<stale, now, raced, died>>
  BY DEF AddressStep, SaveLists, SavePuts, DeleteReads, Deletes, Reads, Aside
<1>4. \/ UNCHANGED db
      \/ \E k, row : db' = [db EXCEPT !.addresses[k] = row]
  BY DEF AddressStep, SaveLists, SavePuts, DeleteReads, Deletes, Reads
<1>5. /\ db'.users = db.users /\ db'.challenges = db.challenges /\ db'.tickets = db.tickets
      /\ db'.wallets = db.wallets /\ db'.bills = db.bills
  BY <1>1, <1>4 DEF StoreShape
<1> QED BY <1>2, <1>3, <1>5

(* What happens beside the calls *)
LEMMA BesideFrame ==
  ASSUME IInv, CatchUp \/ Tick \/ AllDone \/ UNCHANGED vars \/ SweepsChallenge \/ SweepsTicket
  PROVE  /\ UNCHANGED <<call, raced, died>> /\ stale' \in {stale, db}
         /\ db'.users = db.users /\ db'.wallets = db.wallets /\ db'.bills = db.bills
         /\ db'.addresses = db.addresses
<1>1. StoreShape(db)
  BY DEF IInv, Shapes
<1>2. \/ UNCHANGED db
      \/ \E k, row : db' = [db EXCEPT !.challenges[k] = row]
      \/ \E k, row : db' = [db EXCEPT !.tickets[k] = row]
  BY DEF CatchUp, Tick, AllDone, vars, SweepsChallenge, SweepsTicket
<1>3. /\ db'.users = db.users /\ db'.wallets = db.wallets /\ db'.bills = db.bills
      /\ db'.addresses = db.addresses
  BY <1>1, <1>2 DEF StoreShape
<1>4. UNCHANGED <<call, raced, died>> /\ stale' \in {stale, db}
  BY DEF CatchUp, Tick, AllDone, vars, SweepsChallenge, SweepsTicket
<1> QED BY <1>3, <1>4

-----------------------------------------------------------------------------
(* Turns *)

LEMMA TurnStep ==
  ASSUME InTurn, NEW c \in InFlight, Only(c), raced' = raced,
         (~raced /\ call'[c].step # "done") => Aligned(c)' /\ Saw(c)'
  PROVE  InTurn'
<1>1. ~raced => \A d \in Calls \ {c} : d \notin InFlight /\ call'[d] = call[d]
  BY DEF InTurn, Only, InFlight
<1>2. ~raced' => \A d \in InFlight' : d = c /\ call'[c].step # "done"
  BY <1>1 DEF InFlight
<1> QED BY <1>2 DEF InTurn

LEMMA EndsTurn ==
  ASSUME InTurn, NEW c \in InFlight, Only(c), raced' = raced, call'[c].step = "done"
  PROVE  InTurn'
BY TurnStep

LEMMA ReadsTurn ==
  ASSUME InTurn, NEW c \in InFlight, Only(c), UNCHANGED <<db, stale, raced>>,
         call[c].step # "putBill",
         call[c].step \in {"readWallet", "putWallet", "putTicket"} =>
           call'[c].step \in {"readWallet", "putWallet", "putTicket", "done"},
         (~raced /\ Aligned(c) /\ Saw(c) /\ call'[c].step # "done") => Saw(c)'
  PROVE  InTurn'
<1>1. ~raced => Aligned(c) /\ Saw(c)
  BY DEF InTurn
<1>2. (~raced /\ call'[c].step # "done") => Aligned(c)'
  BY <1>1 DEF Aligned
<1> QED BY <1>1, <1>2, TurnStep

LEMMA OverTurn ==
  ASSUME IInv, InTurn, NEW c \in InFlight, Over(c), raced' = raced
  PROVE  InTurn'
<1>1. c \in Calls
  BY DEF InFlight
<1>2. Only(c) /\ call'[c] = [Blank EXCEPT !.op = call[c].op, !.step = "done"]
  BY <1>1, AtWork, OneCall DEF Over
<1>3. call'[c].step = "done"
  BY <1>2, BlankShape DEF CallShape
<1> QED BY <1>2, <1>3, EndsTurn

LEMMA AnswerTurn ==
  ASSUME IInv, TInv, InTurn, NEW c \in InFlight, NEW u, Answer(c, u), raced' = raced
  PROVE  InTurn'
<1>1. c \in Calls
  BY DEF InFlight
<1>2. Only(c) /\ call'[c] = Answered(c, u)
  BY <1>1, AtWork, OneCall DEF Answer
<1>3. call'[c].step = "done"
  BY <1>1, <1>2 DEF TInv, Good, CallType, Answered
<1> QED BY <1>2, <1>3, EndsTurn

LEMMA AccountTurn ==
  ASSUME IInv, TInv, InTurn, NEW c \in Calls, AccountStep(c)
  PROVE  InTurn'
<1>0. /\ call[c] \in CallType /\ Fits(call[c]) /\ Function(call, Calls) /\ StoreShape(db)
      /\ c \in InFlight /\ raced' = raced /\ stale' = stale
  BY AtWork, AccountFrame DEF TInv, Good
<1>1. CASE FindsCustomer(c)
  <2>1. PICK u : call' = [call EXCEPT ![c].step = After(call[c].op), ![c].user = u, ![c].todo = {}]
    BY <1>1 DEF FindsCustomer
  <2>2. PICK s \in {"done", "putTicket", "readWallet"} : s = After(call[c].op)
    BY AfterStep
  <2>3. Only(c) /\ call'[c] = [call[c] EXCEPT !.step = s, !.user = u, !.todo = {}]
    BY <1>0, <2>1, <2>2 DEF Function, Only
  <2>4. call'[c].step = s
    BY <1>0, <2>3 DEF CallType
  <2>5. call[c].step = "lookup" /\ UNCHANGED db
    BY <1>1 DEF FindsCustomer, At, Reads
  <2> QED BY <1>0, <2>2, <2>3, <2>4, <2>5, ReadsTurn DEF Saw
<1>2. CASE MissesCustomer(c)
  <2>1. PICK l : MayMiss(l) /\ call' = [call EXCEPT ![c].todo = @ \ {l}]
    BY <1>2 DEF MissesCustomer
  <2>2. PICK t : t = call[c].todo \ {l}
    OBVIOUS
  <2>3. Only(c) /\ call'[c] = [call[c] EXCEPT !.todo = t]
    BY <1>0, <2>1, <2>2 DEF Function, Only
  <2>4. call'[c].step = call[c].step /\ call'[c].todo = t /\ call'[c].key = call[c].key
    BY <1>0, <2>3 DEF CallType
  <2>5. call[c].step = "lookup" /\ UNCHANGED db
    BY <1>2 DEF MissesCustomer, At, Reads
  <2>6. ASSUME Aligned(c), Saw(c) PROVE Saw(c)'
    <3>1. \A u \in Ids : ~Matches(db.users[u], l)
      BY <2>1, <2>5, <2>6 DEF MayMiss, SeenUser, Aligned
    <3>2. \A m \in LookupKeys(call[c].key) \ call[c].todo, u \in Ids : ~Matches(db.users[u], m)
      BY <2>5, <2>6 DEF Saw
    <3>3. PICK k : k = call[c].key /\ k = call'[c].key
      BY <2>4
    <3>4. \A m \in LookupKeys(k) \ t, u \in Ids : ~Matches(db.users[u], m)
      BY <2>2, <3>1, <3>2, <3>3
    <3> QED BY <2>4, <2>5, <3>3, <3>4 DEF Saw
  <2> QED BY <1>0, <2>3, <2>4, <2>5, <2>6, ReadsTurn
<1>3. CASE PutsCustomer(c)
  <2>1. call' = [call EXCEPT ![c].step = After(call[c].op), ![c].user = c]
    BY <1>3 DEF PutsCustomer
  <2>2. PICK s \in {"done", "putTicket", "readWallet"} : s = After(call[c].op)
    BY AfterStep
  <2>3. Only(c) /\ call'[c] = [call[c] EXCEPT !.step = s, !.user = c]
    BY <1>0, <2>1, <2>2 DEF Function, Only
  <2>4. call'[c].step = s
    BY <1>0, <2>3 DEF CallType
  <2>8. call[c].step = "lookup"
    BY <1>3 DEF PutsCustomer, At
  <2>5. PICK row : db' = [db EXCEPT !.users[c] = row]
    BY <1>3 DEF PutsCustomer
  <2>6. db'.bills = db.bills /\ db'.addresses = db.addresses /\ db'.wallets = db.wallets
        /\ db'.challenges = db.challenges
    BY <1>0, <2>5 DEF StoreShape
  <2>7. (~raced /\ call'[c].step # "done") => Aligned(c)' /\ Saw(c)'
    BY <1>0, <2>2, <2>4, <2>6, <2>8 DEF InTurn, Aligned, Saw
  <2> QED BY <1>0, <2>3, <2>7, TurnStep
<1>4. CASE ReadsWallet(c)
  <2>1. call[c].step = "readWallet" /\ UNCHANGED db
    BY <1>4 DEF ReadsWallet, At, Reads
  <2>2. ASSUME NoRow \in SeenWallet(call[c].user), Goto(c, "putWallet")
        PROVE  InTurn'
    <3>1. Only(c) /\ call'[c] = [call[c] EXCEPT !.step = "putWallet"]
      BY <1>0, <2>2 DEF Goto, Function, Only
    <3>2. call'[c].step = "putWallet" /\ call'[c].user = call[c].user
      BY <1>0, <3>1 DEF CallType
    <3>3. Aligned(c) => Saw(c)'
      BY <2>1, <2>2, <3>2 DEF Aligned, Saw, SeenWallet
    <3> QED BY <1>0, <2>1, <3>1, <3>2, <3>3, ReadsTurn
  <2> QED BY <1>0, <1>4, <2>2, AnswerTurn DEF ReadsWallet
<1>5. CASE KeySeemsFree(c)
  <2>1. PICK t : Only(c) /\ call'[c] = [call[c] EXCEPT !.todo = t]
    BY <1>5, KeySeemsFreeIs
  <2>2. call'[c].step = "check"
    BY <1>0, <1>5, <2>1, KeySeemsFreeIs DEF CallType
  <2>3. call[c].step = "check" /\ UNCHANGED db
    BY <1>5, KeySeemsFreeIs
  <2> QED BY <1>0, <2>1, <2>2, <2>3, ReadsTurn DEF Saw
<1>6. CASE ChangeReads(c)
  <2>1. call[c].step = "read" /\ call[c].op = "changePassword" /\ UNCHANGED db
    BY <1>6 DEF ChangeReads, Doing, Reads
  <2>2. ASSUME NEW row, call' = [call EXCEPT ![c].step = "put", ![c].row = row]
        PROVE  InTurn'
    <3>1. Only(c) /\ call'[c] = [call[c] EXCEPT !.step = "put", !.row = row]
      BY <1>0, <2>2 DEF Function, Only
    <3>2. call'[c].step = "put" /\ call'[c].op = "changePassword"
      BY <1>0, <2>1, <3>1 DEF CallType
    <3> QED BY <1>0, <2>1, <3>1, <3>2, ReadsTurn DEF Saw
  <2>3. Over(c) \/ \E row : call' = [call EXCEPT ![c].step = "put", ![c].row = row]
    BY <1>6 DEF ChangeReads
  <2> QED BY <1>0, <2>2, <2>3, OverTurn
<1>7. CASE PutsEmptyWallet(c)
  BY <1>0, <1>7, AnswerTurn DEF PutsEmptyWallet
<1>8. CASE StaffLogsIn(c)
  BY <1>0, <1>8, AnswerTurn, OverTurn DEF StaffLogsIn
<1>9. CASE KeyTaken(c) \/ PutsUser(c) \/ StaffUnknown(c) \/ ChangePuts(c)
  BY <1>0, <1>9, OverTurn DEF KeyTaken, PutsUser, StaffUnknown, ChangePuts
<1> QED BY <1>1, <1>2, <1>3, <1>4, <1>5, <1>6, <1>7, <1>8, <1>9 DEF AccountStep

LEMMA SignInTurn ==
  ASSUME IInv, TInv, InTurn, NEW c \in Calls, SignInStep(c)
  PROVE  InTurn'
<1>0. /\ call[c] \in CallType /\ Fits(call[c]) /\ Function(call, Calls) /\ StoreShape(db)
      /\ c \in InFlight /\ raced' = raced /\ stale' = stale
  BY AtWork, SignInFrame DEF TInv, Good
<1>1. CASE SendReads(c)
  <2>1. call[c].step = "read" /\ call[c].op = "send" /\ UNCHANGED db
    BY <1>1 DEF SendReads, Doing, Reads
  <2>2. ASSUME NEW code, call' = [call EXCEPT ![c].step = "put", ![c].given = code]
        PROVE  InTurn'
    <3>1. Only(c) /\ call'[c] = [call[c] EXCEPT !.step = "put", !.given = code]
      BY <1>0, <2>2 DEF Function, Only
    <3>2. call'[c].step = "put" /\ call'[c].op = "send"
      BY <1>0, <2>1, <3>1 DEF CallType
    <3> QED BY <1>0, <2>1, <3>1, <3>2, ReadsTurn DEF Saw
  <2> QED BY <1>0, <1>1, <2>2, OverTurn DEF SendReads
<1>2. CASE VerifyReads(c)
  <2>1. call[c].step = "read" /\ UNCHANGED db
    BY <1>2 DEF VerifyReads, Doing, Reads
  <2>2. ASSUME NEW row, NEW s \in {"delete", "count"},
               call' = [call EXCEPT ![c].row = row, ![c].step = s]
        PROVE  InTurn'
    <3>1. Only(c) /\ call'[c] = [call[c] EXCEPT !.row = row, !.step = s]
      BY <1>0, <2>2 DEF Function, Only
    <3>2. call'[c].step = s
      BY <1>0, <3>1 DEF CallType
    <3> QED BY <1>0, <2>1, <2>2, <3>1, <3>2, ReadsTurn DEF Saw
  <2>3. Over(c) \/ \E row, s : s \in {"delete", "count"} /\ call' = [call EXCEPT ![c].row = row, ![c].step = s]
    BY <1>2 DEF VerifyReads
  <2> QED BY <1>0, <2>2, <2>3, OverTurn
<1>3. CASE VerifyDeletes(c)
  <2>1. call[c].step = "delete" /\ call[c].op = "verify" /\ call[c].key \in Keys
    BY <1>0, <1>3 DEF VerifyDeletes, Doing, Fits, Working
  <2>2. PICK r, k : k \in Keys /\ k = call[c].key /\ r = Onboarding(call[c], k)
    BY <2>1
  <2>3. Only(c) /\ call'[c] = r
    BY <1>0, <1>3, <2>2, OneCall DEF VerifyDeletes
  <2>4. r.step \in {"lookup", "done"} /\ (r.step = "lookup" => r.todo = LookupKeys(r.key))
    <3>1. CASE IsPhone(k)
      <4>1. PICK t : t = LookupKeys(k)
        OBVIOUS
      <4>2. r = [call[c] EXCEPT !.step = "lookup", !.key = k, !.todo = t]
        BY <2>2, <3>1, <4>1 DEF Onboarding
      <4>3. r.step = "lookup" /\ r.key = k /\ r.todo = t
        BY <1>0, <4>2 DEF CallType
      <4> QED BY <4>1, <4>3
    <3>2. CASE ~IsPhone(k)
      <4>1. r = [call[c] EXCEPT !.step = "done"]
        BY <2>2, <3>2 DEF Onboarding
      <4>2. r.step = "done"
        BY <1>0, <4>1 DEF CallType
      <4> QED BY <4>2
    <3> QED BY <3>1, <3>2
  <2>5. db' = [db EXCEPT !.challenges[k] = NoRow]
    BY <1>3, <2>2 DEF VerifyDeletes, UsedUp
  <2>6. db.challenges \in [Keys -> ChallengeType \cup {NoRow}]
    BY StoreFields DEF TInv
  <2>7. /\ db'.bills = db.bills /\ db'.addresses = db.addresses /\ db'.wallets = db.wallets
        /\ db'.users = db.users
        /\ \A l \in Keys : db'.challenges[l] \in {db.challenges[l], NoRow}
    BY <1>0, <2>5, <2>6 DEF StoreShape
  <2>8. (~raced /\ call'[c].step # "done") => Aligned(c)'
    <3>1. ~raced => Aligned(c)
      BY <1>0 DEF InTurn
    <3> QED BY <1>0, <2>1, <2>3, <2>4, <2>7, <3>1 DEF Aligned
  <2>9. call'[c].step # "done" => Saw(c)'
    BY <2>3, <2>4 DEF Saw
  <2> QED BY <1>0, <2>3, <2>8, <2>9, TurnStep
<1>4. CASE NonceInUse(c)
  <2>1. call[c].step = "putTicket" /\ UNCHANGED db
    BY <1>4 DEF NonceInUse, At, Reads
  <2>2. ASSUME call' = [call EXCEPT ![c].tries = @ + 1]
        PROVE  InTurn'
    <3>1. PICK t : t = call[c].tries + 1
      OBVIOUS
    <3>2. Only(c) /\ call'[c] = [call[c] EXCEPT !.tries = t]
      BY <1>0, <2>2, <3>1 DEF Function, Only
    <3>3. call'[c].step = "putTicket"
      BY <1>0, <2>1, <3>2 DEF CallType
    <3> QED BY <1>0, <2>1, <3>2, <3>3, ReadsTurn DEF Saw
  <2> QED BY <1>0, <1>4, <2>2, OverTurn DEF NonceInUse
<1>5. CASE PutsTicket(c)
  <2>1. PICK n : call' = [call EXCEPT ![c] = [Answered(c, call[c].user) EXCEPT !.at = call[c].at, !.arg = n]]
    BY <1>5 DEF PutsTicket
  <2>2. PICK t : t = call[c].at
    OBVIOUS
  <2>3. PICK a : a = Answered(c, call[c].user)
    OBVIOUS
  <2>4. Only(c) /\ call'[c] = [a EXCEPT !.at = t, !.arg = n]
    BY <1>0, <2>1, <2>2, <2>3, OneCall
  <2>5. a.step = "done" /\ CallShape(a)
    BY <1>0, <2>3 DEF Answered, CallType, CallShape
  <2>6. call'[c].step = "done"
    BY <2>4, <2>5 DEF CallShape
  <2> QED BY <1>0, <2>4, <2>6, EndsTurn
<1>6. CASE Continues(c)
  <2>1. PICK u, row : call' = [call EXCEPT ![c] = [Answered(c, u) EXCEPT !.row = row, !.arg = NoArg]]
    BY <1>6 DEF Continues
  <2>2. PICK a : a = Answered(c, u)
    OBVIOUS
  <2>3. Only(c) /\ call'[c] = [a EXCEPT !.row = row, !.arg = NoArg]
    BY <1>0, <2>1, <2>2, OneCall
  <2>4. a.step = "done" /\ CallShape(a)
    BY <1>0, <2>2 DEF Answered, CallType, CallShape
  <2>5. call'[c].step = "done"
    BY <2>3, <2>4 DEF CallShape
  <2> QED BY <1>0, <2>3, <2>5, EndsTurn
<1>7. CASE SendPuts(c)
  BY <1>0, <1>7, OverTurn DEF SendPuts
<1>8. CASE VerifyCounts(c)
  BY <1>0, <1>8, AnswerTurn DEF VerifyCounts
<1> QED BY <1>1, <1>2, <1>3, <1>4, <1>5, <1>6, <1>7, <1>8 DEF SignInStep

LEMMA LoyaltyTurn ==
  ASSUME IInv, TInv, InTurn, NEW c \in Calls, LoyaltyStep(c)
  PROVE  InTurn'
<1>0. /\ call[c] \in CallType /\ Fits(call[c]) /\ Function(call, Calls) /\ StoreShape(db)
      /\ c \in InFlight /\ raced' = raced /\ stale' = stale
  BY AtWork, LoyaltyFrame DEF TInv, Good
<1>1. CASE ReadsBill(c)
  <2>1. call[c].step = "readBill" /\ UNCHANGED db
    BY <1>1 DEF ReadsBill, At, Reads
  <2>2. PICK b : b \in SeenBill(call[c].arg) /\ call' = [call EXCEPT ![c].step = "readPoints", ![c].billRow = b]
    BY <1>1 DEF ReadsBill
  <2>3. Only(c) /\ call'[c] = [call[c] EXCEPT !.step = "readPoints", !.billRow = b]
    BY <1>0, <2>2 DEF Function, Only
  <2>4. call'[c].step = "readPoints" /\ call'[c].billRow = b /\ call'[c].arg = call[c].arg
    BY <1>0, <2>3 DEF CallType
  <2>5. Aligned(c) => Saw(c)'
    BY <2>1, <2>2, <2>4 DEF Aligned, Saw, SeenBill
  <2> QED BY <1>0, <2>1, <2>3, <2>4, <2>5, ReadsTurn
<1>2. CASE AddPointsDecides(c) \/ RedeemDecides(c)
  <2>1. call[c].step = "readPoints" /\ UNCHANGED db
    BY <1>2 DEF AddPointsDecides, RedeemDecides, Doing, Reads
  <2>2. ASSUME NEW w, NEW b, call' = [call EXCEPT ![c].step = "putPoints", ![c].row = w, ![c].billRow = b]
        PROVE  InTurn'
    <3>1. Only(c) /\ call'[c] = [call[c] EXCEPT !.step = "putPoints", !.row = w, !.billRow = b]
      BY <1>0, <2>2 DEF Function, Only
    <3>2. call'[c].step = "putPoints"
      BY <1>0, <3>1 DEF CallType
    <3> QED BY <1>0, <2>1, <3>1, <3>2, ReadsTurn DEF Saw
  <2>3. Over(c) \/ \E w, b : call' = [call EXCEPT ![c].step = "putPoints", ![c].row = w, ![c].billRow = b]
    BY <1>2 DEF AddPointsDecides, RedeemDecides
  <2> QED BY <1>0, <2>2, <2>3, OverTurn
<1>3. CASE PutsPoints(c)
  <2>1. Only(c) /\ call'[c] = [call[c] EXCEPT !.step = "putBill"]
    BY <1>0, <1>3 DEF PutsPoints, Goto, Function, Only
  <2>2. call'[c].step = "putBill"
    BY <1>0, <2>1 DEF CallType
  <2>3. call[c].step = "putPoints"
    BY <1>3 DEF PutsPoints, At
  <2>4. /\ db'.bills = db.bills /\ db'.addresses = db.addresses /\ db'.users = db.users
        /\ db'.challenges = db.challenges
    BY <1>0, <1>3 DEF PutsPoints, StoreShape
  <2>5. ~raced => Aligned(c)' /\ Saw(c)'
    BY <1>0, <2>2, <2>3, <2>4 DEF InTurn, Aligned, Saw
  <2> QED BY <1>0, <2>1, <2>5, TurnStep
<1>4. CASE PutsBill(c)
  BY <1>0, <1>4, OverTurn DEF PutsBill
<1> QED BY <1>1, <1>2, <1>3, <1>4 DEF LoyaltyStep

LEMMA AddressTurn ==
  ASSUME IInv, TInv, InTurn, NEW c \in Calls, AddressStep(c)
  PROVE  InTurn'
<1>0. /\ call[c] \in CallType /\ Fits(call[c]) /\ Function(call, Calls) /\ StoreShape(db)
      /\ c \in InFlight /\ raced' = raced /\ stale' = stale
      /\ db.addresses \in [AddressIds -> AddressType \cup {NoRow}]
  BY AtWork, AddressFrame, StoreFields DEF TInv, Good
<1>1. CASE SaveLists(c)
  <2>1. call[c].step = "read" /\ call[c].op = "save" /\ UNCHANGED db /\ call[c].arg \in Labels
    BY <1>0, <1>1 DEF SaveLists, Doing, Reads, Fits
  <2>2. PICK l, row : l = call[c].arg /\ row = NewAddress(c, l)
    OBVIOUS
  <2>3. row.label = l
    BY <2>2 DEF NewAddress
  <2>4. PICK list \in SeenLists :
          \E i \in IF Labelled(list, l) = {} THEN {c} ELSE Newest(list, l) :
            call' = [call EXCEPT ![c].step = "put", ![c].arg = i, ![c].row = row]
    BY <1>1, <2>2 DEF SaveLists
  <2>5. PICK i : /\ i \in IF Labelled(list, l) = {} THEN {c} ELSE Newest(list, l)
                 /\ call' = [call EXCEPT ![c].step = "put", ![c].arg = i, ![c].row = row]
    BY <2>4
  <2>6. Only(c) /\ call'[c] = [call[c] EXCEPT !.step = "put", !.arg = i, !.row = row]
    BY <1>0, <2>5 DEF Function, Only
  <2>7. call'[c].step = "put" /\ call'[c].arg = i /\ call'[c].row = row /\ call'[c].op = "save"
    BY <1>0, <2>1, <2>6 DEF CallType
  <2>8. ASSUME Aligned(c) PROVE Saw(c)'
    <3>1. \A j \in AddressIds : list[j] = db.addresses[j]
      BY <2>4, <2>8 DEF SeenLists, Aligned
    <3>2. CASE Labelled(list, l) = {}
      <4>1. i = c
        BY <2>5, <3>2
      <4>2. \A j \in AddressIds : db.addresses[j] # NoRow => db.addresses[j].label[1] # l[1]
        BY <3>1, <3>2 DEF Labelled, SameLabel
      <4> QED BY <2>1, <2>3, <2>7, <4>1, <4>2 DEF Saw
    <3>3. CASE Labelled(list, l) # {}
      <4>1. db.addresses[i] # NoRow
        BY <2>5, <3>1, <3>3 DEF Newest, Labelled
      <4> QED BY <2>1, <2>7, <4>1 DEF Saw
    <3> QED BY <3>2, <3>3
  <2> QED BY <1>0, <2>1, <2>6, <2>7, <2>8, ReadsTurn
<1>2. CASE DeleteReads(c)
  <2>1. call[c].step = "read" /\ call[c].op = "deleteAddress" /\ UNCHANGED db
    BY <1>2 DEF DeleteReads, Doing, Reads
  <2>2. CASE Goto(c, "delete")
    <3>1. Only(c) /\ call'[c] = [call[c] EXCEPT !.step = "delete"]
      BY <1>0, <2>2 DEF Goto, Function, Only
    <3>2. call'[c].step = "delete"
      BY <1>0, <3>1 DEF CallType
    <3> QED BY <1>0, <2>1, <3>1, <3>2, ReadsTurn DEF Saw
  <2> QED BY <1>0, <1>2, <2>2, OverTurn DEF DeleteReads
<1>3. CASE SavePuts(c) \/ Deletes(c)
  BY <1>0, <1>3, OverTurn DEF SavePuts, Deletes
<1> QED BY <1>1, <1>2, <1>3 DEF AddressStep

LEMMA StartTurn ==
  ASSUME IInv, TInv, InTurn, NEW c \in Calls, Start(c)
  PROVE  InTurn'
<1>1. PICK r \in Requests : call' = [call EXCEPT ![c] = r]
  BY DEF Start
<1>2. Only(c) /\ call'[c] = r
  BY <1>1, AtWork, OneCall
<1>3. UNCHANGED <<db, stale>>
  BY DEF Start
<1>4. ~raced' => ~raced /\ InFlight = {} /\ stale = db
  BY DEF Start
<1>5. /\ r.step \in Ignorant \cup {"lookup", "done", "put"} /\ r.step \notin Holding
      /\ r.step = "put" => r.op = "saveAs" /\ (r.arg = local \/ db.addresses[r.arg] # NoRow)
      /\ r.step = "lookup" => r.todo = LookupKeys(r.key)
  BY RequestsKnow, RequestsEmpty DEF Empty
<1>6. ~raced' => InFlight' \subseteq {c}
  BY <1>2, <1>4 DEF InFlight, Only
<1>7. ~raced' => Aligned(c)'
  BY <1>3, <1>4 DEF Aligned
<1>8. Saw(c)'
  BY <1>2, <1>3, <1>5 DEF Saw, Holding, Ignorant
<1> QED BY <1>6, <1>7, <1>8 DEF InTurn

LEMMA BesideTurn ==
  ASSUME IInv, InTurn, CatchUp \/ Tick \/ AllDone \/ UNCHANGED vars \/ SweepsChallenge \/ SweepsTicket
  PROVE  InTurn'
<1>1. /\ UNCHANGED <<call, raced>> /\ stale' \in {stale, db}
      /\ db'.users = db.users /\ db'.wallets = db.wallets /\ db'.bills = db.bills
      /\ db'.addresses = db.addresses
  BY BesideFrame
<1>2. \A c \in Calls : Saw(c) => Saw(c)'
  BY <1>1 DEF Saw
<1>3. InFlight' = InFlight
  BY <1>1 DEF InFlight
<1>4. ASSUME NEW c \in Calls, Aligned(c)
      PROVE  Aligned(c)'
  <2>1. \A k \in Keys : db'.challenges[k] \in {stale'.challenges[k], NoRow}
    <3>1. CASE UNCHANGED db
      BY <1>1, <1>4, <3>1 DEF Aligned
    <3>2. ASSUME NEW n, db' = [db EXCEPT !.challenges[n] = NoRow], stale' = stale
          PROVE  \A k \in Keys : db'.challenges[k] \in {stale'.challenges[k], NoRow}
      <4>1. db'.challenges = [db.challenges EXCEPT ![n] = NoRow]
        BY <3>2 DEF IInv, Shapes, StoreShape
      <4>2. \A k \in Keys : db'.challenges[k] \in {db.challenges[k], NoRow}
        BY <4>1
      <4> QED BY <1>4, <3>2, <4>2 DEF Aligned
    <3>3. CASE SweepsTicket
      <4>1. PICK n : db' = [db EXCEPT !.tickets[n] = NoRow]
        BY <3>3 DEF SweepsTicket
      <4>2. db'.challenges = db.challenges /\ stale' = stale
        BY <3>3, <4>1 DEF IInv, Shapes, StoreShape, SweepsTicket
      <4> QED BY <1>4, <4>2 DEF Aligned
    <3> QED BY <3>1, <3>2, <3>3 DEF CatchUp, Tick, AllDone, vars, SweepsChallenge
  <2> QED BY <1>1, <1>4, <2>1 DEF Aligned
<1> QED BY <1>1, <1>2, <1>3, <1>4 DEF InTurn, InFlight

LEMMA InTurnInductive ==
  IInv /\ TInv /\ InTurn /\ [Next]_vars => InTurn'
<1> SUFFICES ASSUME IInv, TInv, InTurn, [Next]_vars PROVE InTurn'
  OBVIOUS
<1>1. ASSUME NEW c \in Calls, Die(c) PROVE InTurn'
  BY <1>1, OverTurn DEF Die
<1> QED BY <1>1, StartTurn, AccountTurn, SignInTurn, LoyaltyTurn, AddressTurn, BesideTurn DEF Next

LEMMA InitiallyInTurn ==
  Init => InTurn
<1> SUFFICES ASSUME Init PROVE InTurn
  OBVIOUS
<1>1. \A c \in Calls : call[c] = Blank
  BY DEF Init
<1> QED BY <1>1, BlankFields DEF InTurn, InFlight

LEMMA TurnsHold ==
  Spec => [](IInv /\ TInv /\ People /\ InTurn)
<1>1. Init => InTurn
  BY InitiallyInTurn
<1>2. IInv /\ TInv /\ InTurn /\ [Next]_vars => InTurn'
  BY InTurnInductive
<1> QED BY <1>1, <1>2, PeopleHold, PTL DEF Spec

LEMMA RacedStays ==
  ASSUME IInv, [Next]_vars, ~raced'
  PROVE  ~raced
<1>1. ASSUME NEW c \in Calls, Start(c) PROVE ~raced
  BY <1>1 DEF Start
<1>2. ASSUME NEW c \in Calls, Die(c) PROVE ~raced
  BY <1>2 DEF Die
<1> QED BY <1>1, <1>2, AccountFrame, SignInFrame, LoyaltyFrame, AddressFrame, BesideFrame DEF Next

(* Who may write users, and who addresses *)
LEMMA AddressPuts ==
  ASSUME IInv, [Next]_vars
  PROVE  db'.addresses = db.addresses \/ \E c \in Calls : SavePuts(c) \/ Deletes(c)
<1>1. ASSUME NEW c \in Calls, SaveLists(c) \/ DeleteReads(c) \/ Start(c) \/ Die(c)
      PROVE  db'.addresses = db.addresses
  BY <1>1 DEF SaveLists, DeleteReads, Start, Die, Reads
<1> QED BY <1>1, AccountFrame, SignInFrame, LoyaltyFrame, BesideFrame DEF Next, AddressStep

LEMMA UserPuts ==
  ASSUME IInv, [Next]_vars
  PROVE  db'.users = db.users \/ \E c \in Calls : PutsCustomer(c) \/ PutsUser(c) \/ ChangePuts(c)
<1>0. StoreShape(db)
  BY DEF IInv, Shapes
<1>1. ASSUME NEW c \in Calls, AccountStep(c), ~PutsCustomer(c), ~PutsUser(c), ~ChangePuts(c)
      PROVE  db'.users = db.users
  <2>1. UNCHANGED db \/ \E k, row : db' = [db EXCEPT !.wallets[k] = row]
    BY <1>1 DEF AccountStep, FindsCustomer, MissesCustomer, ReadsWallet, PutsEmptyWallet, KeyTaken,
                KeySeemsFree, StaffLogsIn, StaffUnknown, ChangeReads, Reads
  <2> QED BY <1>0, <2>1 DEF StoreShape
<1>2. ASSUME NEW c \in Calls, Start(c) \/ Die(c) PROVE db'.users = db.users
  BY <1>2 DEF Start, Die
<1> QED BY <1>1, <1>2, SignInFrame, LoyaltyFrame, AddressFrame, BesideFrame DEF Next

(* One call after the other, Upsert without an id never adds an address of *)
(* a label that the list it read already had.                              *)
THEOREM CustomerLabelsStayUnique ==
  Spec => LabelsStayUnique
<1>1. ASSUME IInv, TInv, InTurn, [Next]_vars, NEW c \in Calls, ~raced', call[c].op = "save",
             db.addresses[c] = NoRow, db'.addresses[c] # NoRow,
             NEW i \in AddressIds, db.addresses[i] # NoRow
      PROVE  db.addresses[i].label[1] # db'.addresses[c].label[1]
  <2>0. StoreShape(db) /\ db.addresses \in [AddressIds -> AddressType \cup {NoRow}]
    BY <1>1, StoreFields DEF TInv
  <2>1. c \in AddressIds /\ c # local
    BY StoreAssumption DEF AddressIds, Ids
  <2>2. PICK d \in Calls : SavePuts(d) \/ Deletes(d)
    BY <1>1, AddressPuts
  <2>3. Fits(call[d])
    BY <1>1 DEF TInv, Good
  <2>4. CASE Deletes(d)
    <3>1. PICK k : db' = [db EXCEPT !.addresses[k] = NoRow]
      BY <2>4 DEF Deletes
    <3>2. db'.addresses = [db.addresses EXCEPT ![k] = NoRow]
      BY <2>0, <3>1 DEF StoreShape
    <3> QED BY <1>1, <2>0, <2>1, <3>2
  <2>5. CASE SavePuts(d)
    <3>1. call[d].op \in {"save", "saveAs"} /\ call[d].step = "put" /\ d \in InFlight
      BY <2>5 DEF SavePuts, At, InFlight
    <3>2. Saw(d)
      BY <1>1, <3>1, RacedStays DEF InTurn
    <3>3. PICK k, row : k = call[d].arg /\ row = call[d].row /\ k \in AddressIds
      BY <2>3, <3>1 DEF Fits
    <3>4. db'.addresses = [db.addresses EXCEPT ![k] = row]
      BY <2>0, <2>5, <3>3 DEF SavePuts, StoreShape
    <3>5. k = c /\ db'.addresses[c] = row
      BY <1>1, <2>0, <2>1, <3>3, <3>4
    <3> QED BY <1>1, <2>1, <3>1, <3>2, <3>3, <3>5 DEF Saw
  <2> QED BY <2>2, <2>4, <2>5
<1>2. IInv /\ TInv /\ InTurn /\ [Next]_vars =>
        [\A c \in Calls :
           (/\ ~raced' /\ call[c].op = "save"
            /\ db.addresses[c] = NoRow /\ db'.addresses[c] # NoRow) =>
           \A i \in AddressIds : db.addresses[i] # NoRow =>
             db.addresses[i].label[1] # db'.addresses[c].label[1]]_vars
  BY <1>1
<1> QED BY <1>2, TurnsHold, PTL DEF Spec, LabelsStayUnique

(* One call after the other, CreateOrGetCustomer creates a customer only   *)
(* for a number that no row has in any of the forms PhoneLookupKeys names. *)
THEOREM CustomerGuestsOnlyOnFirstContact ==
  Spec => GuestsOnlyOnFirstContact
<1>1. ASSUME IInv, TInv, People, InTurn, [Next]_vars, NEW c \in Calls, ~raced', call[c].op # "createUser",
             db.users[c] = NoRow, db'.users[c] # NoRow, NEW u \in Ids, db.users[u] # NoRow,
             db.users[u].key[1] = call[c].key[1],
             \E i \in DOMAIN LookupForms : LookupForms[i] = db.users[u].key[2]
      PROVE  FALSE
  <2>0. StoreShape(db) /\ db.users \in [Ids -> UserType \cup {NoRow}] /\ c \in Ids
    BY <1>1, StoreFields DEF TInv, Ids
  <2>1. ASSUME NEW k, NEW row, db' = [db EXCEPT !.users[k] = row] PROVE k = c
    <3>1. db'.users = [db.users EXCEPT ![k] = row]
      BY <2>0, <2>1 DEF StoreShape
    <3> QED BY <1>1, <2>0, <3>1
  <2>2. PICK d \in Calls : PutsCustomer(d) \/ PutsUser(d) \/ ChangePuts(d)
    BY <1>1, UserPuts
  <2>3. CASE PutsUser(d)
    BY <1>1, <2>1, <2>3 DEF PutsUser, Doing
  <2>4. CASE ChangePuts(d)
    <3>1. db.users[call[d].user] # NoRow
      BY <1>1, <2>4 DEF ChangePuts, Doing, People, Knows
    <3> QED BY <1>1, <2>1, <2>4, <3>1 DEF ChangePuts
  <2>5. CASE PutsCustomer(d)
    <3>1. d = c
      BY <2>1, <2>5 DEF PutsCustomer
    <3>2. call[c].step = "lookup" /\ call[c].todo = {} /\ c \in InFlight
      BY <2>5, <3>1 DEF PutsCustomer, At, InFlight
    <3>3. Saw(c)
      BY <1>1, <3>2, RacedStays DEF InTurn
    <3>4. PICK k : k = call[c].key
      OBVIOUS
    <3>5. ~Matches(db.users[u], db.users[u].key) \/ db.users[u].key \notin LookupKeys(k)
      BY <3>2, <3>3, <3>4 DEF Saw
    <3>6. db.users[u].key \in Keys
      BY <1>1, <2>0 DEF UserType
    <3>7. db.users[u].key \in LookupKeys(k)
      BY <1>1, <3>4, <3>6 DEF LookupKeys
    <3> QED BY <1>1, <3>5, <3>7 DEF Matches, KeysOf
  <2> QED BY <2>2, <2>3, <2>4, <2>5
<1>2. IInv /\ TInv /\ People /\ InTurn /\ [Next]_vars =>
        [\A c \in Calls :
           (/\ ~raced' /\ call[c].op # "createUser"
            /\ db.users[c] = NoRow /\ db'.users[c] # NoRow) =>
           \A u \in Ids : db.users[u] # NoRow =>
             ~ /\ db.users[u].key[1] = call[c].key[1]
               /\ \E i \in DOMAIN LookupForms : LookupForms[i] = db.users[u].key[2]]_vars
  BY <1>1
<1> QED BY <1>2, TurnsHold, PTL DEF Spec, GuestsOnlyOnFirstContact

-----------------------------------------------------------------------------
(* Where a step leaves its call: whether it is about points, and what      *)
(* becomes of a verify.                                                    *)

Calm(c) == Only(c) /\ {call[c].step, call'[c].step} \cap {"putPoints", "putBill"} = {}

(* A step that neither tries nor uses up a code *)
Beside(c) ==
  call'[c].op = "verify" =>
    \/ Taken(call[c]) /\ Taken(call'[c]) /\ call'[c].row = call[c].row /\ call'[c].given = call[c].given
    \/ call'[c].step = "done" /\ call'[c].user = NoUser /\ call'[c].row = NoRow
    \/ ~Taken(call'[c]) /\ ~Trying(call'[c]) /\ call'[c].step # "done"

LEMMA OverIs ==
  ASSUME IInv, NEW c \in Calls, Over(c)
  PROVE  /\ Only(c) /\ Beside(c) /\ call'[c].step = "done" /\ call'[c].op = call[c].op
         /\ call'[c].user = NoUser /\ call'[c].row = NoRow
<1>1. PICK o : o = call[c].op
  OBVIOUS
<1>2. Only(c) /\ call'[c] = [Blank EXCEPT !.op = o, !.step = "done"]
  BY <1>1, AtWork, OneCall DEF Over
<1>3. /\ call'[c].step = "done" /\ call'[c].op = o /\ call'[c].user = NoUser /\ call'[c].row = NoRow
  BY <1>2, BlankShape, BlankFields DEF CallShape
<1> QED BY <1>1, <1>2, <1>3 DEF Beside

LEMMA AnswerIs ==
  ASSUME IInv, TInv, NEW c \in Calls, NEW u, Answer(c, u)
  PROVE  /\ Only(c) /\ call'[c].step = "done" /\ call'[c].op = call[c].op /\ call'[c].user = u
         /\ call'[c].row = call[c].row /\ call'[c].given = call[c].given
<1>1. Only(c) /\ call'[c] = Answered(c, u)
  BY AtWork, OneCall DEF Answer
<1> QED BY <1>1 DEF TInv, Good, CallType, Answered

LEMMA GotoIs ==
  ASSUME IInv, TInv, NEW c \in Calls, NEW s, Goto(c, s)
  PROVE  /\ Only(c) /\ call'[c].step = s /\ call'[c].op = call[c].op /\ call'[c].user = call[c].user
         /\ call'[c].row = call[c].row /\ call'[c].given = call[c].given
<1>1. Only(c) /\ call'[c] = [call[c] EXCEPT !.step = s]
  BY AtWork DEF Goto, Function, Only
<1> QED BY <1>1 DEF TInv, Good, CallType

LEMMA AccountCalm ==
  ASSUME IInv, TInv, NEW c \in Calls, AccountStep(c)
  PROVE  Calm(c) /\ Beside(c)
<1>0. /\ call[c] \in CallType /\ Fits(call[c]) /\ Function(call, Calls)
      /\ c \in Ids /\ NoUser \notin Ids
  BY AtWork, StoreAssumption DEF TInv, Good, Ids
(* A customer found or made *)
<1>1. ASSUME call[c].step = "lookup", NEW u, NEW t,
             call' = [call EXCEPT ![c].step = After(call[c].op), ![c].user = u, ![c].todo = t]
      PROVE  Calm(c) /\ Beside(c)
  <2>1. PICK s \in {"done", "putTicket", "readWallet"} : s = After(call[c].op)
    BY AfterStep
  <2>2. Only(c) /\ call'[c] = [call[c] EXCEPT !.step = s, !.user = u, !.todo = t]
    BY <1>0, <1>1, <2>1 DEF Function, Only
  <2>3. /\ call'[c].step = s /\ call'[c].op = call[c].op /\ call'[c].row = call[c].row
        /\ call'[c].given = call[c].given
    BY <1>0, <2>2 DEF CallType
  <2>4. call[c].op = "verify" => s = "readWallet"
    BY <2>1 DEF After
  <2> QED BY <1>1, <2>1, <2>2, <2>3, <2>4 DEF Calm, Beside, Taken
<1>2. CASE FindsCustomer(c)
  <2>1. PICK u : call' = [call EXCEPT ![c].step = After(call[c].op), ![c].user = u, ![c].todo = {}]
    BY <1>2 DEF FindsCustomer
  <2>2. call[c].step = "lookup"
    BY <1>2 DEF FindsCustomer, At
  <2> QED BY <1>1, <2>1, <2>2
<1>3. CASE PutsCustomer(c)
  <2>1. PICK s \in {"done", "putTicket", "readWallet"} : s = After(call[c].op)
    BY AfterStep
  <2>2. Only(c) /\ call'[c] = [call[c] EXCEPT !.step = s, !.user = c]
    BY <1>0, <1>3, <2>1 DEF PutsCustomer, Function, Only
  <2>3. /\ call'[c].step = s /\ call'[c].op = call[c].op /\ call'[c].row = call[c].row
        /\ call'[c].given = call[c].given
    BY <1>0, <2>2 DEF CallType
  <2>4. call[c].op = "verify" => s = "readWallet"
    BY <2>1 DEF After
  <2>5. call[c].step = "lookup"
    BY <1>3 DEF PutsCustomer, At
  <2> QED BY <2>1, <2>2, <2>3, <2>4, <2>5 DEF Calm, Beside, Taken
<1>4. CASE MissesCustomer(c)
  <2>1. PICK l : call' = [call EXCEPT ![c].todo = @ \ {l}]
    BY <1>4 DEF MissesCustomer
  <2>2. PICK t : t = call[c].todo \ {l}
    OBVIOUS
  <2>3. Only(c) /\ call'[c] = [call[c] EXCEPT !.todo = t]
    BY <1>0, <2>1, <2>2 DEF Function, Only
  <2>4. /\ call'[c].step = call[c].step /\ call'[c].op = call[c].op /\ call'[c].row = call[c].row
        /\ call'[c].given = call[c].given
    BY <1>0, <2>3 DEF CallType
  <2>5. call[c].step = "lookup"
    BY <1>4 DEF MissesCustomer, At
  <2> QED BY <2>3, <2>4, <2>5 DEF Calm, Beside, Taken
<1>5. CASE ReadsWallet(c) \/ PutsEmptyWallet(c)
  <2>1. call[c].step \in {"readWallet", "putWallet"} /\ call[c].user # NoUser
    BY <1>0, <1>5 DEF ReadsWallet, PutsEmptyWallet, At, Fits
  <2>2. Goto(c, "putWallet") \/ Answer(c, call[c].user)
    BY <1>5 DEF ReadsWallet, PutsEmptyWallet
  <2>3. CASE Goto(c, "putWallet")
    BY <2>1, <2>3, GotoIs DEF Calm, Beside, Taken
  <2>4. CASE Answer(c, call[c].user)
    <3>1. PICK u : u = call[c].user
      OBVIOUS
    <3> QED BY <2>1, <2>4, <3>1, AnswerIs DEF Calm, Beside, Taken
  <2> QED BY <2>2, <2>3, <2>4
<1>6. CASE KeyTaken(c) \/ PutsUser(c) \/ StaffUnknown(c) \/ ChangePuts(c)
  BY <1>6, OverIs DEF KeyTaken, Checks, PutsUser, StaffUnknown, ChangePuts, Doing, Calm
<1>7. CASE KeySeemsFree(c)
  <2>1. PICK t : Only(c) /\ call'[c] = [call[c] EXCEPT !.todo = t]
    BY <1>7, KeySeemsFreeIs
  <2>2. /\ call'[c].step = call[c].step /\ call'[c].op = call[c].op /\ call'[c].row = call[c].row
        /\ call'[c].given = call[c].given
    BY <1>0, <2>1 DEF CallType
  <2>3. call[c].op = "createUser" /\ call[c].step = "check"
    BY <1>7, KeySeemsFreeIs
  <2> QED BY <2>1, <2>2, <2>3 DEF Calm, Beside, Taken
<1>8. CASE StaffLogsIn(c)
  <2>1. call[c].op = "staffLogin" /\ call[c].step = "read" /\ (Over(c) \/ \E u : Answer(c, u))
    BY <1>8 DEF StaffLogsIn, Doing
  <2> QED BY <2>1, OverIs, AnswerIs DEF Calm, Beside
<1>9. CASE ChangeReads(c)
  <2>1. call[c].op = "changePassword" /\ call[c].step = "read"
    BY <1>9 DEF ChangeReads, Doing
  <2>2. ASSUME NEW row, call' = [call EXCEPT ![c].step = "put", ![c].row = row]
        PROVE  Calm(c) /\ Beside(c)
    <3>1. Only(c) /\ call'[c] = [call[c] EXCEPT !.step = "put", !.row = row]
      BY <1>0, <2>2 DEF Function, Only
    <3>2. call'[c].step = "put" /\ call'[c].op = "changePassword"
      BY <1>0, <2>1, <3>1 DEF CallType
    <3> QED BY <2>1, <3>1, <3>2 DEF Calm, Beside
  <2>3. Over(c) \/ \E row : call' = [call EXCEPT ![c].step = "put", ![c].row = row]
    BY <1>9 DEF ChangeReads
  <2> QED BY <2>1, <2>2, <2>3, OverIs DEF Calm
<1> QED BY <1>2, <1>3, <1>4, <1>5, <1>6, <1>7, <1>8, <1>9 DEF AccountStep

LEMMA SignInCalm ==
  ASSUME IInv, TInv, NEW c \in Calls, SignInStep(c)
  PROVE  Calm(c) /\ (VerifyReads(c) \/ VerifyCounts(c) \/ VerifyDeletes(c) \/ Beside(c))
<1>0. /\ call[c] \in CallType /\ Fits(call[c]) /\ Function(call, Calls) /\ NoUser \notin Ids
  BY AtWork, StoreAssumption DEF TInv, Good
<1>1. CASE SendReads(c)
  <2>1. call[c].step = "read" /\ call[c].op = "send"
    BY <1>1 DEF SendReads, Doing
  <2>2. ASSUME NEW code, call' = [call EXCEPT ![c].step = "put", ![c].given = code]
        PROVE  Calm(c) /\ Beside(c)
    <3>1. Only(c) /\ call'[c] = [call[c] EXCEPT !.step = "put", !.given = code]
      BY <1>0, <2>2 DEF Function, Only
    <3>2. call'[c].step = "put" /\ call'[c].op = "send"
      BY <1>0, <2>1, <3>1 DEF CallType
    <3> QED BY <2>1, <3>1, <3>2 DEF Calm, Beside
  <2> QED BY <1>1, <2>1, <2>2, OverIs DEF SendReads, Calm
<1>2. CASE VerifyReads(c)
  <2>1. call[c].step = "read"
    BY <1>2 DEF VerifyReads, Doing
  <2>2. ASSUME NEW row, NEW s \in {"delete", "count"},
               call' = [call EXCEPT ![c].row = row, ![c].step = s]
        PROVE  Calm(c)
    <3>1. Only(c) /\ call'[c] = [call[c] EXCEPT !.row = row, !.step = s]
      BY <1>0, <2>2 DEF Function, Only
    <3>2. call'[c].step = s
      BY <1>0, <3>1 DEF CallType
    <3> QED BY <2>1, <2>2, <3>1, <3>2 DEF Calm
  <2>3. Over(c) \/ \E row, s : s \in {"delete", "count"} /\ call' = [call EXCEPT ![c].row = row, ![c].step = s]
    BY <1>2 DEF VerifyReads
  <2> QED BY <1>2, <2>1, <2>2, <2>3, OverIs DEF Calm
<1>3. CASE VerifyDeletes(c)
  <2>1. call[c].step = "delete" /\ call[c].op = "verify" /\ call[c].key \in Keys
    BY <1>0, <1>3 DEF VerifyDeletes, Doing, Fits, Working
  <2>2. PICK q, k, r : q = call[c] /\ k = call[c].key /\ r = Onboarding(q, k)
    OBVIOUS
  <2>3. Only(c) /\ call'[c] = r
    BY <1>0, <1>3, <2>2, OneCall DEF VerifyDeletes
  <2>4. r.step \in {"lookup", "done"}
    BY <1>0, <2>2 DEF Onboarding, CallType
  <2> QED BY <1>3, <2>1, <2>3, <2>4 DEF Calm
<1>4. CASE NonceInUse(c)
  <2>1. call[c].step = "putTicket"
    BY <1>4 DEF NonceInUse, At
  <2>2. ASSUME call' = [call EXCEPT ![c].tries = @ + 1]
        PROVE  Calm(c) /\ Beside(c)
    <3>1. PICK t : t = call[c].tries + 1
      OBVIOUS
    <3>2. Only(c) /\ call'[c] = [call[c] EXCEPT !.tries = t]
      BY <1>0, <2>2, <3>1 DEF Function, Only
    <3>3. /\ call'[c].step = "putTicket" /\ call'[c].op = call[c].op /\ call'[c].row = call[c].row
          /\ call'[c].given = call[c].given
      BY <1>0, <2>1, <3>2 DEF CallType
    <3> QED BY <2>1, <3>2, <3>3 DEF Calm, Beside, Taken
  <2> QED BY <1>4, <2>1, <2>2, OverIs DEF NonceInUse, Calm
<1>5. CASE PutsTicket(c)
  <2>1. PICK n : call' = [call EXCEPT ![c] = [Answered(c, call[c].user) EXCEPT !.at = call[c].at, !.arg = n]]
    BY <1>5 DEF PutsTicket
  <2>2. PICK t, u, a : t = call[c].at /\ u = call[c].user /\ a = Answered(c, u)
    OBVIOUS
  <2>3. Only(c) /\ call'[c] = [a EXCEPT !.at = t, !.arg = n]
    BY <1>0, <2>1, <2>2, OneCall
  <2>4. /\ a.step = "done" /\ CallShape(a) /\ a.op = call[c].op /\ a.row = call[c].row
        /\ a.given = call[c].given /\ a.user = u
    BY <1>0, <2>2 DEF Answered, CallType, CallShape
  <2>5. /\ call'[c].step = "done" /\ call'[c].op = call[c].op /\ call'[c].row = call[c].row
        /\ call'[c].given = call[c].given /\ call'[c].user = u
    BY <2>3, <2>4 DEF CallShape
  <2>6. call[c].step = "putTicket" /\ u # NoUser
    BY <1>0, <1>5, <2>2 DEF PutsTicket, At, Fits
  <2> QED BY <2>3, <2>5, <2>6 DEF Calm, Beside, Taken
<1>6. CASE Continues(c)
  <2>1. PICK u, row : call' = [call EXCEPT ![c] = [Answered(c, u) EXCEPT !.row = row, !.arg = NoArg]]
    BY <1>6 DEF Continues
  <2>2. PICK a : a = Answered(c, u)
    OBVIOUS
  <2>3. Only(c) /\ call'[c] = [a EXCEPT !.row = row, !.arg = NoArg]
    BY <1>0, <2>1, <2>2, OneCall
  <2>4. call[c].step = "delete" /\ call[c].op = "continue"
    BY <1>6 DEF Continues, Doing
  <2>5. a.step = "done" /\ CallShape(a) /\ a.op = "continue"
    BY <1>0, <2>2, <2>4 DEF Answered, CallType, CallShape
  <2>6. call'[c].step = "done" /\ call'[c].op = "continue"
    BY <2>3, <2>5 DEF CallShape
  <2> QED BY <2>3, <2>4, <2>6 DEF Calm, Beside
<1>7. CASE SendPuts(c)
  BY <1>7, OverIs DEF SendPuts, Doing, Calm
<1>8. CASE VerifyCounts(c)
  BY <1>8, AnswerIs DEF VerifyCounts, Doing, Calm
<1> QED BY <1>1, <1>2, <1>3, <1>4, <1>5, <1>6, <1>7, <1>8 DEF SignInStep

LEMMA LoyaltyBeside ==
  ASSUME IInv, TInv, NEW c \in Calls, LoyaltyStep(c)
  PROVE  Only(c) /\ Beside(c)
<1>0. call[c] \in CallType /\ Function(call, Calls)
  BY AtWork DEF TInv, Good
<1>1. CASE ReadsBill(c)
  <2>1. PICK b : call' = [call EXCEPT ![c].step = "readPoints", ![c].billRow = b]
    BY <1>1 DEF ReadsBill
  <2>2. Only(c) /\ call'[c] = [call[c] EXCEPT !.step = "readPoints", !.billRow = b]
    BY <1>0, <2>1 DEF Function, Only
  <2>3. call'[c].step = "readPoints"
    BY <1>0, <2>2 DEF CallType
  <2> QED BY <2>2, <2>3 DEF Beside, Taken, Trying
<1>2. CASE AddPointsDecides(c) \/ RedeemDecides(c)
  <2>1. ASSUME NEW w, NEW b, call' = [call EXCEPT ![c].step = "putPoints", ![c].row = w, ![c].billRow = b]
        PROVE  Only(c) /\ Beside(c)
    <3>1. Only(c) /\ call'[c] = [call[c] EXCEPT !.step = "putPoints", !.row = w, !.billRow = b]
      BY <1>0, <2>1 DEF Function, Only
    <3>2. call'[c].step = "putPoints"
      BY <1>0, <3>1 DEF CallType
    <3> QED BY <3>1, <3>2 DEF Beside, Taken, Trying
  <2>2. Over(c) \/ \E w, b : call' = [call EXCEPT ![c].step = "putPoints", ![c].row = w, ![c].billRow = b]
    BY <1>2 DEF AddPointsDecides, RedeemDecides
  <2> QED BY <2>1, <2>2, OverIs
<1>3. CASE PutsPoints(c)
  BY <1>3, GotoIs DEF PutsPoints, Beside, Taken, Trying
<1>4. CASE PutsBill(c)
  BY <1>4, OverIs DEF PutsBill
<1> QED BY <1>1, <1>2, <1>3, <1>4 DEF LoyaltyStep

LEMMA AddressCalm ==
  ASSUME IInv, TInv, NEW c \in Calls, AddressStep(c)
  PROVE  Calm(c) /\ Beside(c)
<1>0. call[c] \in CallType /\ Function(call, Calls)
  BY AtWork DEF TInv, Good
<1>1. CASE SaveLists(c)
  <2>1. call[c].step = "read"
    BY <1>1 DEF SaveLists, Doing
  <2>2. PICK i, row : call' = [call EXCEPT ![c].step = "put", ![c].arg = i, ![c].row = row]
    BY <1>1 DEF SaveLists
  <2>3. Only(c) /\ call'[c] = [call[c] EXCEPT !.step = "put", !.arg = i, !.row = row]
    BY <1>0, <2>2 DEF Function, Only
  <2>4. call'[c].step = "put"
    BY <1>0, <2>3 DEF CallType
  <2> QED BY <2>1, <2>3, <2>4 DEF Calm, Beside, Taken, Trying
<1>2. CASE DeleteReads(c)
  <2>1. call[c].step = "read" /\ call[c].op = "deleteAddress"
    BY <1>2 DEF DeleteReads, Doing
  <2> QED BY <1>2, <2>1, OverIs, GotoIs DEF DeleteReads, Calm, Beside
<1>3. CASE SavePuts(c)
  BY <1>3, OverIs DEF SavePuts, At, Calm
<1>4. CASE Deletes(c)
  BY <1>4, OverIs DEF Deletes, Doing, Calm
<1> QED BY <1>1, <1>2, <1>3, <1>4 DEF AddressStep

-----------------------------------------------------------------------------
(* The ledger *)

(* An addend that grows, one that was not there having counted nothing *)
LEMMA SumMoved ==
  ASSUME NEW f, NEW g, NEW S, IsFiniteSet(S), NEW x,
         \A y \in S \cup {x} : f[y] \in Int /\ g[y] \in Int,
         \A y \in S : y # x => g[y] = f[y],
         x \notin S => f[x] = 0
  PROVE  SumFunctionOnSet(g, S \cup {x}) = SumFunctionOnSet(f, S) + (g[x] - f[x])
<1>1. PICK a \in Int : a = SumFunctionOnSet(f, S)
  BY SumIsInt
<1>2. CASE x \in S
  <2>1. SumFunctionOnSet(g, S) = (SumFunctionOnSet(f, S) - f[x]) + g[x]
    BY <1>2, SumChanged
  <2>2. PICK b : b = SumFunctionOnSet(g, S) /\ b = SumFunctionOnSet(g, S \cup {x})
    <3>1. S \cup {x} = S
      BY <1>2
    <3> QED BY <3>1
  <2>3. b = (a - f[x]) + g[x]
    BY <1>1, <2>1, <2>2
  <2> QED BY <1>1, <1>2, <2>2, <2>3
<1>3. CASE x \notin S
  <2>1. SumFunctionOnSet(g, S \cup {x}) = g[x] + SumFunctionOnSet(g, S)
    BY <1>3, SumInsert
  <2>2. SumFunctionOnSet(g, S) = SumFunctionOnSet(f, S)
    BY <1>3, SumSame
  <2> QED BY <1>1, <1>3, <2>1, <2>2
<1> QED BY <1>2, <1>3

(* What a call decides about a bill and the wallet of its user: what the   *)
(* one gains of points the other gains.                                    *)
LEMMA LedgerMoved ==
  ASSUME NEW w, NEW b \in [Bills -> BillType], Ledger(w, b), w \in [Ids -> WalletType \cup {NoRow}],
         NEW u \in Ids, NEW x \in Bills, b[x].owner \in {NoUser, u},
         NEW nw \in WalletType, NEW nb \in BillType, nb.owner = u,
         nw.earned = Points(w[u]).earned + (nb.earned - b[x].earned),
         nw.redeemed = Points(w[u]).redeemed + (nb.redeemed - b[x].redeemed)
  PROVE  Ledger([w EXCEPT ![u] = nw], [b EXCEPT ![x] = nb])
<1>1. PICK b2 : b2 = [b EXCEPT ![x] = nb]
  OBVIOUS
<1>2. PICK w2 : w2 = [w EXCEPT ![u] = nw]
  OBVIOUS
<1>3. /\ b2 \in [Bills -> BillType] /\ b2[x] = nb /\ \A y \in Bills : y # x => b2[y] = b[y]
      /\ w2[u] = nw /\ \A v \in Ids : v # u => w2[v] = w[v]
  BY <1>1, <1>2
<1>4. u # NoUser /\ Points(w2[u]) = nw
  <2>1. nw # NoRow
    BY NoRowIsNoRow DEF Rows
  <2> QED BY <1>3, <2>1, StoreAssumption DEF Points
<1>5. \A y \in Bills : b[y].earned \in Int /\ b[y].redeemed \in Int /\ b2[y].earned \in Int /\ b2[y].redeemed \in Int
  BY <1>3 DEF BillType
<1>6. \A y \in Bills : b2[y].owner = NoUser => b2[y].earned = 0 /\ b2[y].redeemed = 0
  BY <1>3, <1>4 DEF Ledger
<1> DEFINE Of(bs, v) == {y \in Bills : bs[y].owner = v}
           e == [y \in Bills |-> b[y].earned]
           e2 == [y \in Bills |-> b2[y].earned]
           r == [y \in Bills |-> b[y].redeemed]
           r2 == [y \in Bills |-> b2[y].redeemed]
           Given(v) == IF v = first THEN Opening ELSE 0
<1>7. \A v \in Ids : /\ IsFiniteSet(Of(b, v))
                     /\ Points(w[v]).earned = Given(v) + SumFunctionOnSet(e, Of(b, v))
                     /\ Points(w[v]).redeemed = SumFunctionOnSet(r, Of(b, v))
  BY DEF Ledger
<1>8. /\ \A y \in Bills : e[y] = b[y].earned /\ e2[y] = b2[y].earned /\ r[y] = b[y].redeemed /\ r2[y] = b2[y].redeemed
      /\ \A v \in Ids : Given(v) \in Int
  BY StoreAssumption
<1>9. /\ Of(b2, u) = Of(b, u) \cup {x}
      /\ \A v \in Ids : v # u => Of(b2, v) = Of(b, v) /\ x \notin Of(b, v)
  <2>1. \A v, y : y \in Of(b, v) <=> y \in Bills /\ b[y].owner = v
    OBVIOUS
  <2>2. \A v, y : y \in Of(b2, v) <=> y \in Bills /\ b2[y].owner = v
    OBVIOUS
  <2> HIDE DEF Of
  <2>3. b2[x].owner = u /\ \A y \in Bills : y # x => b2[y].owner = b[y].owner
    BY <1>3
  <2>4. \A y : y \in Of(b2, u) <=> y \in Of(b, u) \cup {x}
    BY <2>1, <2>2, <2>3
  <2>5. \A v \in Ids : v # u => v # b[x].owner
    BY StoreAssumption
  <2>6. ASSUME NEW v \in Ids, v # u
        PROVE  Of(b2, v) = Of(b, v) /\ x \notin Of(b, v)
    <3>1. x \notin Of(b, v) /\ x \notin Of(b2, v)
      BY <2>1, <2>2, <2>3, <2>5, <2>6
    <3>2. \A y : y \in Of(b2, v) <=> y \in Of(b, v)
      BY <2>1, <2>2, <2>3, <3>1
    <3> QED BY <3>1, <3>2
  <2>7. Of(b2, u) = Of(b, u) \cup {x}
    BY <2>4
  <2> QED BY <2>6, <2>7
<1>10. x \notin Of(b, u) => b[x].earned = 0 /\ b[x].redeemed = 0
  BY DEF Ledger
<1>11. \A v \in Ids : Of(b, v) \subseteq Bills
  OBVIOUS
<1> HIDE DEF Of, e, e2, r, r2, Given
<1>12. ASSUME NEW v \in Ids, v # u
       PROVE  /\ IsFiniteSet(Of(b2, v))
              /\ Points(w2[v]).earned = Given(v) + SumFunctionOnSet(e2, Of(b2, v))
              /\ Points(w2[v]).redeemed = SumFunctionOnSet(r2, Of(b2, v))
  <2>1. PICK S : S = Of(b, v) /\ S = Of(b2, v) /\ x \notin S /\ S \subseteq Bills /\ IsFiniteSet(S)
    BY <1>7, <1>9, <1>11, <1>12
  <2>2. \A y \in S : e[y] = e2[y] /\ r[y] = r2[y]
    BY <1>3, <1>8, <2>1
  <2>3. SumFunctionOnSet(e, S) = SumFunctionOnSet(e2, S) /\ SumFunctionOnSet(r, S) = SumFunctionOnSet(r2, S)
    BY <2>1, <2>2, SumSame
  <2> QED BY <1>3, <1>7, <1>12, <2>1, <2>3
<1>13. /\ IsFiniteSet(Of(b2, u))
       /\ Points(w2[u]).earned = Given(u) + SumFunctionOnSet(e2, Of(b2, u))
       /\ Points(w2[u]).redeemed = SumFunctionOnSet(r2, Of(b2, u))
  <2>1. PICK S : S = Of(b, u) /\ S \subseteq Bills /\ IsFiniteSet(S)
    BY <1>7, <1>11
  <2>2. /\ \A y \in S \cup {x} : e[y] \in Int /\ e2[y] \in Int
        /\ \A y \in S \cup {x} : r[y] \in Int /\ r2[y] \in Int
    BY <1>5, <1>8, <2>1
  <2>3. /\ \A y \in S : y # x => e2[y] = e[y]
        /\ \A y \in S : y # x => r2[y] = r[y]
    BY <1>3, <1>8, <2>1
  <2>4. (x \notin S => e[x] = 0) /\ (x \notin S => r[x] = 0)
    BY <1>8, <1>10, <2>1
  <2>5. SumFunctionOnSet(e2, S \cup {x}) = SumFunctionOnSet(e, S) + (e2[x] - e[x])
    <3>1. IsFiniteSet(S) /\ \A y \in S \cup {x} : e[y] \in Int /\ e2[y] \in Int
      BY <2>1, <2>2
    <3>2. \A y \in S : y # x => e2[y] = e[y]
      BY <2>3
    <3>3. x \notin S => e[x] = 0
      BY <2>4
    <3> QED BY <3>1, <3>2, <3>3, SumMoved
  <2>6. SumFunctionOnSet(r2, S \cup {x}) = SumFunctionOnSet(r, S) + (r2[x] - r[x])
    <3>1. IsFiniteSet(S) /\ \A y \in S \cup {x} : r[y] \in Int /\ r2[y] \in Int
      BY <2>1, <2>2
    <3>2. \A y \in S : y # x => r2[y] = r[y]
      BY <2>3
    <3>3. x \notin S => r[x] = 0
      BY <2>4
    <3> QED BY <3>1, <3>2, <3>3, SumMoved
  <2>7. PICK i \in Int, j \in Int : i = SumFunctionOnSet(e, S) /\ j = SumFunctionOnSet(r, S)
    BY <2>1, <2>2, SumIsInt
  <2>8. IsFiniteSet(Of(b2, u))
    BY <1>9, <2>1, FS_AddElement
  <2>9. PICK i2, j2 : i2 = SumFunctionOnSet(e2, Of(b2, u)) /\ j2 = SumFunctionOnSet(r2, Of(b2, u))
    OBVIOUS
  <2>10. i2 = i + (e2[x] - e[x]) /\ j2 = j + (r2[x] - r[x])
    BY <1>9, <2>1, <2>5, <2>6, <2>7, <2>9
  <2>11. Points(w[u]).earned = Given(u) + i /\ Points(w[u]).redeemed = j
    BY <1>7, <2>1, <2>7
  <2>12. e2[x] - e[x] = nb.earned - b[x].earned /\ r2[x] - r[x] = nb.redeemed - b[x].redeemed
    BY <1>3, <1>8
  <2>13. e2[x] \in Int /\ e[x] \in Int /\ r2[x] \in Int /\ r[x] \in Int /\ Given(u) \in Int
    BY <1>8, <2>2
  <2>14. nw.earned = Given(u) + i2 /\ nw.redeemed = j2
    BY <2>10, <2>11, <2>12, <2>13
  <2> QED BY <1>4, <2>8, <2>9, <2>14
<1>14. \A v \in Ids : /\ IsFiniteSet(Of(b2, v))
                      /\ Points(w2[v]).earned = Given(v) + SumFunctionOnSet(e2, Of(b2, v))
                      /\ Points(w2[v]).redeemed = SumFunctionOnSet(r2, Of(b2, v))
  BY <1>12, <1>13
<1>15. Ledger(w2, b2)
  BY <1>6, <1>14 DEF Ledger, Of, e2, r2, Given
<1> QED BY <1>1, <1>2, <1>15

(* A wallet that is not there and an empty one are the same to the ledger. *)
LEMMA LedgerOpened ==
  ASSUME NEW w \in [Ids -> WalletType \cup {NoRow}], NEW b, Ledger(w, b), NEW u \in Ids, w[u] = NoRow
  PROVE  Ledger([w EXCEPT ![u] = EmptyWallet], b)
<1>1. PICK w2 : w2 = [w EXCEPT ![u] = EmptyWallet]
  OBVIOUS
<1>2. \A v \in Ids : Points(w2[v]) = Points(w[v])
  BY <1>1 DEF Points
<1>3. Ledger(w2, b)
  BY <1>2 DEF Ledger
<1> QED BY <1>1, <1>3

(* Only the call under way bears on whether wallets and bills match. *)
LEMMA BalancedStep ==
  ASSUME InTurn, NEW c \in InFlight, Only(c), raced' = raced, died => died',
         (~raced /\ ~died /\ call'[c].step # "putBill") => Ledger(db'.wallets, db'.bills),
         (~raced /\ ~died /\ call'[c].step = "putBill") =>
           Ledger(db'.wallets, [db'.bills EXCEPT ![call'[c].arg] = call'[c].billRow]),
         (~raced /\ ~died /\ call'[c].step = "putPoints") =>
           Ledger([db'.wallets EXCEPT ![call'[c].user] = call'[c].row],
                  [db'.bills EXCEPT ![call'[c].arg] = call'[c].billRow])
  PROVE  Balanced'
<1>1. c \in Calls
  BY DEF InFlight
<1>2. ~raced => \A d \in Calls \ {c} : call'[d].step \notin {"putPoints", "putBill"}
  BY DEF InTurn, Only, InFlight
<1>3. ~raced' /\ ~died' => ~raced /\ ~died
  OBVIOUS
<1> QED BY <1>1, <1>2, <1>3 DEF Balanced, WalletsThen, BillsThen

LEMMA BalancedNow ==
  ASSUME Balanced, InTurn, NEW c \in InFlight, ~raced, ~died
  PROVE  /\ call[c].step # "putBill" => Ledger(db.wallets, db.bills)
         /\ call[c].step = "putPoints" => Ledger(WalletsThen(c), BillsThen(c))
         /\ call[c].step = "putBill" => Ledger(db.wallets, BillsThen(c))
<1>1. c \in Calls /\ \A d \in Calls \ {c} : call[d].step \notin {"putPoints", "putBill"}
  BY DEF InTurn, InFlight
<1> QED BY <1>1 DEF Balanced

LEMMA CalmBalanced ==
  ASSUME Balanced, InTurn, NEW c \in InFlight, Calm(c), raced' = raced, died => died',
         db'.bills = db.bills,
         (~raced /\ ~died /\ Ledger(db.wallets, db.bills)) => Ledger(db'.wallets, db.bills)
  PROVE  Balanced'
<1>1. /\ call[c].step # "putBill" /\ call'[c].step \notin {"putPoints", "putBill"}
      /\ Only(c)
  BY DEF Calm
<1>2. ~raced /\ ~died => Ledger(db'.wallets, db'.bills)
  BY <1>1, BalancedNow
<1> QED BY <1>1, <1>2, BalancedStep

LEMMA AccountBalanced ==
  ASSUME IInv, TInv, InTurn, Balanced, NEW c \in Calls, AccountStep(c)
  PROVE  Balanced'
<1>0. /\ call[c] \in CallType /\ Fits(call[c]) /\ StoreShape(db) /\ c \in InFlight
      /\ raced' = raced /\ (died => died') /\ db'.bills = db.bills
      /\ db.wallets \in [Ids -> WalletType \cup {NoRow}]
  BY AtWork, AccountFrame, StoreFields DEF TInv, Good
<1>1. CASE PutsEmptyWallet(c)
  <2>1. PICK u \in Ids : u = call[c].user /\ call[c].step = "putWallet"
    BY <1>0, <1>1 DEF PutsEmptyWallet, At, Fits
  <2>2. db'.wallets = [db.wallets EXCEPT ![u] = EmptyWallet]
    BY <1>0, <1>1, <2>1 DEF PutsEmptyWallet, StoreShape
  <2>3. ~raced => db.wallets[u] = NoRow
    BY <1>0, <2>1 DEF InTurn, Saw
  <2>4. (~raced /\ ~died /\ Ledger(db.wallets, db.bills)) => Ledger(db'.wallets, db.bills)
    BY <1>0, <2>2, <2>3, LedgerOpened
  <2> QED BY <1>0, <2>4, AccountCalm, CalmBalanced
<1>2. CASE ~PutsEmptyWallet(c)
  <2>1. \/ UNCHANGED db
        \/ \E k, row : db' = [db EXCEPT !.users[k] = row]
    BY <1>2 DEF AccountStep, FindsCustomer, MissesCustomer, PutsCustomer, ReadsWallet, KeyTaken,
                KeySeemsFree, PutsUser, StaffLogsIn, StaffUnknown, ChangeReads, ChangePuts, Reads
  <2>2. db'.wallets = db.wallets
    BY <1>0, <2>1 DEF StoreShape
  <2> QED BY <1>0, <2>2, AccountCalm, CalmBalanced
<1> QED BY <1>1, <1>2

LEMMA SignInBalanced ==
  ASSUME IInv, TInv, InTurn, Balanced, NEW c \in Calls, SignInStep(c)
  PROVE  Balanced'
BY SignInFrame, SignInCalm, CalmBalanced

LEMMA AddressBalanced ==
  ASSUME IInv, TInv, InTurn, Balanced, NEW c \in Calls, AddressStep(c)
  PROVE  Balanced'
BY AddressFrame, AddressCalm, CalmBalanced

LEMMA LoyaltyBalanced ==
  ASSUME IInv, TInv, InTurn, Balanced, NEW c \in Calls, LoyaltyStep(c)
  PROVE  Balanced'
<1>0. /\ call[c] \in CallType /\ Fits(call[c]) /\ Function(call, Calls) /\ StoreShape(db)
      /\ c \in InFlight /\ raced' = raced /\ died' = died
      /\ db.wallets \in [Ids -> WalletType \cup {NoRow}] /\ db.bills \in [Bills -> BillType]
  BY AtWork, LoyaltyFrame, StoreFields DEF TInv, Good
<1>1. call[c].step \in Holding \cup {"readBill"}
  BY DEF LoyaltyStep, ReadsBill, AddPointsDecides, RedeemDecides, PutsPoints, PutsBill, At, Doing, Holding
<1>2. PICK x \in Bills, u \in Ids : x = call[c].arg /\ u = call[c].user
  BY <1>1 DEF IInv, HeldRows
(* What it takes to decide about points: what the wallet gains the bill gains *)
<1>3. ASSUME NEW nw \in WalletType, NEW nb \in BillType, UNCHANGED db, call[c].step = "readPoints",
             call' = [call EXCEPT ![c].step = "putPoints", ![c].row = nw, ![c].billRow = nb],
             (~raced /\ ~died) =>
               /\ db.bills[x].owner \in {NoUser, u} /\ nb.owner = u
               /\ nw.earned = Points(db.wallets[u]).earned + (nb.earned - db.bills[x].earned)
               /\ nw.redeemed = Points(db.wallets[u]).redeemed + (nb.redeemed - db.bills[x].redeemed)
      PROVE  Balanced'
  <2>1. Only(c) /\ call'[c] = [call[c] EXCEPT !.step = "putPoints", !.row = nw, !.billRow = nb]
    BY <1>0, <1>3 DEF Function, Only
  <2>2. /\ call'[c].step = "putPoints" /\ call'[c].row = nw /\ call'[c].billRow = nb
        /\ call'[c].arg = x /\ call'[c].user = u
    BY <1>0, <1>2, <2>1 DEF CallType
  <2>3. ~raced /\ ~died => Ledger(db.wallets, db.bills)
    BY <1>0, <1>3, BalancedNow
  <2>4. ~raced /\ ~died => Ledger([db.wallets EXCEPT ![u] = nw], [db.bills EXCEPT ![x] = nb])
    BY <1>0, <1>2, <1>3, <2>3, LedgerMoved
  <2> QED BY <1>0, <1>3, <2>1, <2>2, <2>3, <2>4, BalancedStep
<1>4. CASE ReadsBill(c)
  <2>1. call[c].step = "readBill" /\ UNCHANGED db
    BY <1>4 DEF ReadsBill, At, Reads
  <2>2. PICK b : call' = [call EXCEPT ![c].step = "readPoints", ![c].billRow = b]
    BY <1>4 DEF ReadsBill
  <2>3. Only(c) /\ call'[c] = [call[c] EXCEPT !.step = "readPoints", !.billRow = b]
    BY <1>0, <2>2 DEF Function, Only
  <2>4. call'[c].step = "readPoints"
    BY <1>0, <2>3 DEF CallType
  <2>5. Calm(c)
    BY <2>1, <2>3, <2>4 DEF Calm
  <2> QED BY <1>0, <2>1, <2>5, CalmBalanced
(* A call that is over without having put anything *)
<1>5. ASSUME Over(c), UNCHANGED db, call[c].step = "readPoints" PROVE Balanced'
  <2>1. Calm(c)
    BY <1>5, OverIs DEF Calm
  <2> QED BY <1>0, <1>5, <2>1, CalmBalanced
(* The wallet and the bill it decides about are the ones on record *)
<1>6. ASSUME call[c].step = "readPoints"
      PROVE  /\ call[c].billRow \in BillType
             /\ ~raced => call[c].billRow = db.bills[x]
             /\ \A w \in SeenWallet(u) :
                  Points(w) \in WalletType /\ (~raced => Points(w) = Points(db.wallets[u]))
  <2>1. call[c].billRow \in BillType
    BY <1>0, <1>6 DEF Fits, Holding
  <2>2. ~raced => call[c].billRow = db.bills[x] /\ stale.wallets = db.wallets
    BY <1>0, <1>2, <1>6 DEF InTurn, Saw, Aligned
  <2>3. SeenWallet(u) \subseteq WalletType \cup {NoRow}
    BY SeenRows
  <2>4. ~raced => \A w \in SeenWallet(u) : w = db.wallets[u]
    BY <2>2 DEF SeenWallet
  <2> QED BY <2>1, <2>2, <2>3, <2>4, PointsTyped
<1>7. CASE AddPointsDecides(c)
  <2>1. call[c].step = "readPoints" /\ UNCHANGED db
    BY <1>7 DEF AddPointsDecides, Doing, Reads
  <2>2. PICK bill \in BillType : bill = call[c].billRow
    BY <1>6, <2>1
  <2>3. PICK w \in SeenWallet(u) :
          IF ForAnother(bill, u) \/ Awarded(bill) THEN Over(c) ELSE
            call' = [call EXCEPT
              ![c].step = "putPoints",
              ![c].row = Credited(Points(w), PointsFromSpend(bill.total)),
              ![c].billRow = AwardedBill(bill, u)]
    BY <1>2, <1>7, <2>2 DEF AddPointsDecides
  <2>4. PICK p \in WalletType : p = Points(w) /\ (~raced => p = Points(db.wallets[u]))
    BY <1>6, <2>1
  <2>5. bill.total \in Nat
    BY DEF BillType
  <2>6. PICK n \in Nat : n = PointsFromSpend(bill.total)
    BY <2>5, EarnedTyped
  <2>7. PICK nw \in WalletType : nw = Credited(p, n) /\ nw.earned = p.earned + n /\ nw.redeemed = p.redeemed
    <3>1. PICK b \in Nat, e \in Nat : b = p.balance + n /\ e = p.earned + n
      BY DEF WalletType
    <3>2. Credited(p, n) = [p EXCEPT !.balance = b, !.earned = e]
      BY <3>1 DEF Credited
    <3>3. Credited(p, n) \in WalletType /\ Credited(p, n).earned = e /\ Credited(p, n).redeemed = p.redeemed
      BY <3>2 DEF WalletType
    <3> QED BY <3>1, <3>3
  <2>8. PICK nb \in BillType : /\ nb = AwardedBill(bill, u) /\ nb.owner = u /\ nb.earned = n
                               /\ nb.redeemed = bill.redeemed
    <3>1. AwardedBill(bill, u) = [bill EXCEPT !.owner = u, !.earned = n, !.processed = TRUE]
      BY <2>6 DEF AwardedBill
    <3> QED BY <3>1 DEF BillType
  <2>9. CASE ForAnother(bill, u) \/ Awarded(bill)
    BY <1>5, <2>1, <2>3, <2>9
  <2>10. CASE ~ForAnother(bill, u) /\ ~Awarded(bill)
    <3>1. bill.owner \in {NoUser, u}
      BY <2>10 DEF ForAnother
    <3>2. bill.earned = 0 /\ bill.redeemed \in Nat
      BY <2>10 DEF Awarded, BillType
    <3>3. p.earned \in Nat /\ p.redeemed \in Nat
      BY DEF WalletType
    <3>4. nw.earned = p.earned + (nb.earned - bill.earned) /\ nw.redeemed = p.redeemed + (nb.redeemed - bill.redeemed)
      BY <2>7, <2>8, <3>2, <3>3
    <3>5. ~raced => bill = db.bills[x]
      BY <1>6, <2>1, <2>2
    <3>6. call' = [call EXCEPT ![c].step = "putPoints", ![c].row = nw, ![c].billRow = nb]
      BY <2>3, <2>4, <2>6, <2>7, <2>8, <2>10
    <3> QED BY <1>3, <2>1, <2>4, <2>8, <3>1, <3>4, <3>5, <3>6
  <2> QED BY <2>9, <2>10
<1>8. CASE RedeemDecides(c)
  <2>1. call[c].step = "readPoints" /\ UNCHANGED db
    BY <1>8 DEF RedeemDecides, Doing, Reads
  <2>2. PICK bill \in BillType : bill = call[c].billRow
    BY <1>6, <2>1
  <2>3. PICK w \in SeenWallet(u) :
          LET discount == Discount(bill.total, Points(w).balance) IN
          IF ForAnother(bill, u) \/ Redeemed(bill) \/ discount = 0 THEN Over(c) ELSE
            call' = [call EXCEPT
              ![c].step = "putPoints",
              ![c].row = Debited(Points(w), discount),
              ![c].billRow = RedeemedBill(bill, u, discount)]
    BY <1>2, <1>8, <2>2 DEF RedeemDecides
  <2>4. PICK p \in WalletType : p = Points(w) /\ (~raced => p = Points(db.wallets[u]))
    BY <1>6, <2>1
  <2>5. bill.total \in Nat /\ bill.discount \in Nat /\ p.balance \in Nat /\ p.earned \in Nat /\ p.redeemed \in Nat
    BY DEF BillType, WalletType
  <2>6. PICK d \in Nat, q \in Nat : d = Discount(bill.total, p.balance) /\ q = PointsFor(d) /\ q <= p.balance
    BY <2>5, DiscountAffordable
  <2>7. PICK nw \in WalletType : nw = Debited(p, d) /\ nw.earned = p.earned /\ nw.redeemed = p.redeemed + q
    <3>1. PICK b \in Nat, r \in Nat : b = p.balance - q /\ r = p.redeemed + q
      BY <2>5, <2>6
    <3>2. Debited(p, d) = [p EXCEPT !.balance = b, !.redeemed = r]
      BY <2>6, <3>1 DEF Debited
    <3>3. Debited(p, d) \in WalletType /\ Debited(p, d).earned = p.earned /\ Debited(p, d).redeemed = r
      BY <3>2 DEF WalletType
    <3> QED BY <3>1, <3>3
  <2>8. PICK nb \in BillType : /\ nb = RedeemedBill(bill, u, d) /\ nb.owner = u /\ nb.redeemed = q
                               /\ nb.earned = bill.earned
    <3>1. PICK t \in Nat : t = IF bill.total >= d THEN bill.total - d ELSE 0
      BY <2>5
    <3>2. PICK e \in Nat : e = bill.discount + d
      BY <2>5
    <3>3. RedeemedBill(bill, u, d) =
            [bill EXCEPT !.owner = u, !.redeemed = q, !.discount = e, !.total = t]
      BY <2>6, <3>1, <3>2 DEF RedeemedBill
    <3> QED BY <3>3 DEF BillType
  <2>9. CASE ForAnother(bill, u) \/ Redeemed(bill) \/ d = 0
    BY <1>5, <2>1, <2>3, <2>4, <2>6, <2>9
  <2>10. CASE ~ForAnother(bill, u) /\ ~Redeemed(bill) /\ d # 0
    <3>1. bill.owner \in {NoUser, u}
      BY <2>10 DEF ForAnother
    <3>2. bill.redeemed = 0 /\ bill.earned \in Nat
      BY <2>10 DEF Redeemed, BillType
    <3>3. nw.earned = p.earned + (nb.earned - bill.earned) /\ nw.redeemed = p.redeemed + (nb.redeemed - bill.redeemed)
      BY <2>5, <2>7, <2>8, <3>2
    <3>4. ~raced => bill = db.bills[x]
      BY <1>6, <2>1, <2>2
    <3>5. call' = [call EXCEPT ![c].step = "putPoints", ![c].row = nw, ![c].billRow = nb]
      BY <2>3, <2>4, <2>6, <2>7, <2>8, <2>10
    <3> QED BY <1>3, <2>1, <2>4, <2>8, <3>1, <3>3, <3>4, <3>5
  <2> QED BY <2>9, <2>10
<1>9. CASE PutsPoints(c)
  <2>1. PICK nb, nw : nb = call[c].billRow /\ nw = call[c].row /\ call[c].step = "putPoints"
    BY <1>9 DEF PutsPoints, At
  <2>2. Only(c) /\ call'[c] = [call[c] EXCEPT !.step = "putBill"]
    BY <1>0, <1>9 DEF PutsPoints, Goto, Function, Only
  <2>3. call'[c].step = "putBill" /\ call'[c].billRow = nb /\ call'[c].arg = x
    BY <1>0, <1>2, <2>1, <2>2 DEF CallType
  <2>4. db'.bills = db.bills /\ db'.wallets = [db.wallets EXCEPT ![u] = nw]
    BY <1>0, <1>2, <1>9, <2>1 DEF PutsPoints, StoreShape
  <2>5. ~raced /\ ~died => Ledger([db.wallets EXCEPT ![u] = nw], [db.bills EXCEPT ![x] = nb])
    BY <1>0, <1>2, <2>1, BalancedNow DEF WalletsThen, BillsThen
  <2> QED BY <1>0, <2>2, <2>3, <2>4, <2>5, BalancedStep
<1>10. CASE PutsBill(c)
  <2>1. PICK nb : nb = call[c].billRow /\ call[c].step = "putBill"
    BY <1>10 DEF PutsBill, At
  <2>2. db'.wallets = db.wallets /\ db'.bills = [db.bills EXCEPT ![x] = nb]
    BY <1>0, <1>2, <1>10, <2>1 DEF PutsBill, StoreShape
  <2>3. ~raced /\ ~died => Ledger(db'.wallets, db'.bills)
    BY <1>0, <1>2, <2>1, <2>2, BalancedNow DEF BillsThen
  <2>4. Only(c) /\ call'[c].step = "done"
    BY <1>10, OverIs DEF PutsBill
  <2> QED BY <1>0, <2>3, <2>4, BalancedStep
<1> QED BY <1>4, <1>7, <1>8, <1>9, <1>10 DEF LoyaltyStep

LEMMA StartBalanced ==
  ASSUME IInv, InTurn, Balanced, TInv, NEW c \in Calls, Start(c)
  PROVE  Balanced'
<1>1. PICK r \in Requests : call' = [call EXCEPT ![c] = r]
  BY DEF Start
<1>2. Only(c) /\ call'[c] = r
  BY <1>1, AtWork, OneCall
<1>3. UNCHANGED <<db, died>>
  BY DEF Start
<1>4. ~raced' => ~raced /\ InFlight = {}
  BY DEF Start
<1>5. r.step \notin {"putPoints", "putBill"}
  BY RequestsEmpty DEF Empty, Holding
<1>6. ~raced' => \A d \in Calls : call[d].step # "putBill" /\ call'[d].step \notin {"putPoints", "putBill"}
  BY <1>2, <1>4, <1>5 DEF InFlight, Only
<1>7. (~raced' /\ ~died') => Ledger(db'.wallets, db'.bills)
  BY <1>3, <1>4, <1>6 DEF Balanced
<1> QED BY <1>6, <1>7 DEF Balanced

LEMMA BesideBalanced ==
  ASSUME IInv, Balanced, CatchUp \/ Tick \/ AllDone \/ UNCHANGED vars \/ SweepsChallenge \/ SweepsTicket
  PROVE  Balanced'
<1>1. UNCHANGED <<call, raced, died>> /\ db'.wallets = db.wallets /\ db'.bills = db.bills
  BY BesideFrame
<1> QED BY <1>1 DEF Balanced, WalletsThen, BillsThen

LEMMA BalancedInductive ==
  IInv /\ TInv /\ InTurn /\ Balanced /\ [Next]_vars => Balanced'
<1> SUFFICES ASSUME IInv, TInv, InTurn, Balanced, [Next]_vars PROVE Balanced'
  OBVIOUS
<1>1. ASSUME NEW c \in Calls, Die(c) PROVE Balanced'
  BY <1>1 DEF Die, Balanced
<1> QED BY <1>1, StartBalanced, AccountBalanced, SignInBalanced, LoyaltyBalanced, AddressBalanced,
           BesideBalanced DEF Next

LEMMA InitiallyBalanced ==
  Init => Balanced
<1> SUFFICES ASSUME Init PROVE Balanced
  OBVIOUS
<1>1. \A c \in Calls : call[c].step = "idle"
  BY BlankFields DEF Init
<1>2. \A b \in Bills : db.bills[b].owner = NoUser /\ db.bills[b].earned = 0 /\ db.bills[b].redeemed = 0
  BY DEF Init, NewBill
<1>3. ASSUME NEW u \in Ids
      PROVE  /\ Points(db.wallets[u]).earned = IF u = first THEN Opening ELSE 0
             /\ Points(db.wallets[u]).redeemed = 0
  <2>1. db.wallets[u] = IF u = first THEN OpeningWallet ELSE NoRow
    BY DEF Init
  <2>2. OpeningWallet # NoRow /\ OpeningWallet.earned = Opening /\ OpeningWallet.redeemed = 0
    BY StoreAssumption, NoRowIsNoRow DEF OpeningWallet, WalletType, Rows
  <2> QED BY <2>1, <2>2 DEF Points, EmptyWallet
<1>4. \A u \in Ids : {x \in Bills : db.bills[x].owner = u} = {}
  BY <1>2, StoreAssumption
<1>5. Ledger(db.wallets, db.bills)
  <2>1. ASSUME NEW u \in Ids
        PROVE  LET mine == {x \in Bills : db.bills[x].owner = u} IN
               /\ IsFiniteSet(mine)
               /\ Points(db.wallets[u]).earned =
                    (IF u = first THEN Opening ELSE 0)
                      + SumFunctionOnSet([x \in Bills |-> db.bills[x].earned], mine)
               /\ Points(db.wallets[u]).redeemed = SumFunctionOnSet([x \in Bills |-> db.bills[x].redeemed], mine)
    <3>1. PICK mine : mine = {x \in Bills : db.bills[x].owner = u}
      OBVIOUS
    <3>2. PICK e, r : e = [x \in Bills |-> db.bills[x].earned] /\ r = [x \in Bills |-> db.bills[x].redeemed]
      OBVIOUS
    <3>3. mine = {}
      BY <1>4, <3>1
    <3>4. IsFiniteSet(mine) /\ SumFunctionOnSet(e, mine) = 0 /\ SumFunctionOnSet(r, mine) = 0
      BY <3>3, SumEmpty, FS_EmptySet
    <3> QED BY <1>3, <3>1, <3>2, <3>4, StoreAssumption
  <2> QED BY <1>2, <2>1 DEF Ledger
<1> QED BY <1>1, <1>5 DEF Balanced

(* One call after the other and none of them dying, what a wallet has      *)
(* earned and redeemed is what the bills of its user say: however often    *)
(* AddPointsForBill and ApplyDiscount are called for a bill, in whichever  *)
(* order, each counts once.                                                *)
THEOREM CustomerLedgerMatches ==
  Spec => []LedgerMatches
<1>1. Balanced => LedgerMatches
  <2> SUFFICES ASSUME Balanced, ~raced, ~died, InFlight = {}, NEW u \in Ids
               PROVE  /\ Points(db.wallets[u]).earned =
                           (IF u = first THEN Opening ELSE 0)
                             + SumFunctionOnSet([b \in Bills |-> db.bills[b].earned], BillsOf(u))
                      /\ Points(db.wallets[u]).redeemed =
                           SumFunctionOnSet([b \in Bills |-> db.bills[b].redeemed], BillsOf(u))
    BY DEF LedgerMatches
  <2>1. \A c \in Calls : call[c].step # "putBill"
    BY DEF InFlight
  <2> QED BY <2>1 DEF Balanced, Ledger, BillsOf
<1>2. IInv /\ TInv /\ InTurn /\ Balanced /\ [Next]_vars => Balanced'
  BY BalancedInductive
<1> QED BY <1>1, <1>2, InitiallyBalanced, TurnsHold, PTL DEF Spec

-----------------------------------------------------------------------------
(* Codes *)

(* Rows are gone, or as they were *)
From(a, b) == \A k \in Keys : a[k] \in {b[k], NoRow}

(* Verifies keep what they hold, and none ends with a wrong code *)
Quiet(cl, cl2) ==
  \A d \in Calls :
    /\ cl[d].step = "done" => cl2[d] = cl[d]
    /\ Taken(cl2[d]) => Taken(cl[d]) /\ cl2[d].row = cl[d].row /\ cl2[d].given = cl[d].given
    /\ Trying(cl2[d]) => cl2[d] = cl[d]
    /\ Ended(cl2[d]) =>
         \/ cl2[d] = cl[d]
         \/ Taken(cl[d]) /\ cl2[d].row = cl[d].row /\ cl2[d].given = cl[d].given

LEMMA SentStays ==
  ASSUME NEW cl, NEW cl2, \A d \in Calls : cl[d].step = "done" => cl2[d].step = "done", NEW row
  PROVE  /\ SentBy(cl, row) => SentBy(cl2, row)
         /\ RowSent(cl, row) => RowSent(cl2, row)
BY DEF SentBy, RowSent

LEMMA QuietWrong ==
  ASSUME NEW ch, NEW st, NEW cl, NEW cl2, CodesKnown(ch, st, cl), Quiet(cl, cl2)
  PROVE  \A s : Wrong(cl2, s) = Wrong(cl, s)
<1>1. ASSUME NEW x \in Calls
      PROVE  (Ended(cl2[x]) /\ cl2[x].row.code # cl2[x].given) =>
               cl2[x] = cl[x]
  BY DEF CodesKnown, Quiet, Right
<1>2. ASSUME NEW x \in Calls, Ended(cl[x])
      PROVE  cl2[x] = cl[x]
  BY <1>2 DEF Quiet, Ended
<1>3. \A s : Wrong(cl2, s) \subseteq Wrong(cl, s)
  BY <1>1 DEF Wrong
<1>4. \A s : Wrong(cl, s) \subseteq Wrong(cl2, s)
  BY <1>2 DEF Wrong
<1> QED BY <1>3, <1>4

LEMMA FromKeeps ==
  ASSUME NEW a, NEW b, From(a, b)
  PROVE  /\ OneKey(b) => OneKey(a)
         /\ \A s : Shows(a, s) => Shows(b, s)
         /\ \A cl : CountsAll(cl, b) => CountsAll(cl, a)
<1>1. \A k \in Keys : a[k] # NoRow => a[k] = b[k]
  BY DEF From
<1>2. OneKey(b) => OneKey(a)
  BY <1>1 DEF OneKey
<1>3. \A s : Shows(a, s) => Shows(b, s)
  BY <1>1 DEF Shows
<1>4. \A cl : CountsAll(cl, b) => CountsAll(cl, a)
  BY <1>1 DEF CountsAll
<1> QED BY <1>2, <1>3, <1>4

LEMMA QuietKnown ==
  ASSUME NEW ch, NEW st, NEW cl, NEW cl2, CodesKnown(ch, st, cl), Quiet(cl, cl2),
         NEW ch2, NEW st2, From(ch2, ch), From(st2, ch) \/ From(st2, st)
  PROVE  CodesKnown(ch2, st2, cl2)
<1>1. \A d \in Calls : cl[d].step = "done" => cl2[d].step = "done"
  BY DEF Quiet
<1>2. \A row : (SentBy(cl, row) => SentBy(cl2, row)) /\ (RowSent(cl, row) => RowSent(cl2, row))
  BY <1>1, SentStays
<1>3. \A k \in Keys : RowSent(cl2, ch2[k]) /\ RowSent(cl2, st2[k])
  <2>1. \A k \in Keys : RowSent(cl2, ch[k]) /\ RowSent(cl2, st[k])
    BY <1>2 DEF CodesKnown
  <2> QED BY <2>1 DEF From, RowSent
<1>4. OneKey(ch2) /\ OneKey(st2)
  BY FromKeeps DEF CodesKnown
<1>5. ASSUME NEW c \in Calls
      PROVE  /\ Right(cl2[c]) => cl2[c].row.code = cl2[c].given
             /\ Taken(cl2[c]) \/ Trying(cl2[c]) \/ Ended(cl2[c]) => SentBy(cl2, cl2[c].row)
  <2>1. Right(cl2[c]) => cl2[c].row.code = cl2[c].given
    BY DEF CodesKnown, Quiet, Right
  <2>2. Taken(cl2[c]) \/ Trying(cl2[c]) \/ Ended(cl2[c]) => SentBy(cl, cl2[c].row)
    BY DEF CodesKnown, Quiet
  <2> QED BY <1>2, <2>1, <2>2
<1>6. \A s \in Calls : IsFiniteSet(Wrong(cl2, s))
  BY QuietWrong DEF CodesKnown
<1> QED BY <1>3, <1>4, <1>5, <1>6 DEF CodesKnown

LEMMA QuietUsed ==
  ASSUME NEW ch, NEW st, NEW cl, NEW cl2, CodesUsed(ch, st, cl), Quiet(cl, cl2),
         NEW ch2, NEW st2, From(ch2, ch),
         From(st2, ch) \/ (From(st2, st) /\ Flying(cl2) \subseteq Flying(cl))
  PROVE  CodesUsed(ch2, st2, cl2)
<1>1. ASSUME NEW c \in Calls, Taken(cl2[c])
      PROVE  /\ ~Shows(ch2, cl2[c].row.by)
             /\ \A d \in Flying(cl2) : d # c => ~Shows(st2, cl2[c].row.by)
             /\ \A d \in Calls : d # c /\ Taken(cl2[d]) => cl2[d].row.by # cl2[c].row.by
  <2>1. Taken(cl[c]) /\ cl2[c].row = cl[c].row
    BY <1>1 DEF Quiet
  <2>2. PICK s : s = cl2[c].row.by /\ s = cl[c].row.by
    BY <2>1
  <2>3. /\ ~Shows(ch, s)
        /\ \A d \in Flying(cl) : d # c => ~Shows(st, s)
        /\ \A d \in Calls : d # c /\ Taken(cl[d]) => cl[d].row.by # s
    BY <2>1, <2>2 DEF CodesUsed
  <2>4. ~Shows(ch2, s) /\ \A d \in Flying(cl2) : d # c => ~Shows(st2, s)
    BY <2>3, FromKeeps
  <2>5. \A d \in Calls : d # c /\ Taken(cl2[d]) => cl2[d].row.by # s
    BY <2>3 DEF Quiet
  <2> QED BY <2>2, <2>4, <2>5
<1>2. ASSUME NEW c \in Calls, Trying(cl2[c])
      PROVE  /\ \A k \in Keys : (ch2[k] # NoRow /\ ch2[k].by = cl2[c].row.by) =>
                  k = cl2[c].key /\ ch2[k] = cl2[c].row
             /\ cl2[c].row.attempts < MaxAttempts
             /\ \A d \in Calls : Taken(cl2[d]) => cl2[d].row.by # cl2[c].row.by
  <2>1. PICK r : r = cl2[c] /\ r = cl[c] /\ Trying(r)
    BY <1>2 DEF Quiet
  <2>2. /\ \A k \in Keys : (ch[k] # NoRow /\ ch[k].by = r.row.by) => k = r.key /\ ch[k] = r.row
        /\ r.row.attempts < MaxAttempts
        /\ \A d \in Calls : Taken(cl[d]) => cl[d].row.by # r.row.by
    BY <2>1 DEF CodesUsed
  <2>3. \A k \in Keys : (ch2[k] # NoRow /\ ch2[k].by = r.row.by) => k = r.key /\ ch2[k] = r.row
    BY <2>2 DEF From
  <2>4. \A d \in Calls : Taken(cl2[d]) => cl2[d].row.by # r.row.by
    BY <2>2 DEF Quiet
  <2> QED BY <2>1, <2>2, <2>3, <2>4
<1> QED BY <1>1, <1>2 DEF CodesUsed

LEMMA QuietCounted ==
  ASSUME NEW ch, NEW st, NEW cl, NEW cl2, CodesKnown(ch, st, cl), CodesCounted(ch, st, cl), Quiet(cl, cl2),
         NEW ch2, NEW st2, From(ch2, ch),
         From(st2, ch) \/ (From(st2, st) /\ Flying(cl2) \subseteq Flying(cl))
  PROVE  CodesCounted(ch2, st2, cl2)
<1>1. \A s : Wrong(cl2, s) = Wrong(cl, s)
  BY QuietWrong
<1>2. \A row : Counts(cl2, row) <=> Counts(cl, row)
  BY <1>1 DEF Counts
<1>3. \A a : CountsAll(cl2, a) <=> CountsAll(cl, a)
  BY <1>2 DEF CountsAll
<1>4. CountsAll(cl2, ch2) /\ (Flying(cl2) # {} => CountsAll(cl2, st2))
  BY <1>3, FromKeeps DEF CodesCounted
<1>5. ASSUME NEW c \in Calls, Taken(cl2[c])
      PROVE  Cardinality(Wrong(cl2, cl2[c].row.by)) < MaxAttempts
  BY <1>1, <1>5 DEF CodesCounted, Quiet
<1>6. ASSUME NEW c \in Calls, Trying(cl2[c])
      PROVE  Counts(cl2, cl2[c].row)
  BY <1>2, <1>6 DEF CodesCounted, Quiet
<1> QED BY <1>4, <1>5, <1>6 DEF CodesCounted

(* A call that takes part in nothing of the above leaves codes alone. *)
Others(cl, cl2, c) == \A d \in Calls \ {c} : cl2[d] = cl[d]

(* Sending a code: its row is the only one of its call, and nobody has     *)
(* tried it.                                                               *)
LEMMA SendingCodes ==
  ASSUME NEW ch, NEW st, NEW cl, NEW cl2, CodesKnown(ch, st, cl), Quiet(cl, cl2), NEW c \in Calls,
         cl[c].step # "done", cl2[c].step = "done", Others(cl, cl2, c),
         NEW k \in Keys, NEW new, new.by = c, new.attempts = 0,
         NEW ch2, ch2[k] = new, \A l \in Keys : l # k => ch2[l] = ch[l]
  PROVE  /\ CodesKnown(ch2, st, cl2)
         /\ (Flying(cl) \subseteq {c} /\ CodesUsed(ch, st, cl)) => CodesUsed(ch2, st, cl2)
         /\ CodesCounted(ch, st, cl) => CodesCounted(ch2, st, cl2)
<1>1. \A row : SentBy(cl, row) => row.by # c
  BY DEF SentBy
<1>2. /\ \A l \in Keys : ch[l] # NoRow => ch[l].by # c
      /\ \A d \in Calls : Taken(cl[d]) \/ Trying(cl[d]) \/ Ended(cl[d]) => cl[d].row.by # c
  BY <1>1, StoreAssumption DEF CodesKnown, RowSent
<1>3. CodesKnown(ch, st, cl2)
  BY QuietKnown DEF From
<1>4. CodesKnown(ch2, st, cl2)
  <2>1. \A l \in Keys : RowSent(cl2, ch2[l])
    BY <1>3 DEF CodesKnown, RowSent, SentBy
  <2>2. OneKey(ch2)
    BY <1>2, <1>3 DEF CodesKnown, OneKey
  <2> QED BY <1>3, <2>1, <2>2 DEF CodesKnown
<1>5. Flying(cl2) \subseteq Flying(cl) /\ From(ch, ch) /\ From(st, st)
  BY DEF Others, Flying, From
<1>6. ASSUME Flying(cl) \subseteq {c}, CodesUsed(ch, st, cl)
      PROVE  CodesUsed(ch2, st, cl2)
  <2>1. CodesUsed(ch, st, cl2)
    BY <1>5, <1>6, QuietUsed
  <2>2. \A d \in Calls : ~Trying(cl2[d])
    BY <1>6 DEF Others, Flying, Trying
  <2>3. ASSUME NEW d \in Calls, Taken(cl2[d])
        PROVE  ~Shows(ch2, cl2[d].row.by)
    <3>1. PICK s : s = cl2[d].row.by /\ s = cl[d].row.by /\ Taken(cl[d])
      BY <2>3 DEF Quiet
    <3>2. ~Shows(ch, s) /\ s # c
      BY <1>2, <2>1, <2>3, <3>1 DEF CodesUsed
    <3> QED BY <3>1, <3>2 DEF Shows
  <2> QED BY <2>1, <2>2, <2>3 DEF CodesUsed
<1>7. ASSUME CodesCounted(ch, st, cl)
      PROVE  CodesCounted(ch2, st, cl2)
  <2>1. CodesCounted(ch, st, cl2)
    BY <1>5, <1>7, QuietCounted
  <2>2. Wrong(cl2, c) = Wrong(cl, c) /\ Wrong(cl, c) = {}
    BY <1>2, QuietWrong DEF Wrong
  <2>3. Counts(cl2, new)
    BY <2>2, FS_EmptySet DEF Counts
  <2>4. CountsAll(cl2, ch2)
    BY <2>1, <2>3 DEF CodesCounted, CountsAll
  <2> QED BY <2>1, <2>4 DEF CodesCounted
<1> QED BY <1>4, <1>6, <1>7

(* Reading a code that is good: one call after the other it is on record   *)
(* as read, or nowhere.                                                    *)
LEMMA ReadingCodes ==
  ASSUME NEW ch, NEW st, NEW cl, NEW cl2, CodesKnown(ch, st, cl), NEW c \in Calls,
         cl[c].step \notin {"idle", "done"}, Others(cl, cl2, c), Trying(cl2[c]),
         NEW k \in Keys, cl2[c].key = k, NEW row, cl2[c].row = row, row \in {ch[k], st[k]},
         row # NoRow, row.ttl # 0, row.attempts < MaxAttempts,
         cl2[c].step = "delete" => row.code = cl2[c].given
  PROVE  /\ CodesKnown(ch, st, cl2)
         /\ (Flying(cl) \subseteq {c} /\ From(ch, st) /\ CodesUsed(ch, st, cl)) => CodesUsed(ch, st, cl2)
         /\ CodesCounted(ch, st, cl) => CodesCounted(ch, st, cl2)
<1>0. /\ ~Taken(cl2[c]) /\ ~Ended(cl2[c]) /\ ~Ended(cl[c])
      /\ \A d \in Calls : d # c => cl2[d] = cl[d]
      /\ c \in Flying(cl)
  BY DEF Trying, Taken, Ended, Others, Flying
<1>1. SentBy(cl, row)
  BY DEF CodesKnown, RowSent
<1>2. \A d \in Calls : cl[d].step = "done" => cl2[d].step = "done"
  BY <1>0
<1>3. \A r : (SentBy(cl, r) => SentBy(cl2, r)) /\ (RowSent(cl, r) => RowSent(cl2, r))
  BY <1>2, SentStays
<1>4. \A s : Wrong(cl2, s) = Wrong(cl, s)
  BY <1>0 DEF Wrong
<1>5. CodesKnown(ch, st, cl2)
  <2>1. ASSUME NEW d \in Calls
        PROVE  /\ Right(cl2[d]) => cl2[d].row.code = cl2[d].given
               /\ Taken(cl2[d]) \/ Trying(cl2[d]) \/ Ended(cl2[d]) => SentBy(cl2, cl2[d].row)
    <3>1. CASE d = c
      BY <1>0, <1>1, <1>3, <3>1 DEF Right
    <3>2. CASE d # c
      BY <1>0, <1>3, <3>2 DEF CodesKnown
    <3> QED BY <3>1, <3>2
  <2>2. \A s \in Calls : IsFiniteSet(Wrong(cl2, s))
    BY <1>4 DEF CodesKnown
  <2> QED BY <1>3, <2>1, <2>2 DEF CodesKnown
<1>6. ASSUME Flying(cl) \subseteq {c}, From(ch, st), CodesUsed(ch, st, cl)
      PROVE  CodesUsed(ch, st, cl2)
  <2>1. ASSUME NEW l \in Keys, ch[l] # NoRow, ch[l].by = row.by
        PROVE  l = k /\ ch[l] = row
    <3>1. row.by \in Calls
      BY <1>1 DEF SentBy
    <3>2. CASE row = ch[k]
      BY <2>1, <3>1, <3>2 DEF CodesKnown, OneKey
    <3>3. CASE row = st[k]
      <4>1. ch[l] = st[l]
        BY <1>6, <2>1 DEF From
      <4>2. l = k
        BY <2>1, <3>1, <3>3, <4>1 DEF CodesKnown, OneKey
      <4> QED BY <3>3, <4>1, <4>2
    <3> QED BY <3>2, <3>3
  <2>2. ASSUME NEW d \in Calls, Taken(cl2[d])
        PROVE  /\ d # c /\ cl2[d].row.by # row.by
               /\ ~Shows(ch, cl2[d].row.by)
               /\ \A e \in Flying(cl2) : e # d => ~Shows(st, cl2[d].row.by)
               /\ \A e \in Calls : e # d /\ Taken(cl2[e]) => cl2[e].row.by # cl2[d].row.by
    <3>1. d # c /\ cl2[d] = cl[d]
      BY <1>0, <2>2
    <3>2. PICK s : s = cl2[d].row.by /\ s = cl[d].row.by
      BY <3>1
    <3>3. /\ ~Shows(ch, s) /\ ~Shows(st, s)
          /\ \A e \in Calls : e # d /\ Taken(cl[e]) => cl[e].row.by # s
      BY <1>0, <1>6, <2>2, <3>1, <3>2 DEF CodesUsed
    <3>4. row.by # s
      BY <3>3 DEF Shows
    <3>5. \A e \in Calls : e # d /\ Taken(cl2[e]) => cl2[e].row.by # s
      BY <1>0, <3>3
    <3> QED BY <3>1, <3>2, <3>3, <3>4, <3>5
  <2>3. \A d \in Calls : Trying(cl2[d]) => d = c
    BY <1>0, <1>6 DEF Trying, Flying
  <2> QED BY <2>1, <2>2, <2>3 DEF CodesUsed
<1>7. ASSUME CodesCounted(ch, st, cl)
      PROVE  CodesCounted(ch, st, cl2)
  <2>1. \A r : Counts(cl2, r) <=> Counts(cl, r)
    BY <1>4 DEF Counts
  <2>2. CountsAll(cl2, ch) /\ CountsAll(cl2, st) /\ CountsAll(cl, ch) /\ CountsAll(cl, st)
    BY <1>0, <1>7, <2>1 DEF CodesCounted, CountsAll
  <2>3. Counts(cl2, row)
    BY <1>1, <2>2 DEF CountsAll, SentBy
  <2>4. ASSUME NEW d \in Calls
        PROVE  /\ Taken(cl2[d]) => Cardinality(Wrong(cl2, cl2[d].row.by)) < MaxAttempts
               /\ Trying(cl2[d]) => Counts(cl2, cl2[d].row)
    <3>1. CASE d = c
      BY <1>0, <2>3, <3>1
    <3>2. CASE d # c
      <4>1. PICK r : r = cl2[d] /\ r = cl[d]
        BY <1>0, <3>2
      <4>2. /\ Taken(r) => Cardinality(Wrong(cl, r.row.by)) < MaxAttempts
            /\ Trying(r) => Counts(cl, r.row)
        BY <1>7, <4>1 DEF CodesCounted
      <4> QED BY <1>4, <2>1, <4>1, <4>2
    <3> QED BY <3>1, <3>2
  <2> QED BY <2>2, <2>4 DEF CodesCounted
<1> QED BY <1>5, <1>6, <1>7

(* A wrong code: the verify ends, and the row it tried counts one more,    *)
(* wherever it is; what is left of a deleted one is nobody's.              *)
LEMMA CountingCodes ==
  ASSUME NEW ch, NEW st, NEW cl, NEW cl2, CodesKnown(ch, st, cl), NEW c \in Calls,
         Trying(cl[c]), Others(cl, cl2, c),
         cl2[c].step = "done", cl2[c].user = NoUser, cl2[c].row = cl[c].row,
         NEW ch2, \A l \in Keys : \/ ch2[l] = ch[l]
                                  \/ ch2[l] # NoRow /\ ch2[l].by = first /\ ch2[l].ttl = 0
                                  \/ /\ ch[l] # NoRow /\ ch2[l] # NoRow
                                     /\ ch2[l].by = ch[l].by /\ ch2[l].ttl = ch[l].ttl
  PROVE  /\ CodesKnown(ch2, st, cl2)
         /\ (Flying(cl) \subseteq {c} /\ CodesUsed(ch, st, cl)) => CodesUsed(ch2, st, cl2)
         /\ (/\ Flying(cl) \subseteq {c} /\ CodesUsed(ch, st, cl) /\ CodesCounted(ch, st, cl)
             /\ ch2[cl[c].key] # NoRow
             /\ ch[cl[c].key] # NoRow => ch2[cl[c].key].attempts = ch[cl[c].key].attempts + 1
             /\ \A l \in Keys : l # cl[c].key => ch2[l] = ch[l]
             /\ ch[cl[c].key] = NoRow => ch2[cl[c].key].by = first
             /\ \A l \in Keys : ch[l] # NoRow => ch[l].attempts \in Nat) =>
              CodesCounted(ch2, st, cl2)
<1>0. /\ ~Taken(cl2[c]) /\ ~Trying(cl2[c]) /\ ~Ended(cl[c]) /\ cl[c].step # "done"
      /\ \A d \in Calls : d # c => cl2[d] = cl[d]
      /\ first \notin Calls
  BY StoreAssumption DEF Trying, Taken, Ended, Others
<1>1. \A d \in Calls : cl[d].step = "done" => cl2[d].step = "done"
  BY <1>0
<1>2. \A r : (SentBy(cl, r) => SentBy(cl2, r)) /\ (RowSent(cl, r) => RowSent(cl2, r))
  BY <1>1, SentStays
<1>3. \A l \in Keys : (ch2[l] # NoRow /\ ch2[l].by \in Calls) => ch[l] # NoRow /\ ch2[l].by = ch[l].by
  BY <1>0
<1>4. ASSUME NEW s PROVE Wrong(cl2, s) \subseteq Wrong(cl, s) \cup {c} /\ Wrong(cl, s) \subseteq Wrong(cl2, s)
  BY <1>0 DEF Wrong
<1>5. ASSUME NEW s, s # cl[c].row.by PROVE Wrong(cl2, s) = Wrong(cl, s)
  BY <1>0, <1>5 DEF Wrong
<1>6. \A s \in Calls : IsFiniteSet(Wrong(cl2, s))
  <2>1. ASSUME NEW s \in Calls PROVE IsFiniteSet(Wrong(cl2, s))
    <3>1. IsFiniteSet(Wrong(cl, s) \cup {c})
      BY FS_AddElement DEF CodesKnown
    <3> QED BY <1>4, <3>1, FS_Subset
  <2> QED BY <2>1
<1>7. CodesKnown(ch2, st, cl2)
  <2>1. \A l \in Keys : RowSent(cl2, ch2[l])
    <3>1. \A l \in Keys : RowSent(cl2, ch[l])
      BY <1>2 DEF CodesKnown
    <3> QED BY <3>1 DEF RowSent, SentBy
  <2>2. \A l \in Keys : RowSent(cl2, st[l])
    BY <1>2 DEF CodesKnown
  <2>3. OneKey(ch2)
    BY <1>3 DEF CodesKnown, OneKey
  <2>4. ASSUME NEW d \in Calls
        PROVE  /\ Right(cl2[d]) => cl2[d].row.code = cl2[d].given
               /\ Taken(cl2[d]) \/ Trying(cl2[d]) \/ Ended(cl2[d]) => SentBy(cl2, cl2[d].row)
    <3>1. CASE d = c
      BY <1>0, <1>2, <3>1 DEF Right, CodesKnown
    <3>2. CASE d # c
      BY <1>0, <1>2, <3>2 DEF CodesKnown
    <3> QED BY <3>1, <3>2
  <2> QED BY <1>6, <2>1, <2>2, <2>3, <2>4 DEF CodesKnown
(* No other verify is under way, so none reads what is counted *)
<1>8. ASSUME Flying(cl) \subseteq {c}
      PROVE  Flying(cl2) = {} /\ \A d \in Calls : ~Trying(cl2[d])
  BY <1>0, <1>8 DEF Flying, Trying
<1>9. ASSUME NEW d \in Calls, Taken(cl2[d]), CodesUsed(ch, st, cl)
      PROVE  /\ d # c /\ cl2[d] = cl[d] /\ cl[d].row.by # cl[c].row.by /\ cl[d].row.by \in Calls
             /\ ~Shows(ch, cl[d].row.by)
             /\ \A e \in Calls : e # d /\ Taken(cl[e]) => cl[e].row.by # cl[d].row.by
  BY <1>0, <1>9 DEF CodesUsed, CodesKnown, SentBy
<1>10. ASSUME Flying(cl) \subseteq {c}, CodesUsed(ch, st, cl)
       PROVE  CodesUsed(ch2, st, cl2)
  <2>1. ASSUME NEW d \in Calls, Taken(cl2[d])
        PROVE  /\ ~Shows(ch2, cl2[d].row.by)
               /\ \A e \in Calls : e # d /\ Taken(cl2[e]) => cl2[e].row.by # cl2[d].row.by
    <3>1. PICK s \in Calls : s = cl2[d].row.by /\ s = cl[d].row.by
      BY <1>9, <1>10, <2>1
    <3>2. ~Shows(ch, s) /\ \A e \in Calls : e # d /\ Taken(cl[e]) => cl[e].row.by # s
      BY <1>9, <1>10, <2>1, <3>1
    <3>3. ~Shows(ch2, s)
      BY <1>3, <3>2 DEF Shows
    <3>4. \A e \in Calls : e # d /\ Taken(cl2[e]) => cl2[e].row.by # s
      BY <1>0, <3>2
    <3> QED BY <3>1, <3>3, <3>4
  <2> QED BY <1>8, <1>10, <2>1 DEF CodesUsed
<1>11. ASSUME Flying(cl) \subseteq {c}, CodesUsed(ch, st, cl), CodesCounted(ch, st, cl),
              NEW k, k = cl[c].key, ch2[k] # NoRow,
              ch[k] # NoRow => ch2[k].attempts = ch[k].attempts + 1,
              \A l \in Keys : l # k => ch2[l] = ch[l],
              ch[k] = NoRow => ch2[k].by = first,
              \A l \in Keys : ch[l] # NoRow => ch[l].attempts \in Nat
       PROVE  CodesCounted(ch2, st, cl2)
  <2>1. ASSUME NEW l \in Keys, ch2[l] # NoRow, ch2[l].by \in Calls
        PROVE  Counts(cl2, ch2[l])
    <3>1. PICK s \in Calls : s = ch2[l].by /\ s = ch[l].by /\ ch[l] # NoRow
      BY <1>3, <2>1
    <3>2. Cardinality(Wrong(cl, s)) <= ch[l].attempts /\ IsFiniteSet(Wrong(cl, s))
      BY <1>11, <3>1 DEF CodesCounted, CountsAll, Counts, CodesKnown
    <3>3. Cardinality(Wrong(cl, s)) \in Nat /\ ch[l].attempts \in Nat
      BY <1>11, <3>1, <3>2, FS_CardinalityType
    <3>4. CASE s # cl[c].row.by
      <4>1. Wrong(cl2, s) = Wrong(cl, s)
        BY <1>5, <3>4
      <4>2. ch2[l].attempts >= ch[l].attempts
        BY <1>11, <3>1, <3>3
      <4>3. ch2[l].attempts \in Nat
        BY <1>11, <3>1, <3>3
      <4> QED BY <3>1, <3>2, <3>3, <4>1, <4>2, <4>3 DEF Counts
    <3>5. CASE s = cl[c].row.by
      <4>0. \A j \in Keys : (ch[j] # NoRow /\ ch[j].by = cl[c].row.by) => j = k
        BY <1>11 DEF CodesUsed
      <4>1. l = k
        BY <3>1, <3>5, <4>0
      <4>2. ch2[l].attempts = ch[l].attempts + 1
        BY <1>11, <3>1, <4>1
      <4>3. Cardinality(Wrong(cl, s) \cup {c}) <= Cardinality(Wrong(cl, s)) + 1 /\ IsFiniteSet(Wrong(cl, s) \cup {c})
        <5>1. PICK W, n : n \in Nat /\ W = Wrong(cl, s) /\ n = Cardinality(W) /\ IsFiniteSet(W)
          BY <3>2, <3>3
        <5>2. IsFiniteSet(W \cup {c}) /\ (Cardinality(W \cup {c}) = IF c \in W THEN n ELSE n + 1)
          BY <5>1, FS_AddElement
        <5>3. Cardinality(W \cup {c}) <= n + 1
          BY <5>1, <5>2
        <5> QED BY <5>1, <5>2, <5>3
      <4>4. Cardinality(Wrong(cl2, s)) <= Cardinality(Wrong(cl, s) \cup {c})
        BY <1>4, <4>3, FS_Subset
      <4>5. Cardinality(Wrong(cl2, s)) \in Nat /\ Cardinality(Wrong(cl, s) \cup {c}) \in Nat
        BY <1>6, <4>3, FS_CardinalityType
      <4>6. Cardinality(Wrong(cl2, s)) <= ch2[l].attempts
        BY <3>2, <3>3, <4>2, <4>3, <4>4, <4>5
      <4> QED BY <3>1, <4>6 DEF Counts
    <3> QED BY <3>4, <3>5
  <2>2. CountsAll(cl2, ch2)
    BY <2>1 DEF CountsAll
  <2>3. ASSUME NEW d \in Calls, Taken(cl2[d])
        PROVE  Cardinality(Wrong(cl2, cl2[d].row.by)) < MaxAttempts
    <3>1. PICK s : s = cl2[d].row.by /\ s = cl[d].row.by /\ s # cl[c].row.by /\ Taken(cl[d])
      BY <1>9, <1>11, <2>3
    <3>2. Cardinality(Wrong(cl, s)) < MaxAttempts
      BY <1>11, <3>1 DEF CodesCounted
    <3> QED BY <1>5, <3>1, <3>2
  <2> QED BY <1>8, <1>11, <2>2, <2>3 DEF CodesCounted
<1> QED BY <1>7, <1>10, <1>11

(* A right code: its row is deleted, and only then the verify goes on.     *)
LEMMA UsingCodes ==
  ASSUME NEW ch, NEW st, NEW cl, NEW cl2, CodesKnown(ch, st, cl), NEW c \in Calls,
         Trying(cl[c]), cl[c].step = "delete", Others(cl, cl2, c),
         cl2[c].step \in {"lookup", "done"}, cl2[c].row = cl[c].row, cl2[c].given = cl[c].given,
         NEW ch2, From(ch2, ch), cl[c].key \in Keys => ch2[cl[c].key] = NoRow
  PROVE  /\ CodesKnown(ch2, st, cl2)
         /\ (Flying(cl) \subseteq {c} /\ CodesUsed(ch, st, cl)) => CodesUsed(ch2, st, cl2)
         /\ (/\ Flying(cl) \subseteq {c} /\ CodesCounted(ch, st, cl)
             /\ CodesUsed(ch, st, cl) /\ cl[c].row.attempts \in Nat /\ MaxAttempts \in Nat) =>
              CodesCounted(ch2, st, cl2)
<1>0. /\ ~Taken(cl[c]) /\ ~Trying(cl2[c]) /\ ~Ended(cl[c]) /\ c \in Flying(cl)
      /\ \A d \in Calls : d # c => cl2[d] = cl[d]
      /\ Right(cl[c]) /\ cl[c].row.code = cl[c].given
  BY DEF Trying, Taken, Ended, Others, Right, CodesKnown, Flying
<1>1. \A d \in Calls : cl[d].step = "done" => cl2[d].step = "done"
  BY <1>0 DEF Trying
<1>2. \A r : (SentBy(cl, r) => SentBy(cl2, r)) /\ (RowSent(cl, r) => RowSent(cl2, r))
  BY <1>1, SentStays
<1>3. \A s : Wrong(cl2, s) = Wrong(cl, s)
  BY <1>0 DEF Wrong
<1>4. \A k \in Keys : ch2[k] # NoRow => ch2[k] = ch[k]
  BY DEF From
<1>5. SentBy(cl, cl[c].row)
  BY DEF CodesKnown
<1>6. CodesKnown(ch2, st, cl2)
  <2>1. \A k \in Keys : RowSent(cl2, ch[k]) /\ RowSent(cl2, st[k])
    BY <1>2 DEF CodesKnown
  <2>2. \A k \in Keys : RowSent(cl2, ch2[k])
    BY <1>4, <2>1 DEF RowSent
  <2>3. OneKey(ch2)
    BY FromKeeps DEF CodesKnown
  <2>4. ASSUME NEW d \in Calls
        PROVE  /\ Right(cl2[d]) => cl2[d].row.code = cl2[d].given
               /\ Taken(cl2[d]) \/ Trying(cl2[d]) \/ Ended(cl2[d]) => SentBy(cl2, cl2[d].row)
    <3>1. CASE d = c
      BY <1>0, <1>2, <1>5, <3>1
    <3>2. CASE d # c
      BY <1>0, <1>2, <3>2 DEF CodesKnown
    <3> QED BY <3>1, <3>2
  <2>5. \A s \in Calls : IsFiniteSet(Wrong(cl2, s))
    BY <1>3 DEF CodesKnown
  <2> QED BY <2>1, <2>2, <2>3, <2>4, <2>5 DEF CodesKnown
<1>7. ASSUME Flying(cl) \subseteq {c}
      PROVE  Flying(cl2) \subseteq {c} /\ \A d \in Calls : ~Trying(cl2[d])
  BY <1>0, <1>7 DEF Flying, Trying
<1>8. ASSUME Flying(cl) \subseteq {c}, CodesUsed(ch, st, cl)
      PROVE  CodesUsed(ch2, st, cl2)
  <2>1. PICK s : s = cl[c].row.by /\ s = cl2[c].row.by /\ s \in Calls
    BY <1>5 DEF SentBy
  <2>2. /\ \A k \in Keys : (ch[k] # NoRow /\ ch[k].by = s) => k = cl[c].key
        /\ \A d \in Calls : Taken(cl[d]) => cl[d].row.by # s
    BY <1>8, <2>1 DEF CodesUsed
  <2>3. ~Shows(ch2, s)
    BY <1>4, <2>2 DEF Shows
  <2>4. ASSUME NEW d \in Calls, Taken(cl2[d])
        PROVE  /\ ~Shows(ch2, cl2[d].row.by)
               /\ \A e \in Flying(cl2) : e # d => ~Shows(st, cl2[d].row.by)
               /\ \A e \in Calls : e # d /\ Taken(cl2[e]) => cl2[e].row.by # cl2[d].row.by
    <3>1. CASE d = c
      <4>1. \A e \in Calls : e # c /\ Taken(cl2[e]) => cl2[e].row.by # s
        BY <1>0, <2>2
      <4>2. \A e \in Flying(cl2) : e = c
        BY <1>7, <1>8
      <4> QED BY <2>1, <2>3, <3>1, <4>1, <4>2
    <3>2. CASE d # c
      <4>1. PICK t : t = cl2[d].row.by /\ t = cl[d].row.by /\ Taken(cl[d])
        BY <1>0, <2>4, <3>2
      <4>2. /\ t # s /\ ~Shows(ch, t) /\ ~Shows(st, t)
            /\ \A e \in Calls : e # d /\ Taken(cl[e]) => cl[e].row.by # t
        BY <1>0, <1>8, <2>2, <3>2, <4>1 DEF CodesUsed
      <4>3. \A e \in Calls : e # d /\ Taken(cl2[e]) => cl2[e].row.by # t
        BY <1>0, <2>1, <4>2
      <4>4. ~Shows(ch2, t)
        BY <4>2, FromKeeps
      <4> QED BY <4>1, <4>2, <4>3, <4>4
    <3> QED BY <3>1, <3>2
  <2> QED BY <1>7, <1>8, <2>4 DEF CodesUsed
<1>9. ASSUME Flying(cl) \subseteq {c}, CodesCounted(ch, st, cl), CodesUsed(ch, st, cl),
             cl[c].row.attempts \in Nat, MaxAttempts \in Nat
      PROVE  CodesCounted(ch2, st, cl2)
  <2>1. \A r : Counts(cl2, r) <=> Counts(cl, r)
    BY <1>3 DEF Counts
  <2>2. CountsAll(cl2, ch) /\ CountsAll(cl2, st)
    BY <1>0, <1>9, <2>1 DEF CodesCounted, CountsAll
  <2>3. CountsAll(cl2, ch2)
    BY <2>2, FromKeeps
  <2>4. ASSUME NEW d \in Calls, Taken(cl2[d])
        PROVE  Cardinality(Wrong(cl2, cl2[d].row.by)) < MaxAttempts
    <3>1. CASE d = c
      <4>1. PICK s \in Calls : s = cl[c].row.by /\ s = cl2[c].row.by
        BY <1>5 DEF SentBy
      <4>2. Cardinality(Wrong(cl, s)) <= cl[c].row.attempts /\ cl[c].row.attempts < MaxAttempts
        BY <1>9, <4>1 DEF CodesCounted, CodesUsed, Counts
      <4>3. Cardinality(Wrong(cl, s)) \in Nat
        BY FS_CardinalityType DEF CodesKnown
      <4>4. Cardinality(Wrong(cl, s)) < MaxAttempts
        BY <1>9, <4>2, <4>3
      <4> QED BY <1>3, <3>1, <4>1, <4>4
    <3>2. CASE d # c
      <4>1. PICK t : t = cl2[d].row.by /\ t = cl[d].row.by /\ Taken(cl[d])
        BY <1>0, <2>4, <3>2
      <4> QED BY <1>3, <1>9, <4>1 DEF CodesCounted
    <3> QED BY <3>1, <3>2
  <2> QED BY <1>7, <1>9, <2>2, <2>3, <2>4 DEF CodesCounted
<1> QED BY <1>6, <1>8, <1>9

LEMMA BesideQuiet ==
  ASSUME NEW c \in Calls, Only(c), Beside(c), call[c].step # "done"
  PROVE  Quiet(call, call')
<1>1. ASSUME NEW d \in Calls, d # c
      PROVE  call'[d] = call[d]
  BY <1>1 DEF Only
<1>2. /\ Taken(call'[c]) => Taken(call[c]) /\ call'[c].row = call[c].row /\ call'[c].given = call[c].given
      /\ ~Trying(call'[c])
      /\ Ended(call'[c]) => Taken(call[c]) /\ call'[c].row = call[c].row /\ call'[c].given = call[c].given
  BY DEF Beside, Taken, Trying, Ended
<1> QED BY <1>1, <1>2 DEF Quiet

(* What does not try a code, use one up or send one *)
LEMMA QuietCodes ==
  ASSUME Challenges, CodesInTurn, Quiet(call, call'), From(db'.challenges, db.challenges),
         ~raced' => ~raced, died => died',
         From(stale'.challenges, stale.challenges) \/ From(stale'.challenges, db.challenges),
         ~raced' => \/ From(stale'.challenges, db.challenges)
                    \/ From(stale'.challenges, stale.challenges) /\ Flying(call') \subseteq Flying(call)
  PROVE  Challenges' /\ CodesInTurn'
<1>1. Challenges'
  BY QuietKnown DEF Challenges
<1>2. ~raced' => CodesUsed(db'.challenges, stale'.challenges, call')
  BY QuietUsed DEF CodesInTurn
<1>3. ~raced' /\ ~died' => CodesCounted(db'.challenges, stale'.challenges, call')
  BY QuietCounted DEF CodesInTurn, Challenges
<1> QED BY <1>1, <1>2, <1>3 DEF CodesInTurn

LEMMA QuietStep ==
  ASSUME Challenges, CodesInTurn, NEW c \in InFlight, Only(c), Beside(c), raced' = raced, died => died',
         db'.challenges = db.challenges, stale' = stale
  PROVE  Challenges' /\ CodesInTurn'
<1>1. c \in Calls /\ call[c].step # "done"
  BY DEF InFlight
<1>2. Quiet(call, call')
  BY <1>1, BesideQuiet
<1>3. Flying(call') \subseteq Flying(call)
  BY <1>1 DEF Only, Flying, InFlight
<1>4. From(db'.challenges, db.challenges) /\ From(stale'.challenges, stale.challenges)
  BY DEF From
<1> QED BY <1>2, <1>3, <1>4, QuietCodes

(* Of the calls one after the other, the one under way is the only one. *)
LEMMA OnlyFlying ==
  ASSUME InTurn, NEW c \in InFlight, ~raced
  PROVE  Flying(call) \subseteq {c} /\ From(db.challenges, stale.challenges)
BY DEF InTurn, Aligned, Flying, InFlight, From

LEMMA SendCodes ==
  ASSUME IInv, TInv, InTurn, Challenges, CodesInTurn, NEW c \in Calls, SendPuts(c)
  PROVE  Challenges' /\ CodesInTurn'
<1>0. /\ call[c] \in CallType /\ Fits(call[c]) /\ StoreShape(db) /\ c \in InFlight
      /\ raced' = raced /\ stale' = stale /\ died' = died
      /\ db.challenges \in [Keys -> ChallengeType \cup {NoRow}]
  BY AtWork, SignInFrame, StoreFields DEF TInv, Good, SignInStep, SendPuts, Aside
<1>1. call[c].step = "put" /\ call[c].op = "send" /\ call[c].key \in Keys
  BY <1>0 DEF SendPuts, Doing, Fits, Working
<1>2. PICK k \in Keys : k = call[c].key
  BY <1>1
<1>3. PICK new : new = NewChallenge(c, call[c].given)
  OBVIOUS
<1>4. new.by = c /\ new.attempts = 0
  BY <1>3 DEF NewChallenge
<1>5. db'.challenges = [db.challenges EXCEPT ![k] = new]
  BY <1>0, <1>2, <1>3 DEF SendPuts, StoreShape
<1>6. Only(c) /\ Beside(c) /\ call'[c].step = "done"
  BY OverIs DEF SendPuts
<1>7. Quiet(call, call') /\ Others(call, call', c)
  BY <1>1, <1>6, BesideQuiet DEF Others, Only
<1>8. db'.challenges[k] = new /\ \A l \in Keys : l # k => db'.challenges[l] = db.challenges[l]
  BY <1>0, <1>5
<1>9. /\ CodesKnown(db'.challenges, stale.challenges, call')
      /\ (Flying(call) \subseteq {c} /\ CodesUsed(db.challenges, stale.challenges, call)) =>
            CodesUsed(db'.challenges, stale.challenges, call')
      /\ CodesCounted(db.challenges, stale.challenges, call) =>
            CodesCounted(db'.challenges, stale.challenges, call')
  BY <1>1, <1>4, <1>6, <1>7, <1>8, SendingCodes DEF Challenges
<1> QED BY <1>0, <1>9, OnlyFlying DEF Challenges, CodesInTurn

LEMMA ReadCodes ==
  ASSUME IInv, TInv, InTurn, Challenges, CodesInTurn, NEW c \in Calls, VerifyReads(c)
  PROVE  Challenges' /\ CodesInTurn'
<1>0. /\ call[c] \in CallType /\ Fits(call[c]) /\ Function(call, Calls) /\ c \in InFlight
      /\ UNCHANGED <<db, stale, raced, died>>
  BY AtWork, SignInFrame DEF TInv, Good, SignInStep, VerifyReads, Reads
<1>1. call[c].step = "read" /\ call[c].op = "verify" /\ call[c].key \in Keys /\ call[c].at \in Nat
  BY <1>0, CallFields DEF VerifyReads, Doing, Fits, Working
<1>2. PICK k \in Keys : k = call[c].key
  BY <1>1
<1>3. PICK row \in SeenChallenge(k) :
        IF ~Open(row, call[c].at) THEN Over(c) ELSE
          call' = [call EXCEPT ![c].row = row,
                               ![c].step = IF row.code = call[c].given THEN "delete" ELSE "count"]
  BY <1>2 DEF VerifyReads
<1>4. CASE ~Open(row, call[c].at)
  BY <1>0, <1>3, <1>4, OverIs, QuietStep
<1>5. CASE Open(row, call[c].at)
  <2>1. row \in ChallengeType /\ row # NoRow /\ row.ttl > call[c].at /\ row.attempts < MaxAttempts
    BY <1>5, SeenRows DEF Open
  <2>2. row.ttl # 0
    BY <1>1, <2>1 DEF ChallengeType
  <2>3. PICK s \in {"delete", "count"} :
          s = (IF row.code = call[c].given THEN "delete" ELSE "count") /\ (s = "delete" => row.code = call[c].given)
    OBVIOUS
  <2>4. Only(c) /\ call'[c] = [call[c] EXCEPT !.row = row, !.step = s]
    BY <1>0, <1>3, <1>5, <2>3 DEF Function, Only
  <2>5. /\ call'[c].row = row /\ call'[c].step = s /\ call'[c].op = "verify" /\ call'[c].key = k
        /\ call'[c].given = call[c].given
    BY <1>0, <1>1, <1>2, <2>4 DEF CallType
  <2>6. Trying(call'[c]) /\ Others(call, call', c)
    BY <2>3, <2>4, <2>5 DEF Trying, Others, Only
  <2>7. row \in {db.challenges[k], stale.challenges[k]}
    BY DEF SeenChallenge
  <2>8. call'[c].step = "delete" => row.code = call'[c].given
    BY <2>3, <2>5
  <2>9. /\ CodesKnown(db.challenges, stale.challenges, call')
        /\ (/\ Flying(call) \subseteq {c} /\ From(db.challenges, stale.challenges)
            /\ CodesUsed(db.challenges, stale.challenges, call)) =>
             CodesUsed(db.challenges, stale.challenges, call')
        /\ CodesCounted(db.challenges, stale.challenges, call) =>
             CodesCounted(db.challenges, stale.challenges, call')
    <3>1. CodesKnown(db.challenges, stale.challenges, call) /\ call[c].step \notin {"idle", "done"}
      BY <1>1 DEF Challenges
    <3>2. call'[c].key = k /\ call'[c].row = row
      BY <2>5
    <3>3. row # NoRow /\ row.attempts < MaxAttempts
      BY <2>1
    <3> QED BY <2>2, <2>6, <2>7, <2>8, <3>1, <3>2, <3>3, ReadingCodes
  <2> QED BY <1>0, <2>9, OnlyFlying DEF Challenges, CodesInTurn
<1> QED BY <1>4, <1>5

LEMMA CountCodes ==
  ASSUME IInv, TInv, InTurn, Challenges, CodesInTurn, NEW c \in Calls, VerifyCounts(c)
  PROVE  Challenges' /\ CodesInTurn'
<1>0. /\ call[c] \in CallType /\ Fits(call[c]) /\ StoreShape(db) /\ c \in InFlight
      /\ raced' = raced /\ stale' = stale /\ (died => died')
      /\ db.challenges \in [Keys -> ChallengeType \cup {NoRow}]
  BY AtWork, SignInFrame, StoreFields DEF TInv, Good, SignInStep
<1>1. call[c].step = "count" /\ call[c].op = "verify" /\ call[c].key \in Keys
  BY <1>0 DEF VerifyCounts, Doing, Fits, Working
<1>2. PICK k \in Keys : k = call[c].key
  BY <1>1
<1>3. Only(c) /\ call'[c].step = "done" /\ call'[c].user = NoUser /\ call'[c].row = call[c].row
  BY AnswerIs DEF VerifyCounts
<1>4. Trying(call[c]) /\ Others(call, call', c)
  BY <1>1, <1>3 DEF Trying, Others, Only
<1>5. \A l \in Keys : db.challenges[l] # NoRow
                     => db.challenges[l] \in ChallengeType /\ db.challenges[l].attempts \in Nat
  BY <1>0 DEF ChallengeType
<1>6. CASE UNCHANGED db /\ died' = TRUE
  <2>1. /\ CodesKnown(db.challenges, stale.challenges, call')
        /\ (Flying(call) \subseteq {c} /\ CodesUsed(db.challenges, stale.challenges, call)) =>
             CodesUsed(db.challenges, stale.challenges, call')
    BY <1>3, <1>4, CountingCodes DEF Challenges
  <2> QED BY <1>0, <1>6, <2>1, OnlyFlying DEF Challenges, CodesInTurn
<1>7. CASE db' = [db EXCEPT !.challenges[call[c].key] = Counted(@)]
  <2>1. PICK row : row = db.challenges[k]
    OBVIOUS
  <2>2. PICK new : new = Counted(row)
    OBVIOUS
  <2>3. db'.challenges = [db.challenges EXCEPT ![k] = new]
    BY <1>0, <1>2, <1>7, <2>1, <2>2 DEF StoreShape
  <2>4. db'.challenges[k] = new /\ \A l \in Keys : l # k => db'.challenges[l] = db.challenges[l]
    BY <1>0, <2>3
  <2>5. /\ new # NoRow
        /\ row = NoRow => new.by = first /\ new.ttl = 0
        /\ row # NoRow => new.by = row.by /\ new.ttl = row.ttl /\ new.attempts = row.attempts + 1
    <3>1. CASE row = NoRow
      <4>1. Leftover \in ChallengeType /\ Leftover.by = first /\ Leftover.ttl = 0
        BY DEF Leftover, ChallengeType, Ids
      <4> QED BY <2>2, <3>1, <4>1, NoRowIsNoRow DEF Counted, Rows
    <3>2. CASE row # NoRow
      <4>0. row \in ChallengeType /\ row.attempts \in Nat
        BY <1>5, <2>1, <3>2
      <4>1. PICK n \in Nat : n = row.attempts + 1 /\ row \in ChallengeType
        BY <4>0
      <4>2. new = [row EXCEPT !.attempts = n]
        BY <2>2, <3>2, <4>1 DEF Counted
      <4>3. new \in ChallengeType /\ new.by = row.by /\ new.ttl = row.ttl /\ new.attempts = n
        BY <4>1, <4>2 DEF ChallengeType
      <4> QED BY <3>2, <4>1, <4>3, NoRowIsNoRow DEF Rows
    <3> QED BY <3>1, <3>2
  <2>6. PICK ch, ch2, st, cl2 : ch = db.challenges /\ ch2 = db'.challenges /\ st = stale.challenges /\ cl2 = call'
    OBVIOUS
  <2>7. CodesKnown(ch, st, call) /\ Trying(call[c]) /\ Others(call, cl2, c)
    BY <1>4, <2>6 DEF Challenges
  <2>8. cl2[c].step = "done" /\ cl2[c].user = NoUser /\ cl2[c].row = call[c].row
    BY <1>3, <2>6
  <2>9. \A l \in Keys : \/ ch2[l] = ch[l]
                        \/ ch2[l] # NoRow /\ ch2[l].by = first /\ ch2[l].ttl = 0
                        \/ /\ ch[l] # NoRow /\ ch2[l] # NoRow
                           /\ ch2[l].by = ch[l].by /\ ch2[l].ttl = ch[l].ttl
    BY <2>1, <2>4, <2>5, <2>6
  <2>10. /\ ch2[call[c].key] # NoRow
         /\ ch[call[c].key] # NoRow => ch2[call[c].key].attempts = ch[call[c].key].attempts + 1
         /\ \A l \in Keys : l # call[c].key => ch2[l] = ch[l]
         /\ ch[call[c].key] = NoRow => ch2[call[c].key].by = first
         /\ \A l \in Keys : ch[l] # NoRow => ch[l].attempts \in Nat
    BY <1>2, <1>5, <2>1, <2>4, <2>5, <2>6
  <2>11. /\ CodesKnown(ch2, st, cl2)
         /\ (Flying(call) \subseteq {c} /\ CodesUsed(ch, st, call)) => CodesUsed(ch2, st, cl2)
         /\ (Flying(call) \subseteq {c} /\ CodesUsed(ch, st, call) /\ CodesCounted(ch, st, call)) =>
              CodesCounted(ch2, st, cl2)
    BY <2>7, <2>8, <2>9, <2>10, CountingCodes
  <2> QED BY <1>0, <2>6, <2>11, OnlyFlying DEF Challenges, CodesInTurn
<1> QED BY <1>6, <1>7 DEF VerifyCounts

LEMMA UseCodes ==
  ASSUME IInv, TInv, InTurn, Challenges, CodesInTurn, NEW c \in Calls, VerifyDeletes(c)
  PROVE  Challenges' /\ CodesInTurn'
<1>0. /\ call[c] \in CallType /\ Fits(call[c]) /\ Function(call, Calls) /\ StoreShape(db) /\ c \in InFlight
      /\ raced' = raced /\ stale' = stale /\ died' = died
      /\ db.challenges \in [Keys -> ChallengeType \cup {NoRow}]
  BY AtWork, SignInFrame, StoreFields DEF TInv, Good, SignInStep, VerifyDeletes, Aside
<1>1. call[c].step = "delete" /\ call[c].op = "verify" /\ call[c].key \in Keys /\ call[c].row \in ChallengeType
  BY <1>0 DEF VerifyDeletes, Doing, Fits, Working
<1>2. PICK q, k, r : q = call[c] /\ k = call[c].key /\ r = Onboarding(q, k)
  OBVIOUS
<1>3. Only(c) /\ call'[c] = r
  BY <1>0, <1>2, OneCall DEF VerifyDeletes
<1>4. r.step \in {"lookup", "done"} /\ r.row = call[c].row /\ r.given = call[c].given
  BY <1>0, <1>2 DEF Onboarding, CallType
<1>5. db'.challenges = [db.challenges EXCEPT ![k] = NoRow]
  BY <1>0, <1>2 DEF VerifyDeletes, UsedUp, StoreShape
<1>6. From(db'.challenges, db.challenges) /\ db'.challenges[k] = NoRow
  BY <1>0, <1>1, <1>2, <1>5 DEF From
<1>7. Trying(call[c]) /\ Others(call, call', c)
  BY <1>1, <1>3 DEF Trying, Others, Only
<1>8. call[c].row.attempts \in Nat /\ MaxAttempts \in Nat
  BY <1>1, SignInAssumption DEF ChallengeType
<1>9. /\ CodesKnown(db'.challenges, stale.challenges, call')
      /\ (Flying(call) \subseteq {c} /\ CodesUsed(db.challenges, stale.challenges, call)) =>
           CodesUsed(db'.challenges, stale.challenges, call')
      /\ (/\ Flying(call) \subseteq {c} /\ CodesUsed(db.challenges, stale.challenges, call)
          /\ CodesCounted(db.challenges, stale.challenges, call)) =>
           CodesCounted(db'.challenges, stale.challenges, call')
  BY <1>1, <1>2, <1>3, <1>4, <1>6, <1>7, <1>8, UsingCodes DEF Challenges
<1> QED BY <1>0, <1>9, OnlyFlying DEF Challenges, CodesInTurn

LEMMA SignInCodes ==
  ASSUME IInv, TInv, InTurn, Challenges, CodesInTurn, NEW c \in Calls, SignInStep(c)
  PROVE  Challenges' /\ CodesInTurn'
<1>1. CASE SendPuts(c) \/ VerifyReads(c) \/ VerifyCounts(c) \/ VerifyDeletes(c)
  BY <1>1, SendCodes, ReadCodes, CountCodes, UseCodes
<1>2. CASE SendReads(c) \/ PutsTicket(c) \/ NonceInUse(c) \/ Continues(c)
  <2>1. /\ StoreShape(db) /\ c \in InFlight /\ raced' = raced /\ stale' = stale /\ (died => died')
    BY AtWork, SignInFrame
  <2>2. UNCHANGED db \/ \E k, row : db' = [db EXCEPT !.tickets[k] = row]
    BY <1>2 DEF SendReads, PutsTicket, NonceInUse, Continues, Reads
  <2>3. db'.challenges = db.challenges
    BY <2>1, <2>2 DEF StoreShape
  <2>4. Only(c) /\ Beside(c)
    <3>1. Calm(c) /\ (Beside(c) \/ VerifyReads(c) \/ VerifyCounts(c) \/ VerifyDeletes(c))
      BY SignInCalm
    <3>2. CASE Beside(c)
      BY <3>1, <3>2 DEF Calm
    <3>3. CASE ~Beside(c)
      <4>1. VerifyReads(c) \/ VerifyCounts(c) \/ VerifyDeletes(c)
        BY <3>1, <3>3
      <4> QED BY <1>2, <4>1 DEF SendReads, PutsTicket, NonceInUse, Continues, VerifyReads, VerifyCounts,
                                VerifyDeletes, Doing, At
    <3> QED BY <3>2, <3>3
  <2> QED BY <2>1, <2>3, <2>4, QuietStep
<1> QED BY <1>1, <1>2 DEF SignInStep

LEMMA StartCodes ==
  ASSUME IInv, TInv, Challenges, CodesInTurn, NEW c \in Calls, Start(c)
  PROVE  Challenges' /\ CodesInTurn'
<1>1. PICK r \in Requests : call' = [call EXCEPT ![c] = r]
  BY DEF Start
<1>2. Only(c) /\ call'[c] = r /\ call[c].step = "idle"
  BY <1>1, AtWork, OneCall DEF Start
<1>3. UNCHANGED <<db, stale, died>> /\ (~raced' => ~raced /\ stale = db)
  BY DEF Start
<1>4. Beside(c)
  BY <1>2, RequestsKnow DEF Beside, Taken, Trying
<1>5. Quiet(call, call')
  BY <1>2, <1>4, BesideQuiet
<1>6. /\ From(db'.challenges, db.challenges) /\ From(stale'.challenges, stale.challenges)
      /\ ~raced' => From(stale'.challenges, db.challenges)
  BY <1>3 DEF From
<1>7. (~raced' => ~raced) /\ (died => died')
  BY <1>3
<1> QED BY <1>5, <1>6, <1>7, QuietCodes

LEMMA BesideCodes ==
  ASSUME IInv, Challenges, CodesInTurn,
         CatchUp \/ Tick \/ AllDone \/ UNCHANGED vars \/ SweepsChallenge \/ SweepsTicket
  PROVE  Challenges' /\ CodesInTurn'
<1>1. UNCHANGED <<call, raced, died>> /\ stale' \in {stale, db}
  BY BesideFrame
<1>2. From(db'.challenges, db.challenges)
  <2>1. CASE UNCHANGED db
    BY <2>1 DEF From
  <2>2. ASSUME NEW n, db' = [db EXCEPT !.challenges[n] = NoRow]
        PROVE  From(db'.challenges, db.challenges)
    <3>1. db'.challenges = [db.challenges EXCEPT ![n] = NoRow]
      BY <2>2 DEF IInv, Shapes, StoreShape
    <3> QED BY <3>1 DEF From
  <2>3. CASE SweepsTicket
    <3>1. PICK n : db' = [db EXCEPT !.tickets[n] = NoRow]
      BY <2>3 DEF SweepsTicket
    <3>2. db'.challenges = db.challenges
      BY <3>1 DEF IInv, Shapes, StoreShape
    <3> QED BY <3>2 DEF From
  <2> QED BY <2>1, <2>2, <2>3 DEF CatchUp, Tick, AllDone, vars, SweepsChallenge
<1>3. From(stale'.challenges, stale.challenges) \/ From(stale'.challenges, db.challenges)
  BY <1>1 DEF From
<1>4. Quiet(call, call') /\ Flying(call') \subseteq Flying(call)
  <2>1. Quiet(call, call)
    BY DEF Quiet
  <2> QED BY <1>1, <2>1
<1>5. (~raced' => ~raced) /\ (died => died')
  BY <1>1
<1> QED BY <1>2, <1>3, <1>4, <1>5, QuietCodes

LEMMA CodesInductive ==
  IInv /\ TInv /\ InTurn /\ Challenges /\ CodesInTurn /\ [Next]_vars => Challenges' /\ CodesInTurn'
<1> SUFFICES ASSUME IInv, TInv, InTurn, Challenges, CodesInTurn, [Next]_vars
             PROVE  Challenges' /\ CodesInTurn'
  OBVIOUS
<1>1. ASSUME NEW c \in Calls, Die(c) PROVE Challenges' /\ CodesInTurn'
  <2>1. c \in InFlight /\ UNCHANGED <<db, stale, raced>> /\ died'
    BY <1>1 DEF Die
  <2>2. Only(c) /\ Beside(c)
    BY <1>1, OverIs DEF Die
  <2> QED BY <2>1, <2>2, QuietStep
<1>2. ASSUME NEW c \in Calls, AccountStep(c) PROVE Challenges' /\ CodesInTurn'
  <2>1. /\ c \in InFlight /\ raced' = raced /\ stale' = stale /\ (died => died')
        /\ db'.challenges = db.challenges
    BY <1>2, AccountFrame
  <2>2. Only(c) /\ Beside(c)
    BY <1>2, AccountCalm DEF Calm
  <2> QED BY <2>1, <2>2, QuietStep
<1>3. ASSUME NEW c \in Calls, LoyaltyStep(c) PROVE Challenges' /\ CodesInTurn'
  <2>1. /\ c \in InFlight /\ raced' = raced /\ stale' = stale /\ (died => died')
        /\ db'.challenges = db.challenges
    BY <1>3, LoyaltyFrame
  <2> QED BY <1>3, <2>1, LoyaltyBeside, QuietStep
<1>4. ASSUME NEW c \in Calls, AddressStep(c) PROVE Challenges' /\ CodesInTurn'
  <2>1. /\ c \in InFlight /\ raced' = raced /\ stale' = stale /\ (died => died')
        /\ db'.challenges = db.challenges
    BY <1>4, AddressFrame
  <2>2. Only(c) /\ Beside(c)
    BY <1>4, AddressCalm DEF Calm
  <2> QED BY <2>1, <2>2, QuietStep
<1> QED BY <1>1, <1>2, <1>3, <1>4, StartCodes, SignInCodes, BesideCodes DEF Next

LEMMA InitiallyCodes ==
  Init => Challenges /\ CodesInTurn
<1> SUFFICES ASSUME Init PROVE Challenges /\ CodesInTurn
  OBVIOUS
<1>1. \A k \in Keys : db.challenges[k] = NoRow /\ stale.challenges[k] = NoRow
  BY DEF Init
<1>2. \A c \in Calls : ~Taken(call[c]) /\ ~Trying(call[c]) /\ ~Ended(call[c])
  BY BlankFields DEF Init, Taken, Trying, Ended
<1>3. \A s : Wrong(call, s) = {}
  BY <1>2 DEF Wrong
<1>4. Challenges
  BY <1>1, <1>2, <1>3, FS_EmptySet DEF Challenges, CodesKnown, RowSent, OneKey, Right
<1>5. CodesUsed(db.challenges, stale.challenges, call)
  BY <1>2 DEF CodesUsed
<1>6. CodesCounted(db.challenges, stale.challenges, call)
  BY <1>1, <1>2 DEF CodesCounted, CountsAll
<1> QED BY <1>4, <1>5, <1>6 DEF CodesInTurn

(* One call after the other, a code that Send put on record signs in once, *)
(* and, unless a call died and its count was lost, only while fewer than   *)
(* MaxAttempts wrong codes were tried: Verify deletes the challenge before *)
(* it goes on, and a wrong code counts.                                    *)
THEOREM CustomerCodesSignInOnce ==
  Spec => []CodesSignInOnce
<1>1. CodesInTurn => CodesSignInOnce
  <2> SUFFICES ASSUME CodesInTurn, ~raced, NEW c \in AnsweredBy("verify")
               PROVE  /\ \A d \in AnsweredBy("verify") : d # c => call[d].row.by # call[c].row.by
                      /\ ~died => Cardinality(WrongFor(call[c].row.by)) < MaxAttempts
    BY DEF CodesSignInOnce
  <2>1. \A d \in AnsweredBy("verify") : d \in Calls /\ Taken(call[d])
    BY DEF AnsweredBy, Taken
  <2>2. \A d \in AnsweredBy("verify") : d # c => call[d].row.by # call[c].row.by
    BY <2>1 DEF CodesInTurn, CodesUsed
  <2>3. \A s : WrongFor(s) = Wrong(call, s)
    BY DEF WrongFor, Wrong, Ended
  <2>4. ~died => Cardinality(Wrong(call, call[c].row.by)) < MaxAttempts
    BY <2>1 DEF CodesInTurn, CodesCounted
  <2>5. PICK s : s = call[c].row.by
    OBVIOUS
  <2> QED BY <2>2, <2>3, <2>4, <2>5
<1>2. IInv /\ TInv /\ InTurn /\ Challenges /\ CodesInTurn /\ [Next]_vars => Challenges' /\ CodesInTurn'
  BY CodesInductive
<1> QED BY <1>1, <1>2, InitiallyCodes, TurnsHold, PTL DEF Spec

=============================================================================
