-------------------------- MODULE WebOrders_proofs --------------------------
(***************************************************************************)
(* The web checkout for any set of calls, attempts and customers, any      *)
(* number of years and any bound on the sequence.                          *)
(*                                                                         *)
(* The argument: the number worker's two maps are each other's inverse and *)
(* no number is ever taken back, so a ref belongs to one attempt of one    *)
(* year for good (HoldsRef); a Razorpay order carries the ref of its own   *)
(* attempt; a stored order was sent as it is by one call, which keeps what *)
(* it sent (RowSent); and a lagging read shows a row as it is or not at    *)
(* all, because stored rows stay.  IInv says this of every call, the       *)
(* answers included; nothing in it is about what clients send.             *)
(***************************************************************************)
EXTENDS WebOrders, TLAPS

NP == INSTANCE InvoiceCounter_proofs
  WITH Keys <- Attempts, NoKey <- NoAttempt, byBill <- byAttempt, byInvoice <- byRef

(* The ref r is the number attempt a got in the year of r. *)
HoldsRef(r, a) == byAttempt[r[1]][a] = r[2]

Verifying == {"read", "put", "reread", "verified", "usedRef", "otherPayment"}

OrderOK(c) ==
  payOrders[c] # NoRow =>
    /\ call[c].step \in {"created", "failed"}
    /\ HoldsRef(payOrders[c].ref, payOrders[c].attempt)

CreatingOK(c) ==
  /\ call[c].step \in {"route", "number", "razorpay"} => call[c].attempt \in Attempts
  /\ At(c, "razorpay") => call[c].ref \in Refs /\ HoldsRef(call[c].ref, call[c].attempt)
  /\ At(c, "created") => payOrders[c] # NoRow

VerifyingOK(c) ==
  /\ call[c].step \in Verifying =>
       call[c].payment \in paid /\ call[c].ref \in Refs /\ call[c].user \in Users
  /\ call[c].payment # Nothing => call[c].step \in Verifying \cup {"failed"}
  /\ At(c, "reread") => call[c].lost /\ webOrders[call[c].ref] # NoRow

AnswerOK(c) ==
  LET row == webOrders[call[c].ref]
  IN /\ At(c, "usedRef") => row # NoRow /\ row.user # call[c].user
     /\ At(c, "verified") =>
          row # NoRow /\ row.user = call[c].user /\ (call[c].lost \/ row.payment = call[c].payment)
     /\ At(c, "otherPayment") =>
          row # NoRow /\ row.user = call[c].user /\ row.payment # call[c].payment

CallOK(c) == OrderOK(c) /\ CreatingOK(c) /\ VerifyingOK(c) /\ AnswerOK(c)

ReplicaBehind == \A r \in Refs : replica[r] # NoRow => replica[r] = webOrders[r]

RowSent(r) == webOrders[r].payment \in paid /\ \E c \in Calls : SentAs(c, r)
RowsSent == \A r \in Refs : webOrders[r] # NoRow => RowSent(r)

IInv ==
  /\ TypeOK
  /\ NP!MapsAgree
  /\ ReplicaBehind
  /\ RowsSent
  /\ \A c \in Calls : CallOK(c)

-----------------------------------------------------------------------------
(* The counter *)

LEMMA CounterFacts ==
  /\ Years = NP!Years
  /\ Numbers!CounterTypeOK <=> NP!CounterTypeOK
  /\ Numbers!CounterInit <=> NP!CounterInit
  /\ \A y, a : Numbers!NextInvoice(y, a) <=> NP!NextInvoice(y, a)
BY DEF Years, NP!Years, Numbers!Years, NP!Sequences, Numbers!Sequences,
       NP!CounterTypeOK, Numbers!CounterTypeOK, NP!CounterInit, Numbers!CounterInit,
       NP!NextInvoice, Numbers!NextInvoice, NP!ReturnExisting, Numbers!ReturnExisting,
       NP!IssueNew, Numbers!IssueNew, NP!AlreadyNumbered, Numbers!AlreadyNumbered,
       NP!counterVars, Numbers!counterVars

(* One transaction of the worker: the maps stay well typed and each        *)
(* other's inverse, the attempt has a number, and no number is taken back. *)
LEMMA RefTaken ==
  ASSUME Numbers!CounterTypeOK, NP!MapsAgree,
         NEW y \in Years, NEW a \in Attempts, NextRef(y, a)
  PROVE  /\ Numbers!CounterTypeOK'
         /\ NP!MapsAgree'
         /\ byAttempt'[y][a] \in 1..MaxSeq
         /\ \A z \in Years, b \in Attempts :
              byAttempt[z][b] # 0 => byAttempt'[z][b] = byAttempt[z][b]
<1>1. LastYear \in Nat /\ MaxSeq \in Nat /\ NoAttempt \notin Attempts
  BY WebOrdersAssumption
<1>2. y \in NP!Years /\ NP!CounterTypeOK /\ NP!NextInvoice(y, a)
  BY CounterFacts DEF NextRef
<1>3. NP!CounterTypeOK' /\ byAttempt'[y][a] \in NP!Sequences
  BY <1>1, <1>2, NP!NextInvoiceTypes
<1>4. NP!MapsAgree'
  BY <1>1, <1>2, NP!NextInvoiceKeepsMaps
<1>5. ASSUME NEW z \in Years, NEW b \in Attempts, byAttempt[z][b] # 0
      PROVE  byAttempt'[z][b] = byAttempt[z][b]
  BY <1>1, <1>2, <1>5, CounterFacts, NP!NumbersStay
<1>6. Numbers!CounterTypeOK'
  BY <1>3, CounterFacts DEF Numbers!CounterTypeOK, NP!CounterTypeOK, Numbers!Years, NP!Years,
       Numbers!Sequences, NP!Sequences
<1>7. NP!Sequences = 1..MaxSeq
  BY DEF NP!Sequences
<1> QED
  BY <1>3, <1>4, <1>5, <1>6, <1>7

(* Two attempts never hold one ref, and an attempt holds one ref a year. *)
LEMMA RefsDiffer ==
  ASSUME NP!MapsAgree, NEW r \in Refs, NEW s \in Refs, NEW a \in Attempts, NEW b \in Attempts,
         HoldsRef(r, a), HoldsRef(s, b)
  PROVE  /\ r = s => a = b
         /\ r[1] = s[1] /\ a = b => r = s
<1>1. /\ r[1] \in NP!Years /\ r[2] \in 1..MaxSeq /\ r = <<r[1], r[2]>>
      /\ s[1] \in NP!Years /\ s[2] \in 1..MaxSeq /\ s = <<s[1], s[2]>>
  BY CounterFacts DEF Refs
<1>2. r[2] # 0 /\ s[2] # 0
  BY <1>1, WebOrdersAssumption
<1>3. byRef[r[1]][r[2]] = a /\ byRef[s[1]][s[2]] = b
  BY <1>1, <1>2 DEF NP!MapsAgree, HoldsRef
<1>4. ASSUME r = s PROVE a = b
  BY <1>3, <1>4
<1>5. ASSUME r[1] = s[1], a = b PROVE r = s
  <2>1. r[2] = s[2]
    BY <1>5 DEF HoldsRef
  <2> QED
    BY <1>1, <1>5, <2>1
<1> QED
  BY <1>4, <1>5

-----------------------------------------------------------------------------
(* What steps leave alone *)

SendStays(c) ==
  call[c].payment # Nothing =>
    /\ call'[c].payment = call[c].payment
    /\ call'[c].ref = call[c].ref /\ call'[c].user = call[c].user

Kept ==
  /\ paid \subseteq paid'
  /\ \A p \in Calls : payOrders[p] # NoRow => payOrders'[p] = payOrders[p]
  /\ \A r \in Refs : webOrders[r] # NoRow => webOrders'[r] = webOrders[r]
  /\ \A y \in Years, a \in Attempts :
       byAttempt[y][a] # 0 => byAttempt'[y][a] = byAttempt[y][a]
  /\ \A c \in Calls : SendStays(c)

LEMMA GotoMoves ==
  ASSUME call \in [Calls -> CallType], NEW c \in Calls, NEW s \in Steps, Goto(c, s)
  PROVE  /\ call' \in [Calls -> CallType]
         /\ call'[c].step = s
         /\ call'[c].attempt = call[c].attempt /\ call'[c].ref = call[c].ref
         /\ call'[c].payment = call[c].payment /\ call'[c].lost = call[c].lost
         /\ call'[c].user = call[c].user
         /\ \A d \in Calls : d # c => call'[d] = call[d]
BY DEF Goto, CallType

LEMMA RefusedMoves ==
  ASSUME call \in [Calls -> CallType], NEW c \in Calls, Refused(c)
  PROVE  /\ call' \in [Calls -> CallType]
         /\ call'[c].step = "reread" /\ call'[c].lost
         /\ call'[c].attempt = call[c].attempt /\ call'[c].ref = call[c].ref
         /\ call'[c].payment = call[c].payment /\ call'[c].user = call[c].user
         /\ \A d \in Calls : d # c => call'[d] = call[d]
BY DEF Refused, CallType, Steps

LEMMA RefMoves ==
  ASSUME call \in [Calls -> CallType], NEW c \in Calls, NEW r \in Refs,
         call' = [call EXCEPT ![c].step = "razorpay", ![c].ref = r]
  PROVE  /\ call' \in [Calls -> CallType]
         /\ call'[c].step = "razorpay" /\ call'[c].attempt = call[c].attempt
         /\ call'[c].ref = r /\ call'[c].payment = call[c].payment
         /\ \A d \in Calls : d # c => call'[d] = call[d]
BY DEF CallType, Steps

LEMMA BlankWith ==
  ASSUME NEW b, NEW s, NEW a, NEW n,
         b = [step |-> s, attempt |-> NoAttempt, stamp |-> 0, ref |-> Nothing,
              payment |-> Nothing, user |-> Nothing, lost |-> FALSE],
         n = [b EXCEPT !.attempt = a]
  PROVE  /\ n.step = s /\ n.attempt = a /\ n.ref = Nothing /\ n.payment = Nothing
         /\ a \in Attempts /\ s \in Steps => n \in CallType
<1>1. n.step = s /\ n.attempt = a /\ n.stamp = 0 /\ n.ref = Nothing /\ n.payment = Nothing
      /\ n.user = Nothing /\ n.lost = FALSE
  OBVIOUS
<1>2. n = [step |-> n.step, attempt |-> n.attempt, stamp |-> n.stamp, ref |-> n.ref,
           payment |-> n.payment, user |-> n.user, lost |-> n.lost]
  OBVIOUS
<1>3. 0 \in Years
  BY WebOrdersAssumption DEF Years
<1> QED
  BY <1>1, <1>2, <1>3 DEF CallType

LEMMA BlankSent ==
  ASSUME NEW b, NEW r \in Refs, NEW p \in Calls, NEW u \in Users, NEW n,
         b = [step |-> "read", attempt |-> NoAttempt, stamp |-> 0, ref |-> Nothing,
              payment |-> Nothing, user |-> Nothing, lost |-> FALSE],
         n = [b EXCEPT !.ref = r, !.payment = p, !.user = u]
  PROVE  /\ n.step = "read" /\ n.ref = r /\ n.payment = p /\ n.user = u
         /\ n \in CallType
<1>1. /\ n.step = "read" /\ n.attempt = NoAttempt /\ n.stamp = 0 /\ n.ref = r
      /\ n.payment = p /\ n.user = u /\ n.lost = FALSE
  OBVIOUS
<1>2. n = [step |-> n.step, attempt |-> n.attempt, stamp |-> n.stamp, ref |-> n.ref,
           payment |-> n.payment, user |-> n.user, lost |-> n.lost]
  OBVIOUS
<1>3. 0 \in Years
  BY WebOrdersAssumption DEF Years
<1> QED
  BY <1>1, <1>2, <1>3 DEF CallType, Steps

LEMMA PaidOrder ==
  ASSUME TypeOK, NEW p \in paid
  PROVE  p \in Calls /\ payOrders[p] # NoRow /\ payOrders[p] \in PayOrderType
         /\ payOrders[p].attempt \in Attempts /\ payOrders[p].ref \in Refs
BY DEF TypeOK, PayOrderType

(* A ref that is held stays held. *)
LEMMA StillHolds ==
  ASSUME Kept, NEW r \in Refs, NEW a \in Attempts, HoldsRef(r, a)
  PROVE  HoldsRef(r, a)'
<1>1. r[1] \in Years /\ r[2] \in 1..MaxSeq
  BY DEF Refs
<1>2. byAttempt[r[1]][a] # 0
  BY <1>1, WebOrdersAssumption DEF HoldsRef
<1> QED
  BY <1>1, <1>2 DEF Kept, HoldsRef

(* A call that does not move stays in order. *)
LEMMA OthersStay ==
  ASSUME TypeOK, Kept, NEW c \in Calls, CallOK(c), call'[c] = call[c],
         payOrders'[c] = payOrders[c]
  PROVE  CallOK(c)'
<1>1. OrderOK(c)'
  <2>1. CASE payOrders[c] = NoRow
    BY <2>1 DEF OrderOK
  <2>2. CASE payOrders[c] # NoRow
    <3>1. payOrders[c].ref \in Refs /\ payOrders[c].attempt \in Attempts
      BY <2>2 DEF TypeOK, PayOrderType
    <3> QED
      BY <2>2, <3>1, StillHolds DEF CallOK, OrderOK, HoldsRef
  <2> QED
    BY <2>1, <2>2
<1>2. CreatingOK(c)'
  BY StillHolds DEF CallOK, CreatingOK, At, HoldsRef
<1>3. VerifyingOK(c)'
  BY DEF CallOK, VerifyingOK, At, Kept, Verifying
<1>4. call[c].step \in Verifying /\ webOrders[call[c].ref] # NoRow =>
        webOrders'[call[c].ref] = webOrders[call[c].ref]
  BY DEF CallOK, VerifyingOK, Kept
<1>5. AnswerOK(c)'
  BY <1>4 DEF CallOK, AnswerOK, At, Verifying
<1> QED
  BY <1>1, <1>2, <1>3, <1>5 DEF CallOK

(* A stored row stays what some call sent, paid for. *)
LEMMA RowStaysSent ==
  ASSUME TypeOK, RowsSent, Kept, NEW r \in Refs, webOrders[r] # NoRow
  PROVE  RowSent(r)'
<1>1. webOrders'[r] = webOrders[r] /\ webOrders[r].payment \in paid
  BY DEF RowsSent, RowSent, Kept
<1>2. PICK c \in Calls : SentAs(c, r)
  BY DEF RowsSent, RowSent
<1>3. call[c].payment # Nothing
  BY <1>1, <1>2, WebOrdersAssumption DEF SentAs, TypeOK
<1>4. SentAs(c, r)'
  BY <1>1, <1>2, <1>3 DEF SentAs, Kept, SendStays
<1> QED
  BY <1>1, <1>4 DEF RowSent, Kept

(* A step that only moves one call. *)
LEMMA CallStep ==
  ASSUME IInv, UNCHANGED <<numberVars, year, payOrders, paid, tableVars>>, NEW c \in Calls,
         call' \in [Calls -> CallType], \A d \in Calls : d # c => call'[d] = call[d],
         CallOK(c)', SendStays(c)
  PROVE  IInv' /\ Kept
<1>1. Kept
  BY DEF Kept, SendStays, numberVars, tableVars
<1>2. TypeOK'
  BY DEF IInv, TypeOK, Numbers!CounterTypeOK, numberVars, tableVars
<1>3. NP!MapsAgree' /\ ReplicaBehind'
  BY DEF IInv, NP!MapsAgree, ReplicaBehind, numberVars, tableVars
<1>5. RowsSent'
  BY <1>1, RowStaysSent DEF IInv, RowsSent, tableVars
<1>4. \A d \in Calls : CallOK(d)'
  BY <1>1, OthersStay DEF IInv
<1> QED
  BY <1>1, <1>2, <1>3, <1>4, <1>5 DEF IInv

(* A step that moves no call and adds no row. *)
LEMMA NoCallStep ==
  ASSUME IInv, TypeOK', NP!MapsAgree', ReplicaBehind', Kept, UNCHANGED <<payOrders, webOrders, call>>
  PROVE  IInv'
<1>1. RowsSent'
  BY RowStaysSent DEF IInv, RowsSent
<1>2. \A d \in Calls : CallOK(d)'
  BY OthersStay DEF IInv
<1> QED
  BY <1>1, <1>2 DEF IInv

-----------------------------------------------------------------------------
(* One lemma per action *)

LEMMA InitInvariant == Init => IInv
<1> SUFFICES ASSUME Init PROVE IInv
  OBVIOUS
<1>1. LastYear \in Nat /\ MaxSeq \in Nat /\ NoAttempt \notin Attempts
  BY WebOrdersAssumption
<1>2. NP!CounterTypeOK /\ NP!MapsAgree
  BY <1>1, CounterFacts, NP!InitMapsAgree DEF Init
<1>3. TypeOK
  <2>1. Blank("idle") \in CallType
    BY <1>1 DEF Blank, CallType, Steps, Years
  <2> QED
    BY <1>1, <1>2, <2>1, CounterFacts DEF Init, TypeOK, Years
<1>4. \A c \in Calls : CallOK(c)
  BY DEF Init, CallOK, OrderOK, CreatingOK, VerifyingOK, AnswerOK, At, Blank, Verifying
<1>5. ReplicaBehind /\ RowsSent
  BY DEF Init, ReplicaBehind, RowsSent
<1> QED
  BY <1>2, <1>3, <1>4, <1>5 DEF IInv

LEMMA StartCreateStep ==
  ASSUME IInv, NEW c \in Calls, StartCreate(c)
  PROVE  IInv' /\ Kept
<1>1. PICK a \in Attempts :
        call' = [call EXCEPT ![c] = [Blank("route") EXCEPT !.attempt = a]]
  BY DEF StartCreate
<1> DEFINE new == [Blank("route") EXCEPT !.attempt = a]
<1>2. "route" \in Steps
  BY DEF Steps
<1>3. new \in CallType /\ new.step = "route" /\ new.attempt = a /\ new.payment = Nothing
  BY <1>2, BlankWith DEF Blank
<1> HIDE DEF new
<1>4. /\ call' \in [Calls -> CallType] /\ call'[c] = new
      /\ \A d \in Calls : d # c => call'[d] = call[d]
  BY <1>1, <1>3 DEF IInv, TypeOK, new
<1>5. payOrders'[c] = NoRow /\ call[c].payment = Nothing
  BY DEF StartCreate, At, IInv, CallOK, OrderOK, VerifyingOK, Verifying
<1>6. CallOK(c)'
  BY <1>3, <1>4, <1>5
  DEF CallOK, OrderOK, CreatingOK, VerifyingOK, AnswerOK, At, Verifying
<1> QED
  BY <1>4, <1>5, <1>6, CallStep DEF StartCreate, SendStays

LEMMA RouteStep ==
  ASSUME IInv, NEW c \in Calls, Route(c)
  PROVE  IInv' /\ Kept
<1>0. call \in [Calls -> CallType] /\ year \in Years
  BY DEF IInv, TypeOK
<1>1. /\ call' \in [Calls -> CallType]
      /\ call'[c].step = "number" /\ call'[c].attempt = call[c].attempt
      /\ call'[c].payment = call[c].payment
      /\ \A d \in Calls : d # c => call'[d] = call[d]
  BY <1>0 DEF Route, CallType, Steps
<1>2. call[c].attempt \in Attempts /\ payOrders'[c] = NoRow /\ call[c].payment = Nothing
  BY DEF Route, At, IInv, CallOK, OrderOK, CreatingOK, VerifyingOK, Verifying
<1>3. CallOK(c)'
  BY <1>1, <1>2 DEF CallOK, OrderOK, CreatingOK, VerifyingOK, AnswerOK, At, Verifying
<1> QED
  BY <1>1, <1>2, <1>3, CallStep DEF Route, SendStays

LEMMA TakeRefStep ==
  ASSUME IInv, NEW c \in Calls, TakeRef(c)
  PROVE  IInv' /\ Kept
<1> DEFINE y == call[c].stamp
           a == call[c].attempt
           n == byAttempt'[y][a]
<1>1. /\ y \in Years /\ a \in Attempts /\ NextRef(y, a) /\ At(c, "number")
      /\ call' = [call EXCEPT ![c].step = "razorpay", ![c].ref = <<y, n>>]
      /\ UNCHANGED <<year, payOrders, paid, tableVars>>
  BY DEF TakeRef, At, IInv, TypeOK, CallType, CallOK, CreatingOK
<1>2. /\ Numbers!CounterTypeOK' /\ NP!MapsAgree' /\ n \in 1..MaxSeq
      /\ \A z \in Years, b \in Attempts :
           byAttempt[z][b] # 0 => byAttempt'[z][b] = byAttempt[z][b]
  BY <1>1, RefTaken DEF IInv, TypeOK
<1>4. <<y, n>> \in Refs
  BY <1>1, <1>2 DEF Refs
<1>5. /\ byAttempt'[y][a] = n /\ call \in [Calls -> CallType]
      /\ call[c].attempt = a /\ call[c].payment = Nothing
  BY <1>1 DEF IInv, TypeOK, At, CallOK, VerifyingOK, Verifying
<1> HIDE DEF n, y, a
<1>6. /\ call' \in [Calls -> CallType]
      /\ call'[c].step = "razorpay" /\ call'[c].attempt = a /\ call'[c].ref = <<y, n>>
      /\ call'[c].payment = Nothing
      /\ \A d \in Calls : d # c => call'[d] = call[d]
  BY <1>1, <1>4, <1>5, RefMoves
<1>3. Kept
  BY <1>1, <1>2, <1>5, <1>6 DEF Kept, SendStays, tableVars
<1>7. CallOK(c)'
  <2>1. payOrders'[c] = NoRow
    BY <1>1 DEF At, IInv, CallOK, OrderOK
  <2>2. byAttempt'[call'[c].ref[1]][call'[c].attempt] = call'[c].ref[2]
    BY <1>5, <1>6
  <2> QED
    BY <1>1, <1>4, <1>6, <2>1, <2>2
    DEF CallOK, OrderOK, CreatingOK, VerifyingOK, AnswerOK, At, Verifying, HoldsRef
<1>8. TypeOK' /\ ReplicaBehind'
  BY <1>1, <1>2, <1>6 DEF IInv, TypeOK, ReplicaBehind, tableVars
<1>9. RowsSent'
  BY <1>1, <1>3, RowStaysSent DEF IInv, RowsSent, tableVars
<1>10. \A d \in Calls : CallOK(d)'
  BY <1>1, <1>3, <1>6, <1>7, OthersStay DEF IInv
<1> QED
  BY <1>2, <1>3, <1>8, <1>9, <1>10 DEF IInv

LEMMA MakePayOrderStep ==
  ASSUME IInv, NEW c \in Calls, MakePayOrder(c)
  PROVE  IInv' /\ Kept
<1> DEFINE a == call[c].attempt
           r == call[c].ref
           o == [attempt |-> a, ref |-> r]
<1>1. /\ a \in Attempts /\ r \in Refs /\ HoldsRef(r, a) /\ payOrders[c] = NoRow
      /\ call[c].payment = Nothing
  BY DEF MakePayOrder, At, IInv, CallOK, OrderOK, CreatingOK, VerifyingOK, Verifying
<1>2. o \in PayOrderType /\ o # NoRow /\ o.attempt = a /\ o.ref = r
  BY <1>1, WebOrdersAssumption DEF PayOrderType
<1> HIDE DEF o
<1>3. /\ payOrders' = [payOrders EXCEPT ![c] = o]
      /\ UNCHANGED <<numberVars, year, paid, tableVars>>
  BY DEF MakePayOrder, o
<1>4. /\ payOrders' \in [Calls -> PayOrderType \cup {NoRow}] /\ payOrders'[c] = o
      /\ \A d \in Calls : d # c => payOrders'[d] = payOrders[d]
  BY <1>2, <1>3 DEF IInv, TypeOK
<1>6. PICK s \in {"created", "failed"} : Goto(c, s)
  BY DEF MakePayOrder
<1>7. /\ call' \in [Calls -> CallType] /\ call'[c].step = s /\ call'[c].attempt = a
      /\ call'[c].payment = Nothing
      /\ \A d \in Calls : d # c => call'[d] = call[d]
  BY <1>1, <1>6, GotoMoves DEF IInv, TypeOK, Steps
<1>5. Kept
  BY <1>1, <1>3, <1>4, <1>7 DEF Kept, SendStays, numberVars, tableVars
<1>8. byAttempt'[payOrders'[c].ref[1]][payOrders'[c].attempt] = payOrders'[c].ref[2]
  BY <1>1, <1>2, <1>3, <1>4 DEF HoldsRef, numberVars
<1>9. CallOK(c)'
  BY <1>1, <1>2, <1>4, <1>7, <1>8
  DEF CallOK, OrderOK, CreatingOK, VerifyingOK, AnswerOK, At, Verifying, HoldsRef
<1>10. TypeOK'
  BY <1>2, <1>3, <1>4, <1>5, <1>7
  DEF IInv, TypeOK, Kept, Numbers!CounterTypeOK, numberVars, tableVars
<1>11. NP!MapsAgree' /\ ReplicaBehind'
  BY <1>3 DEF IInv, NP!MapsAgree, ReplicaBehind, numberVars, tableVars
<1>12. RowsSent'
  BY <1>3, <1>5, RowStaysSent DEF IInv, RowsSent, tableVars
<1>13. \A d \in Calls : CallOK(d)'
  BY <1>4, <1>5, <1>7, <1>9, OthersStay DEF IInv
<1> QED
  BY <1>5, <1>10, <1>11, <1>12, <1>13 DEF IInv

LEMMA PayStep ==
  ASSUME IInv, NEW c \in Calls, Pay(c)
  PROVE  IInv' /\ Kept
<1>1. payOrders[c] # NoRow
  BY DEF Pay, At, IInv, CallOK, CreatingOK
<1>2. Kept
  BY DEF Pay, Kept, SendStays, numberVars, tableVars
<1>3. TypeOK'
  BY <1>1 DEF Pay, IInv, TypeOK, Numbers!CounterTypeOK, numberVars, tableVars
<1>4. NP!MapsAgree' /\ ReplicaBehind'
  BY DEF Pay, IInv, NP!MapsAgree, ReplicaBehind, numberVars, tableVars
<1> QED
  BY <1>2, <1>3, <1>4, NoCallStep DEF Pay, tableVars

LEMMA StartVerifyStep ==
  ASSUME IInv, NEW c \in Calls, StartVerify(c)
  PROVE  IInv' /\ Kept
<1>1. PICK p \in paid, r \in Refs, u \in Users :
        call' = [call EXCEPT ![c] = [Blank("read") EXCEPT !.ref = r, !.payment = p, !.user = u]]
  BY DEF StartVerify
<1> DEFINE new == [Blank("read") EXCEPT !.ref = r, !.payment = p, !.user = u]
<1>2. p \in Calls
  BY PaidOrder DEF IInv
<1>3. /\ new \in CallType /\ new.step = "read"
      /\ new.ref = r /\ new.payment = p /\ new.user = u
  BY <1>2, BlankSent DEF Blank
<1> HIDE DEF new
<1>4. /\ call' \in [Calls -> CallType] /\ call'[c] = new
      /\ \A d \in Calls : d # c => call'[d] = call[d]
  BY <1>1, <1>3 DEF IInv, TypeOK, new
<1>5. payOrders[c] = NoRow /\ call[c].payment = Nothing /\ UNCHANGED <<payOrders, paid>>
  BY DEF StartVerify, At, IInv, CallOK, OrderOK, VerifyingOK, Verifying
<1>6. CallOK(c)'
  BY <1>2, <1>3, <1>4, <1>5
  DEF CallOK, OrderOK, CreatingOK, VerifyingOK, AnswerOK, At, Verifying
<1> QED
  BY <1>4, <1>5, <1>6, CallStep DEF StartVerify, SendStays

LEMMA DieStep ==
  ASSUME IInv, NEW c \in Calls, Die(c)
  PROVE  IInv' /\ Kept
<1>1. /\ call' \in [Calls -> CallType]
      /\ call'[c].step = "failed" /\ call'[c].ref = call[c].ref
      /\ call'[c].payment = call[c].payment /\ call'[c].user = call[c].user
      /\ \A d \in Calls : d # c => call'[d] = call[d]
  BY GotoMoves DEF Die, IInv, TypeOK, Steps
<1>2. payOrders'[c] = NoRow
  BY DEF Die, At, Ended, IInv, CallOK, OrderOK
<1>3. CallOK(c)'
  BY <1>1, <1>2 DEF CallOK, OrderOK, CreatingOK, VerifyingOK, AnswerOK, At, Verifying
<1> QED
  BY <1>1, <1>3, CallStep DEF Die, SendStays

-----------------------------------------------------------------------------
(* The reads and the put of VerifyAndSave *)

LEMMA Sending ==
  ASSUME IInv, NEW c \in Calls, call[c].step \in Verifying
  PROVE  /\ call[c].payment \in paid /\ call[c].payment \in Calls
         /\ call[c].ref \in Refs /\ call[c].user \in Users
         /\ payOrders[c] = NoRow
<1>1. call[c].payment \in paid /\ call[c].ref \in Refs /\ call[c].user \in Users
  BY DEF IInv, CallOK, VerifyingOK
<1>2. call[c].payment \in Calls
  BY <1>1, PaidOrder DEF IInv
<1>3. payOrders[c] = NoRow
  BY DEF IInv, CallOK, OrderOK, Verifying
<1> QED
  BY <1>1, <1>2, <1>3

(* A row that a read shows is the stored one. *)
LEMMA ReadIsStored ==
  ASSUME IInv, NEW c \in Calls, call[c].step \in Verifying,
         NEW row \in Seen(call[c].ref), row # NoRow
  PROVE  row = webOrders[call[c].ref]
BY Sending DEF Seen, IInv, ReplicaBehind

(* A call that goes on to s, with nothing else changed, keeps the rest. *)
LEMMA ReadMoves ==
  ASSUME IInv, NEW c \in Calls, call[c].step \in Verifying, NEW s \in Steps, Goto(c, s),
         UNCHANGED <<numberVars, year, payOrders, paid, tableVars>>,
         s \in {"put", "verified", "usedRef", "otherPayment", "failed"},
         LET row == webOrders[call[c].ref]
         IN /\ s = "usedRef" => row # NoRow /\ row.user # call[c].user
            /\ s = "verified" =>
                 row # NoRow /\ row.user = call[c].user
                 /\ (call[c].lost \/ row.payment = call[c].payment)
            /\ s = "otherPayment" =>
                 row # NoRow /\ row.user = call[c].user /\ row.payment # call[c].payment
  PROVE  IInv' /\ Kept
<1>1. /\ call' \in [Calls -> CallType] /\ call'[c].step = s
      /\ call'[c].ref = call[c].ref /\ call'[c].user = call[c].user
      /\ call'[c].payment = call[c].payment /\ call'[c].lost = call[c].lost
      /\ \A d \in Calls : d # c => call'[d] = call[d]
  BY GotoMoves DEF IInv, TypeOK
<1>2. OrderOK(c)' /\ CreatingOK(c)'
  BY <1>1, Sending DEF OrderOK, CreatingOK, At
<1>3. VerifyingOK(c)'
  BY <1>1, Sending DEF VerifyingOK, At, Verifying
<1>4. AnswerOK(c)'
  BY <1>1 DEF AnswerOK, At, tableVars
<1> QED
  BY <1>1, <1>2, <1>3, <1>4, CallStep DEF CallOK, SendStays

LEMMA ReadRefStep ==
  ASSUME IInv, NEW c \in Calls, ReadRef(c)
  PROVE  IInv' /\ Kept
<1>1. call[c].step \in Verifying
  BY DEF ReadRef, At, Verifying
<1>2. PICK row \in Seen(call[c].ref) :
        Goto(c, IF row = NoRow THEN "put"
                ELSE IF row.user # call[c].user THEN "usedRef"
                ELSE IF OtherPayment(row, call[c].payment) THEN "otherPayment"
                ELSE "verified")
  BY DEF ReadRef
<1>3. UNCHANGED <<numberVars, year, payOrders, paid, tableVars>>
  BY DEF ReadRef
<1>4. row # NoRow => row = webOrders[call[c].ref]
  BY <1>1, ReadIsStored
<1>5. CASE row = NoRow
  BY <1>1, <1>2, <1>3, <1>5, ReadMoves DEF Steps
<1>6. CASE row # NoRow /\ row.user # call[c].user
  BY <1>1, <1>2, <1>3, <1>4, <1>6, ReadMoves DEF Steps
<1>7. CASE row # NoRow /\ row.user = call[c].user /\ row.payment # call[c].payment
  BY <1>1, <1>2, <1>3, <1>4, <1>7, ReadMoves DEF Steps, OtherPayment
<1>8. CASE row # NoRow /\ row.user = call[c].user /\ row.payment = call[c].payment
  BY <1>1, <1>2, <1>3, <1>4, <1>8, ReadMoves DEF Steps, OtherPayment
<1> QED
  BY <1>5, <1>6, <1>7, <1>8

LEMMA RereadRefStep ==
  ASSUME IInv, NEW c \in Calls, RereadRef(c)
  PROVE  IInv' /\ Kept
<1>1. call[c].step \in Verifying /\ call[c].lost
  BY DEF RereadRef, At, Verifying, IInv, CallOK, VerifyingOK
<1>2. PICK row \in Seen(call[c].ref) :
        Goto(c, IF row = NoRow THEN "failed"
                ELSE IF row.user # call[c].user THEN "usedRef" ELSE "verified")
  BY DEF RereadRef
<1>3. UNCHANGED <<numberVars, year, payOrders, paid, tableVars>>
  BY DEF RereadRef
<1>4. row # NoRow => row = webOrders[call[c].ref]
  BY <1>1, ReadIsStored
<1>5. CASE row = NoRow
  BY <1>1, <1>2, <1>3, <1>5, ReadMoves DEF Steps
<1>6. CASE row # NoRow /\ row.user # call[c].user
  BY <1>1, <1>2, <1>3, <1>4, <1>6, ReadMoves DEF Steps
<1>7. CASE row # NoRow /\ row.user = call[c].user
  BY <1>1, <1>2, <1>3, <1>4, <1>7, ReadMoves DEF Steps
<1> QED
  BY <1>5, <1>6, <1>7

LEMMA LosePutStep ==
  ASSUME IInv, NEW c \in Calls, LosePut(c)
  PROVE  IInv' /\ Kept
<1>1. call[c].step \in Verifying /\ webOrders[call[c].ref] # NoRow /\ Refused(c)
  BY DEF LosePut, At, Verifying, PutCondition
<1>2. /\ call' \in [Calls -> CallType]
      /\ call'[c].step = "reread" /\ call'[c].lost
      /\ call'[c].ref = call[c].ref /\ call'[c].user = call[c].user
      /\ call'[c].payment = call[c].payment
      /\ \A d \in Calls : d # c => call'[d] = call[d]
  BY <1>1, RefusedMoves DEF IInv, TypeOK
<1>3. UNCHANGED <<numberVars, year, payOrders, paid, tableVars>>
  BY DEF LosePut
<1>4. CallOK(c)'
  BY <1>1, <1>2, <1>3, Sending
  DEF CallOK, OrderOK, CreatingOK, VerifyingOK, AnswerOK, At, Verifying, tableVars
<1> QED
  BY <1>2, <1>3, <1>4, CallStep DEF SendStays

LEMMA PutIfAbsentStep ==
  ASSUME IInv, NEW c \in Calls, PutIfAbsent(c)
  PROVE  IInv' /\ Kept
<1> DEFINE r == call[c].ref
           p == call[c].payment
           row == BuildWebOrder(c)
<1>1. /\ call[c].step \in Verifying /\ webOrders[r] = NoRow
      /\ UNCHANGED <<numberVars, year, payOrders, paid, replica>>
  BY DEF PutIfAbsent, At, Verifying, PutCondition
<1>2. /\ p \in paid /\ p \in Calls /\ r \in Refs /\ call[c].user \in Users
      /\ payOrders[c] = NoRow
  BY <1>1, Sending
<1>3. /\ row \in WebOrderType /\ row # NoRow
      /\ row.user = call[c].user /\ row.payment = p
  BY <1>2, WebOrdersAssumption DEF BuildWebOrder, WebOrderType
<1>4. webOrders' = [webOrders EXCEPT ![r] = row]
  BY DEF PutIfAbsent
<1> HIDE DEF row
<1>5. /\ webOrders' \in [Refs -> WebOrderType \cup {NoRow}] /\ webOrders'[r] = row
      /\ \A s \in Refs : s # r => webOrders'[s] = webOrders[s]
  BY <1>2, <1>3, <1>4 DEF IInv, TypeOK
<1>7. /\ call' \in [Calls -> CallType]
      /\ call'[c].ref = r /\ call'[c].payment = p /\ call'[c].user = call[c].user
      /\ call'[c].step \in {"verified", "failed", "reread"}
      /\ call'[c].step = "reread" => call'[c].lost
      /\ \A d \in Calls : d # c => call'[d] = call[d]
  <2>1. call \in [Calls -> CallType]
    BY DEF IInv, TypeOK
  <2>2. ASSUME NEW s \in {"verified", "failed"}, Goto(c, s)
        PROVE  <1>7
    BY <2>1, <2>2, GotoMoves DEF Steps
  <2>3. ASSUME Refused(c) PROVE <1>7
    BY <2>1, <2>3, RefusedMoves
  <2> QED
    BY <2>2, <2>3 DEF PutIfAbsent
<1>6. Kept
  BY <1>1, <1>2, <1>5, <1>7 DEF Kept, SendStays, numberVars
<1>8. CallOK(c)'
  <2>1. OrderOK(c)' /\ CreatingOK(c)'
    BY <1>1, <1>2, <1>7 DEF OrderOK, CreatingOK, At
  <2>2. VerifyingOK(c)'
    BY <1>1, <1>2, <1>3, <1>5, <1>7 DEF VerifyingOK, At, Verifying
  <2>3. AnswerOK(c)'
    BY <1>3, <1>5, <1>7 DEF AnswerOK, At
  <2> QED
    BY <2>1, <2>2, <2>3 DEF CallOK
<1>9. TypeOK'
  BY <1>1, <1>5, <1>7 DEF IInv, TypeOK, Numbers!CounterTypeOK, numberVars
<1>10. NP!MapsAgree'
  BY <1>1 DEF IInv, NP!MapsAgree, numberVars
<1>11. ReplicaBehind'
  BY <1>1, <1>5 DEF IInv, ReplicaBehind
<1>12. RowsSent'
  <2> SUFFICES ASSUME NEW s \in Refs, webOrders'[s] # NoRow PROVE RowSent(s)'
    BY DEF RowsSent
  <2>1. CASE s = r
    BY <1>1, <1>2, <1>3, <1>5, <1>7, <2>1 DEF RowSent, SentAs
  <2>2. CASE s # r
    BY <1>5, <1>6, <2>2, RowStaysSent DEF IInv
  <2> QED
    BY <2>1, <2>2
<1>13. \A d \in Calls : CallOK(d)'
  BY <1>1, <1>6, <1>7, <1>8, OthersStay DEF IInv
<1> QED
  BY <1>6, <1>9, <1>10, <1>11, <1>12, <1>13 DEF IInv

-----------------------------------------------------------------------------
(* The invariant, and what follows from it *)

LEMMA NextStep ==
  ASSUME IInv, [Next]_vars
  PROVE  IInv' /\ Kept
<1>1. ASSUME UNCHANGED <<numberVars, payOrders, paid, webOrders, call>>,
             year' \in Years, replica' \in {replica, webOrders}
      PROVE  IInv' /\ Kept
  <2>1. Kept
    BY <1>1 DEF Kept, SendStays, numberVars
  <2>2. TypeOK' /\ NP!MapsAgree' /\ ReplicaBehind'
    BY <1>1 DEF IInv, TypeOK, NP!MapsAgree, ReplicaBehind, Numbers!CounterTypeOK, numberVars
  <2> QED
    BY <1>1, <2>1, <2>2, NoCallStep
<1>2. ASSUME NewYear PROVE IInv' /\ Kept
  <2>1. year' \in Years
    BY <1>2, WebOrdersAssumption DEF NewYear, IInv, TypeOK, Years
  <2> QED
    BY <1>1, <1>2, <2>1 DEF NewYear, tableVars
<1>3. ASSUME CatchUp PROVE IInv' /\ Kept
  BY <1>1, <1>3 DEF CatchUp, IInv, TypeOK
<1>4. ASSUME UNCHANGED vars PROVE IInv' /\ Kept
  BY <1>1, <1>4 DEF vars, tableVars, IInv, TypeOK
<1>5. CASE NewYear \/ CatchUp \/ AllEnded \/ UNCHANGED vars
  BY <1>2, <1>3, <1>4, <1>5 DEF AllEnded
<1>6. ASSUME NEW c \in Calls,
             \/ StartCreate(c) \/ Route(c) \/ TakeRef(c) \/ MakePayOrder(c) \/ Pay(c)
             \/ StartVerify(c) \/ ReadRef(c) \/ PutIfAbsent(c) \/ LosePut(c) \/ RereadRef(c)
             \/ Die(c)
      PROVE  IInv' /\ Kept
  BY <1>6, StartCreateStep, RouteStep, TakeRefStep, MakePayOrderStep, PayStep, StartVerifyStep,
     ReadRefStep, PutIfAbsentStep, LosePutStep, RereadRefStep, DieStep
<1> QED
  BY <1>5, <1>6 DEF Next

LEMMA InvariantHolds == Spec => []IInv
BY InitInvariant, NextStep, PTL DEF Spec

(* Every row, number and call keeps its type, whatever is retried or lost. *)
THEOREM WebOrdersTypeOK == Spec => []TypeOK
BY InvariantHolds, PTL DEF IInv

(* What follows when no call mixed up its ref, customer and payment: the   *)
(* payment of a stored order was made for it, by the attempt that holds    *)
(* its ref.                                                                *)
LEMMA StoredOrder ==
  ASSUME IInv, NEW r \in Refs, webOrders[r] # NoRow,
         \A c \in Calls : Mixed(c) => call[c].ref # r
  PROVE  LET p == webOrders[r].payment
             a == payOrders[p].attempt
         IN  /\ Belongs(r, webOrders[r].user, p)
             /\ a \in Attempts /\ HoldsRef(r, a)
<1> DEFINE p == webOrders[r].payment
<1>1. p \in paid
  BY DEF IInv, RowsSent, RowSent
<1>2. p \in Calls /\ payOrders[p] # NoRow /\ payOrders[p].attempt \in Attempts /\ p # Nothing
  BY <1>1, PaidOrder, WebOrdersAssumption DEF IInv
<1>3. PICK c \in Calls : SentAs(c, r)
  BY DEF IInv, RowsSent, RowSent
<1>4. Belongs(r, webOrders[r].user, p)
  BY <1>2, <1>3 DEF SentAs, Mixed
<1>5. HoldsRef(r, payOrders[p].attempt)
  BY <1>2, <1>4 DEF Belongs, IInv, CallOK, OrderOK
<1> QED
  BY <1>2, <1>4, <1>5

(* A stored order was paid for, by a payment made for this very ref and    *)
(* customer unless the call that stored it mixed them up.                  *)
THEOREM WebOrdersPaidForThis == Spec => []PaidForThis
<1>1. ASSUME IInv, NEW r \in Refs, webOrders[r] # NoRow
      PROVE  /\ webOrders[r].payment \in paid
             /\ \/ Belongs(r, webOrders[r].user, webOrders[r].payment)
                \/ \E c \in Calls : Mixed(c) /\ SentAs(c, r)
  <2>1. webOrders[r].payment \in paid
    BY <1>1 DEF IInv, RowsSent, RowSent
  <2>2. webOrders[r].payment # Nothing
    BY <1>1, <2>1, PaidOrder, WebOrdersAssumption DEF IInv
  <2>3. PICK c \in Calls : SentAs(c, r)
    BY <1>1 DEF IInv, RowsSent, RowSent
  <2>4. Belongs(r, webOrders[r].user, webOrders[r].payment) \/ Mixed(c)
    BY <2>2, <2>3 DEF SentAs, Mixed
  <2> QED
    BY <2>1, <2>3, <2>4
<1>2. IInv => PaidForThis
  BY <1>1 DEF PaidForThis
<1> QED
  BY <1>2, InvariantHolds, PTL

(* "order_ref already used" is only ever said of a ref that some call      *)
(* named with a payment not made for it.                                   *)
THEOREM WebOrdersUsedRefMeansMixed == Spec => []UsedRefMeansMixed
<1>1. ASSUME IInv, NEW c \in Calls, At(c, "usedRef"),
             \A d \in Calls : Mixed(d) => call[d].ref # call[c].ref
      PROVE  FALSE
  <2> DEFINE r == call[c].ref
             p == call[c].payment
             q == webOrders[r].payment
  <2>1. p \in paid /\ p \in Calls /\ r \in Refs
    BY <1>1, Sending DEF At, Verifying
  <2>2. webOrders[r] # NoRow /\ webOrders[r].user # call[c].user
    BY <1>1 DEF IInv, CallOK, AnswerOK
  <2>3. /\ Belongs(r, webOrders[r].user, q)
        /\ payOrders[q].attempt \in Attempts /\ HoldsRef(r, payOrders[q].attempt)
    BY <1>1, <2>1, <2>2, StoredOrder
  <2>4. Belongs(r, call[c].user, p)
    BY <1>1, <2>1, WebOrdersAssumption DEF Mixed
  <2>5. payOrders[p].attempt \in Attempts /\ HoldsRef(r, payOrders[p].attempt)
    BY <1>1, <2>1, <2>4, PaidOrder DEF Belongs, IInv, CallOK, OrderOK
  <2>6. payOrders[p].attempt = payOrders[q].attempt
    BY <1>1, <2>1, <2>3, <2>5, RefsDiffer DEF IInv
  <2> QED
    BY <2>2, <2>3, <2>4, <2>6 DEF Belongs
<1>2. IInv => UsedRefMeansMixed
  BY <1>1 DEF UsedRefMeansMixed
<1> QED
  BY <1>2, InvariantHolds, PTL

(* What VerifyAndSave answers is so in every later state, whatever clients *)
(* send.                                                                   *)
THEOREM WebOrdersAnswersAreTrue == Spec => []AnswersAreTrue
<1>1. ASSUME IInv, NEW c \in Calls, At(c, "otherPayment")
      PROVE  webOrders[call[c].ref].payment \in paid
  <2>1. call[c].ref \in Refs /\ webOrders[call[c].ref] # NoRow
    BY <1>1, Sending DEF At, Verifying, IInv, CallOK, AnswerOK
  <2> QED
    BY <1>1, <2>1 DEF IInv, RowsSent, RowSent
<1>2. IInv => AnswersAreTrue
  BY <1>1 DEF IInv, CallOK, AnswerOK, AnswersAreTrue, At
<1> QED
  BY <1>2, InvariantHolds, PTL

(* Within a year an attempt, however often created and paid, has one order *)
(* unless a call named one of the two refs with a payment not made for it. *)
THEOREM WebOrdersOneOrderPerAttempt == Spec => []OneOrderPerAttempt
<1>1. IInv => OneOrderPerAttempt
  BY StoredOrder, RefsDiffer DEF IInv, OneOrderPerAttempt
<1> QED
  BY <1>1, InvariantHolds, PTL

(* A ref is handed to one attempt only, and the refs of a year are gapless. *)
THEOREM WebOrdersRefsAgree == Spec => []Numbers!MapsAgree
<1>1. NP!MapsAgree => Numbers!MapsAgree
  BY DEF NP!MapsAgree, Numbers!MapsAgree, NP!Years, Numbers!Years, NP!Sequences, Numbers!Sequences
<1> QED
  BY <1>1, InvariantHolds, PTL DEF IInv

(* Nothing replaces or removes an order once stored.                       *)
THEOREM WebOrdersStoredStays == Spec => StoredStays
<1>1. IInv /\ [Next]_vars =>
        [\A r \in Refs : webOrders[r] # NoRow => webOrders'[r] = webOrders[r]]_webOrders
  BY NextStep DEF Kept
<1> QED
  BY <1>1, InvariantHolds, PTL DEF Spec, StoredStays

=============================================================================
