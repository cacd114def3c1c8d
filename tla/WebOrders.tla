------------------------------ MODULE WebOrders ------------------------------
(***************************************************************************)
(* A web checkout: POST web/payments/razorpay/order                        *)
(* (RazorpayService.CreateOrder), the customer pays, and                   *)
(* POST web/payments/razorpay/verify (WebOrderService.VerifyAndSave),      *)
(* api/weborders.  Each call is one Lambda invocation; calls interleave at *)
(* every request they make, may die there, and clients repeat them with    *)
(* the same checkout attempt or the same payment.                          *)
(*                                                                         *)
(* The web order number worker                                             *)
(* (tangify-web-order-number-generator/src/index.ts) is the counter of     *)
(* InvoiceCounter with attempts for bills; a ref TGFY-W-<year>-<sequence>  *)
(* is the pair <<year, sequence>>.  Razorpay is external: it makes an      *)
(* order for every request and signs one payment for each.  The signature  *)
(* binds a payment to its Razorpay order, and that is all that is checked: *)
(* the ref of a verification is the client's word and its customer whoever *)
(* is signed in, so here they are any.  Amounts, lines and addresses are   *)
(* stored as sent and left out.                                            *)
(***************************************************************************)
EXTENDS Integers, FiniteSets

CONSTANTS
  Calls,       \* the Lambda invocations
  Attempts,    \* checkout attempts: stable keys the clients choose
  Users,       \* customers
  UserOf,      \* UserOf[a]: the customer who checks out and pays in attempt a
  LastYear,    \* bound: the calendar is followed for the years 0..LastYear
  MaxSeq,      \* bound: the largest sequence number a year hands out
  NoAttempt,   \* a ref nobody holds
  NoRow,       \* the web orders table has no such row
  Nothing      \* a call knows no ref, no payment or no customer

VARIABLES
  counter, byAttempt, byRef,  \* the number worker's storage
  year,      \* the worker's UTC year
  payOrders, \* payOrders[c]: the order Razorpay made for call c
  paid,      \* the Razorpay orders their customers paid
  webOrders, \* the web orders table
  replica,   \* ... as a lagging read may still see it
  call       \* call[c]: what invocation c does and holds in memory

numberVars == <<counter, byAttempt, byRef>>
tableVars == <<webOrders, replica>>
vars == <<numberVars, year, payOrders, paid, tableVars, call>>

Numbers == INSTANCE InvoiceCounter
  WITH Keys <- Attempts, NoKey <- NoAttempt, byBill <- byAttempt, byInvoice <- byRef

Years == 0..LastYear
Refs == Years \X (1..MaxSeq)

(* A Razorpay order is named after the call that had it made, and so is    *)
(* the one payment it takes.                                               *)
PayOrderType == [attempt : Attempts, ref : Refs]
WebOrderType == [user : Users, payment : Calls]

Steps == {"idle", "route", "number", "razorpay", "created",
          "read", "put", "reread", "verified", "usedRef", "otherPayment", "failed"}
Ended == {"created", "verified", "usedRef", "otherPayment", "failed"}

CallType ==
  [step : Steps, attempt : Attempts \cup {NoAttempt}, stamp : Years,
   ref : Refs \cup {Nothing}, payment : Calls \cup {Nothing},
   user : Users \cup {Nothing}, lost : BOOLEAN]

ASSUME WebOrdersAssumption ==
  /\ UserOf \in [Attempts -> Users]
  /\ LastYear \in Nat
  /\ MaxSeq \in Nat
  /\ NoAttempt \notin Attempts
  /\ NoRow \notin WebOrderType \cup PayOrderType
  /\ Nothing \notin Refs \cup Calls \cup Users

TypeOK ==
  /\ Numbers!CounterTypeOK
  /\ year \in Years
  /\ payOrders \in [Calls -> PayOrderType \cup {NoRow}]
  /\ paid \subseteq {p \in Calls : payOrders[p] # NoRow}
  /\ webOrders \in [Refs -> WebOrderType \cup {NoRow}]
  /\ replica \in [Refs -> WebOrderType \cup {NoRow}]
  /\ call \in [Calls -> CallType]

-----------------------------------------------------------------------------

Blank(step) ==
  [step |-> step, attempt |-> NoAttempt, stamp |-> 0, ref |-> Nothing,
   payment |-> Nothing, user |-> Nothing, lost |-> FALSE]

At(c, step) == call[c].step = step
Goto(c, step) == call' = [call EXCEPT ![c].step = step]

Init ==
  /\ Numbers!CounterInit
  /\ year = 0
  /\ payOrders = [c \in Calls |-> NoRow]
  /\ paid = {}
  /\ webOrders = [r \in Refs |-> NoRow]
  /\ replica = webOrders
  /\ call = [c \in Calls |-> Blank("idle")]

-----------------------------------------------------------------------------
(* CreateOrder *)

StartCreate(c) ==
  /\ At(c, "idle")
  /\ \E a \in Attempts :
       call' = [call EXCEPT ![c] = [Blank("route") EXCEPT !.attempt = a]]
  /\ UNCHANGED <<numberVars, year, payOrders, paid, tableVars>>

(* FetchWebOrderNumber: the worker reads the year, its object answers *)
Route(c) ==
  /\ At(c, "route")
  /\ call' = [call EXCEPT ![c].step = "number", ![c].stamp = year]
  /\ UNCHANGED <<numberVars, year, payOrders, paid, tableVars>>

(* The object's transaction, and two slips: the attempt not looked up, the *)
(* counter not written back                                                *)
NextRef_fresh(y, a) ==
  /\ counter[y] < MaxSeq
  /\ counter' = [counter EXCEPT ![y] = @ + 1]
  /\ byAttempt' = [byAttempt EXCEPT ![y][a] = counter[y] + 1]
  /\ byRef' = [byRef EXCEPT ![y][counter[y] + 1] = a]

NextRef_uncounted(y, a) ==
  /\ counter[y] < MaxSeq
  /\ byAttempt' = [byAttempt EXCEPT ![y][a] = counter[y] + 1]
  /\ byRef' = [byRef EXCEPT ![y][counter[y] + 1] = a]
  /\ UNCHANGED counter

NextRef(y, a) == Numbers!NextInvoice(y, a)

TakeRef(c) ==
  /\ At(c, "number")
  /\ LET y == call[c].stamp
         a == call[c].attempt
     IN /\ NextRef(y, a)
        /\ call' = [call EXCEPT ![c].step = "razorpay", ![c].ref = <<y, byAttempt'[y][a]>>]
  /\ UNCHANGED <<year, payOrders, paid, tableVars>>

(* The request to Razorpay, which makes an order also when the reply is    *)
(* lost or the same ref was sent before                                    *)
MakePayOrder(c) ==
  /\ At(c, "razorpay")
  /\ payOrders' = [payOrders EXCEPT ![c] = [attempt |-> call[c].attempt, ref |-> call[c].ref]]
  /\ Goto(c, "created") \/ Goto(c, "failed")
  /\ UNCHANGED <<numberVars, year, paid, tableVars>>

-----------------------------------------------------------------------------
(* Razorpay's checkout: a customer pays an order the client was told of *)
Pay(c) ==
  /\ At(c, "created")
  /\ c \notin paid
  /\ paid' = paid \cup {c}
  /\ UNCHANGED <<numberVars, year, payOrders, tableVars, call>>

-----------------------------------------------------------------------------
(* VerifyAndSave *)

(* A client sends a payment that was made, once or again, with the ref it  *)
(* says it is for: VerifyPayment compares order, payment and signature.    *)
StartVerify(c) ==
  /\ At(c, "idle")
  /\ \E p \in paid, r \in Refs, u \in Users :
       call' = [call EXCEPT ![c] = [Blank("read") EXCEPT
                  !.ref = r, !.payment = p, !.user = u]]
  /\ UNCHANGED <<numberVars, year, payOrders, paid, tableVars>>

Seen(ref) == {webOrders[ref], replica[ref]}

(* A stored order paid by another payment, and a slip of not comparing *)
OtherPayment_any(row, payment) == TRUE
OtherPayment(row, payment) == row.payment # payment

(* The first GetByRef *)
ReadRef(c) ==
  /\ At(c, "read")
  /\ \E row \in Seen(call[c].ref) :
       Goto(c, IF row = NoRow THEN "put"
               ELSE IF row.user # call[c].user THEN "usedRef"
               ELSE IF OtherPayment(row, call[c].payment) THEN "otherPayment"
               ELSE "verified")
  /\ UNCHANGED <<numberVars, year, payOrders, paid, tableVars>>

(* attribute_not_exists(order_ref) *)
PutCondition_none(ref) == TRUE
PutCondition(ref) == webOrders[ref] = NoRow

(* BuildWebOrder, and a slip of mixing up the strings it is given *)
BuildWebOrder_swapped(c) == [user |-> call[c].user, payment |-> call[c].ref]
BuildWebOrder(c) == [user |-> call[c].user, payment |-> call[c].payment]

Refused(c) == call' = [call EXCEPT ![c].step = "reread", ![c].lost = TRUE]

(* PutIfAbsent.  Its reply may be lost: then the call fails, or the client *)
(* library tries again and finds its own row.                              *)
PutIfAbsent(c) ==
  /\ At(c, "put")
  /\ PutCondition(call[c].ref)
  /\ webOrders' = [webOrders EXCEPT ![call[c].ref] = BuildWebOrder(c)]
  /\ Goto(c, "verified") \/ Goto(c, "failed") \/ Refused(c)
  /\ UNCHANGED <<numberVars, year, payOrders, paid, replica>>

LosePut(c) ==
  /\ At(c, "put")
  /\ ~PutCondition(call[c].ref)
  /\ Refused(c)
  /\ UNCHANGED <<numberVars, year, payOrders, paid, tableVars>>

(* The second GetByRef: the payment is not compared again *)
RereadRef(c) ==
  /\ At(c, "reread")
  /\ \E row \in Seen(call[c].ref) :
       Goto(c, IF row = NoRow THEN "failed"
               ELSE IF row.user # call[c].user THEN "usedRef" ELSE "verified")
  /\ UNCHANGED <<numberVars, year, payOrders, paid, tableVars>>

-----------------------------------------------------------------------------

(* The Lambda is killed, or a request it makes fails without effect *)
Die(c) ==
  /\ call[c].step \notin Ended \cup {"idle"}
  /\ Goto(c, "failed")
  /\ UNCHANGED <<numberVars, year, payOrders, paid, tableVars>>

NewYear ==
  /\ year < LastYear
  /\ year' = year + 1
  /\ UNCHANGED <<numberVars, payOrders, paid, tableVars, call>>

CatchUp ==
  /\ replica # webOrders
  /\ replica' = webOrders
  /\ UNCHANGED <<numberVars, year, payOrders, paid, webOrders, call>>

AllEnded ==
  /\ \A c \in Calls : call[c].step \in Ended
  /\ UNCHANGED vars

Next ==
  \/ \E c \in Calls :
       \/ StartCreate(c) \/ Route(c) \/ TakeRef(c) \/ MakePayOrder(c)
       \/ Pay(c)
       \/ StartVerify(c) \/ ReadRef(c) \/ PutIfAbsent(c) \/ LosePut(c) \/ RereadRef(c)
       \/ Die(c)
  \/ NewYear
  \/ CatchUp
  \/ AllEnded

Spec == Init /\ [][Next]_vars

-----------------------------------------------------------------------------
(* Properties *)

(* The ref and the customer of a verification are those its payment was    *)
(* made for, or its client mixed them up: two checkouts open at once,      *)
(* another account signed in meanwhile.  The code cannot tell.             *)
Belongs(ref, user, payment) ==
  payOrders[payment].ref = ref /\ UserOf[payOrders[payment].attempt] = user
Mixed(c) ==
  call[c].payment # Nothing /\ ~Belongs(call[c].ref, call[c].user, call[c].payment)
SentAs(c, r) ==
  /\ call[c].ref = r /\ call[c].payment = webOrders[r].payment
  /\ call[c].user = webOrders[r].user

(* The payment of a stored order was made, whatever clients send; it was   *)
(* made for this very ref by this very customer, unless the one call that  *)
(* sent these three together mixed them up.                                *)
PaidForThis ==
  \A r \in Refs : webOrders[r] # NoRow =>
    /\ webOrders[r].payment \in paid
    /\ \/ Belongs(r, webOrders[r].user, webOrders[r].payment)
       \/ \E c \in Calls : Mixed(c) /\ SentAs(c, r)

(* "order_ref already used" (web_order_service.go:46, :74) tells a customer*)
(* that the ref is somebody else's.  That is never the numbering's doing:  *)
(* through retries, lost replies and turns of the year it is said only of  *)
(* a ref that some verification named with a payment not made for it.      *)
UsedRefMeansMixed ==
  \A c \in Calls : At(c, "usedRef") => \E d \in Calls : Mixed(d) /\ call[d].ref = call[c].ref

(* Within a year the payments of one checkout attempt lead to one order,   *)
(* however often its payment order is created or paid again, unless one of *)
(* the two refs was named with a payment not made for it.                  *)
OneOrderPerAttempt ==
  \A r, s \in Refs :
    (/\ webOrders[r] # NoRow /\ webOrders[s] # NoRow /\ r[1] = s[1]
     /\ payOrders[webOrders[r].payment].attempt = payOrders[webOrders[s].payment].attempt)
    => r = s \/ \E c \in Calls : Mixed(c) /\ call[c].ref \in {r, s}

(* Once stored, an order stays as it was: no retry, no second payment and  *)
(* no put that raced with it replaces the payment on record.               *)
StoredStays ==
  [][\A r \in Refs : webOrders[r] # NoRow => webOrders'[r] = webOrders[r]]_webOrders

(* Whatever clients send: who is told "verified" has an order on record    *)
(* under the ref it named, and it is the payment it sent, unless it lost   *)
(* the race to store it; who is told "already paid with a different        *)
(* payment" has an order there too, by another payment, which was made.    *)
AnswersAreTrue ==
  \A c \in Calls : At(c, "verified") \/ At(c, "otherPayment") =>
    LET row == webOrders[call[c].ref]
    IN /\ row # NoRow /\ row.user = call[c].user
       /\ At(c, "verified") => call[c].lost \/ row.payment = call[c].payment
       /\ At(c, "otherPayment") => row.payment # call[c].payment /\ row.payment \in paid

=============================================================================
