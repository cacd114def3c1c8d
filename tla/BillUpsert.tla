----------------------------- MODULE BillUpsert -----------------------------
(***************************************************************************)
(* PUT /billing/bills/with-line-items: BillWithLineItemsService.Upsert     *)
(* (api/billing/bill_with_line_items_service.go) and what it writes.  Each *)
(* call is one Lambda invocation; calls interleave at every storage or     *)
(* HTTP request they make.  A call may die, or get an error from storage,  *)
(* between any two of its steps; a retry is another call with the same     *)
(* request.                                                                *)
(*                                                                         *)
(* Storage: the bills table (conditional and plain puts), its state-key    *)
(* index (eventually consistent), the points wallets (read from a replica  *)
(* that may lag) and the invoice numbers of InvoiceCounter.                *)
(***************************************************************************)
EXTENDS InvoiceCounter, BillAmounts

CONSTANTS
  Calls,           \* the Lambda invocations
  Users,           \* loyalty customers, one phone number each
  Nobody,          \* no loyalty customer on the request
  Requests,        \* the bodies clients send, see RequestType
  InitialWallet,   \* the wallet rows before the first call
  NoBill,          \* no row in the bills table
  NoWallet,        \* no row in the wallet table
  NoId             \* no bill id: in a request (create), in an answer (failure)

VARIABLES
  bills,    \* bills[id]: the row under invoice number id
  indexed,  \* the ids the state-key index shows
  wallet,   \* wallet[u]: the row of the wallet table
  replica,  \* replica[u]: what a read of that row may still return
  year,     \* the worker's UTC year
  pc,       \* pc[c]: the next step of call c
  req,      \* req[c]: its request
  target,   \* target[c]: the bill it writes, NoId while unknown
  stamp,    \* stamp[c]: the year its invoice request was routed to
  draft,    \* draft[c]: the row it is about to write
  answer,   \* answer[c]: the bill it returned
  payer,    \* history: whose wallet paid for bill id, Nobody before its create
  earner    \* history: whose wallet got the last award of bill id

storeVars == <<bills, indexed, wallet, replica, payer, earner>>
callVars == <<pc, req, target, stamp, draft, answer>>
vars == <<counterVars, storeVars, year, callVars>>

Ids == Years \X Sequences

(* state_key and id; customer_id, whom the bill names; loyalty_customer_id, *)
(* whose points move, and whether it is a phone number; amounts             *)
RequestType ==
  {r \in [key : Keys, id : Ids \cup {NoId},
          customer : Users \cup {Nobody}, user : Users \cup {Nobody}, byPhone : BOOLEAN,
          subtotal : Nat, points : Nat, other : Int, stacked : BOOLEAN, settled : BOOLEAN] :
     r.other > 0 => r.stacked}

BillType ==
  [key : Keys, customer : Users \cup {Nobody}, points : Nat, redeemed : Nat, earned : Nat,
   settled : BOOLEAN, processed : BOOLEAN]

WalletType == [balance : Nat, earned : Nat, redeemed : Nat]

(* All a wallet ever earned was redeemed or is left. *)
Balanced(w) == w.balance + w.redeemed = w.earned

ASSUME UpsertAssumption ==
  /\ Nobody \notin Users
  /\ Requests \subseteq RequestType
  /\ NoBill \notin BillType
  /\ NoWallet \notin WalletType
  /\ InitialWallet \in [Users -> WalletType \cup {NoWallet}]
  /\ \A u \in Users : InitialWallet[u] # NoWallet => Balanced(InitialWallet[u])
  /\ NoId \notin Ids

Steps == {"idle", "queryKey", "resolve", "putWallet", "route", "number", "create",
          "recheck", "readBill", "settle", "recheckSettled", "put", "done", "failed"}

Ended == {"done", "failed"}

TypeOK ==
  /\ CounterTypeOK
  /\ bills \in [Ids -> BillType \cup {NoBill}]
  /\ indexed \subseteq Ids
  /\ wallet \in [Users -> WalletType \cup {NoWallet}]
  /\ replica \in [Users -> WalletType \cup {NoWallet}]
  /\ year \in Years
  /\ pc \in [Calls -> Steps]
  /\ req \in [Calls -> Requests]
  /\ target \in [Calls -> Ids \cup {NoId}]
  /\ stamp \in [Calls -> Years]
  /\ draft \in [Calls -> BillType]
  /\ answer \in [Calls -> Ids \cup {NoId}]
  /\ payer \in [Ids -> Users \cup {Nobody}]
  /\ earner \in [Ids -> Users \cup {Nobody}]

-----------------------------------------------------------------------------
(* Rows *)

EmptyWallet == [balance |-> 0, earned |-> 0, redeemed |-> 0]

EmptyBill(k) ==
  [key |-> k, customer |-> Nobody, points |-> 0, redeemed |-> 0, earned |-> 0,
   settled |-> FALSE, processed |-> FALSE]

BalanceOf(w) == IF w = NoWallet THEN 0 ELSE w.balance

Linked(r) == r.user # Nobody

(* The first that is given *)
OrElse(a, b) == IF a # Nobody THEN a ELSE b

(* create: the row written for request r when the wallet read holds balance *)
NewBill(r, balance) ==
  LET redeemed == RedeemedPoints(r.subtotal, r.points, r.other, balance)
      points == redeemed * PaisePerPoint
      settles == r.settled /\ Linked(r)
  IN [key |-> r.key,
      customer |-> OrElse(r.customer, r.user),
      points |-> points,
      redeemed |-> redeemed,
      earned |-> IF settles
                   THEN EarnedPoints(r.subtotal, CapDiscount(r.other + points, r.subtotal))
                   ELSE 0,
      settled |-> settles,
      processed |-> settles]

ShouldEarn(r, old) == r.settled /\ ~old.processed /\ Linked(r)

(* A slip: the row rebuilt from the request alone *)
UpdatedBill_rebuilt(r, old) == [NewBill(r, 0) EXCEPT !.key = old.key]

(* update: the points discount, and unless this update settles the loyalty *)
(* fields, are those of the row read; the rest comes from the request.  A  *)
(* customer it names replaces the one the bill had.                        *)
UpdatedBill(r, old) ==
  [old EXCEPT
     !.customer = OrElse(r.customer, OrElse(@, r.user)),
     !.settled = @ \/ r.settled,
     !.processed = @ \/ ShouldEarn(r, old),
     !.earned = IF ShouldEarn(r, old)
                  THEN EarnedPoints(r.subtotal, CapDiscount(old.points + r.other, r.subtotal))
                  ELSE @]

(* walletPointsUpdateValues, and its slip of forgetting the lifetime total *)
MovePoints_noLifetime(w, redeem, earn) ==
  [w EXCEPT !.balance = (@ + earn) - redeem, !.earned = @ + earn]

MovePoints(w, redeem, earn) ==
  [w EXCEPT !.balance = (@ + earn) - redeem,
            !.earned = @ + earn,
            !.redeemed = @ + redeem]

(* The condition on the wallet item of TransactWrite; without points to    *)
(* move there is no wallet item.                                           *)
WalletCondition_noFloor(u, redeem, earn) ==
  (redeem > 0 \/ earn > 0) => wallet[u] # NoWallet

WalletCondition(u, redeem, earn) ==
  (redeem > 0 \/ earn > 0) =>
     wallet[u] # NoWallet /\ (redeem > 0 => wallet[u].balance >= redeem)

(* The condition on the bill item: attribute_not_exists(id) *)
CreateCondition_none(id) == TRUE
CreateCondition(id) == bills[id] = NoBill

(* attribute_not_exists(loyalty_points_processed) *)
SettleCondition_none(id) == TRUE
SettleCondition(id) == bills[id] # NoBill => ~bills[id].processed

(* The wallet half of a TransactWrite that commits *)
PayPoints(u, redeem, earn) ==
  wallet' = IF redeem > 0 \/ earn > 0
              THEN [wallet EXCEPT ![u] = MovePoints(@, redeem, earn)]
              ELSE wallet

-----------------------------------------------------------------------------
(* A call's bookkeeping *)

At(c, step) == pc[c] = step

Goto(c, step) == pc' = [pc EXCEPT ![c] = step]

Answer(c, id) ==
  /\ Goto(c, "done")
  /\ answer' = [answer EXCEPT ![c] = id]

Init ==
  /\ CounterInit
  /\ bills = [id \in Ids |-> NoBill]
  /\ indexed = {}
  /\ wallet = InitialWallet
  /\ replica = InitialWallet
  /\ year = 0
  /\ pc = [c \in Calls |-> "idle"]
  /\ req \in [Calls -> Requests]
  /\ target = [c \in Calls |-> NoId]
  /\ stamp = [c \in Calls |-> 0]
  /\ draft = [c \in Calls |-> EmptyBill(req[c].key)]
  /\ answer = [c \in Calls |-> NoId]
  /\ payer = [id \in Ids |-> Nobody]
  /\ earner = [id \in Ids |-> Nobody]

(* Upsert: an id means update, otherwise create *)
Start(c) ==
  /\ At(c, "idle")
  /\ Goto(c, IF req[c].id = NoId THEN "queryKey" ELSE "readBill")
  /\ target' = [target EXCEPT ![c] = req[c].id]
  /\ UNCHANGED <<counterVars, storeVars, year, req, stamp, draft, answer>>

(* create: GetByStateKey on the index; a bill it shows is the answer *)
FoundByKey(c) ==
  /\ At(c, "queryKey")
  /\ \E id \in indexed : bills[id].key = req[c].key /\ Answer(c, id)
  /\ UNCHANGED <<counterVars, storeVars, year, req, target, stamp, draft>>

NotFoundByKey(c) ==
  /\ At(c, "queryKey")
  /\ \A id \in indexed : bills[id].key # req[c].key
  /\ Goto(c, "resolve")
  /\ UNCHANGED <<counterVars, storeVars, year, req, target, stamp, draft, answer>>

(* create, with the balance resolveCustomer returned: computeBillTotals,   *)
(* then on to the invoice number, or out with its error                    *)
Price(c, balance) ==
  /\ Goto(c, IF PointsRefused(req[c].points, req[c].stacked, Linked(req[c]))
               THEN "failed" ELSE "route")
  /\ draft' = [draft EXCEPT ![c] = NewBill(req[c], balance)]

(* resolveCustomer without a linked customer reads nothing *)
ResolveNobody(c) ==
  /\ At(c, "resolve")
  /\ ~Linked(req[c])
  /\ Price(c, 0)
  /\ UNCHANGED <<counterVars, storeVars, year, req, target, stamp, answer>>

(* resolveCustomer reads the wallet, either copy.  A phone number whose    *)
(* wallet is not seen gets one written.                                    *)
ReadWallet(c) ==
  /\ At(c, "resolve")
  /\ Linked(req[c])
  /\ \E seen \in {wallet[req[c].user], replica[req[c].user]} :
       IF seen = NoWallet /\ req[c].byPhone
         THEN Goto(c, "putWallet") /\ UNCHANGED draft
         ELSE IF target[c] = NoId
           THEN Price(c, BalanceOf(seen))
           ELSE Goto(c, "settle") /\ UNCHANGED draft
  /\ UNCHANGED <<counterVars, storeVars, year, req, target, stamp, answer>>

(* GetOrCreateByPhone's PutWallet: unconditional, all zero *)
PutEmptyWallet(c) ==
  /\ At(c, "putWallet")
  /\ wallet' = [wallet EXCEPT ![req[c].user] = EmptyWallet]
  /\ IF target[c] = NoId THEN Price(c, 0) ELSE Goto(c, "settle") /\ UNCHANGED draft
  /\ UNCHANGED <<counterVars, bills, indexed, replica, payer, earner,
                 year, req, target, stamp, answer>>

(* FetchInvoiceNumber: the worker reads the year, its object answers *)
RouteInvoice(c) ==
  /\ At(c, "route")
  /\ stamp' = [stamp EXCEPT ![c] = year]
  /\ Goto(c, "number")
  /\ UNCHANGED <<counterVars, storeVars, year, req, target, draft, answer>>

TakeNumber(c) ==
  /\ At(c, "number")
  /\ NextInvoice(stamp[c], req[c].key)
  /\ target' = [target EXCEPT ![c] = <<stamp[c], byBill'[stamp[c]][req[c].key]>>]
  /\ Goto(c, "create")
  /\ UNCHANGED <<storeVars, year, req, stamp, draft, answer>>

(* TransactWrite(create): bill and wallet together.  The reply may be lost, *)
(* and then the call looks the bill up as it does after a refusal.          *)
CommitCreate(c) ==
  /\ At(c, "create")
  /\ CreateCondition(target[c])
  /\ WalletCondition(req[c].user, draft[c].redeemed, draft[c].earned)
  /\ bills' = [bills EXCEPT ![target[c]] = draft[c]]
  /\ PayPoints(req[c].user, draft[c].redeemed, draft[c].earned)
  /\ payer' = [payer EXCEPT ![target[c]] = req[c].user]
  /\ earner' = IF draft[c].processed THEN [earner EXCEPT ![target[c]] = req[c].user] ELSE earner
  /\ Answer(c, target[c]) \/ (Goto(c, "recheck") /\ UNCHANGED answer)
  /\ UNCHANGED <<counterVars, indexed, replica, year, req, target, stamp, draft>>

(* Refused by a condition, or by storage (conflict, throttling) *)
RefuseCreate(c) ==
  /\ At(c, "create")
  /\ Goto(c, "recheck")
  /\ UNCHANGED <<counterVars, storeVars, year, req, target, stamp, draft, answer>>

OwnBill_unchecked(c) == TRUE
OwnBill(c) == bills[target[c]] # NoBill /\ bills[target[c]].key = req[c].key

(* After an error: the bill under that number is the answer if it carries  *)
(* this state key, otherwise the error is                                  *)
Recheck(c) ==
  /\ At(c, "recheck")
  /\ IF OwnBill(c)
       THEN Answer(c, target[c])
       ELSE Goto(c, "failed") /\ UNCHANGED answer
  /\ UNCHANGED <<counterVars, storeVars, year, req, target, stamp, draft>>

(* update: the consistent read of the bill, and the row it leads to *)
ReadBill(c) ==
  /\ At(c, "readBill")
  /\ IF bills[target[c]] = NoBill
       THEN Goto(c, "failed") /\ UNCHANGED draft
       ELSE /\ draft' = [draft EXCEPT ![c] = UpdatedBill(req[c], bills[target[c]])]
            /\ Goto(c, IF ShouldEarn(req[c], bills[target[c]]) THEN "resolve" ELSE "put")
  /\ UNCHANGED <<counterVars, storeVars, year, req, target, stamp, answer>>

(* TransactWrite(settle), its reply lost or not *)
CommitSettle(c) ==
  /\ At(c, "settle")
  /\ SettleCondition(target[c])
  /\ WalletCondition(req[c].user, 0, draft[c].earned)
  /\ bills' = [bills EXCEPT ![target[c]] = draft[c]]
  /\ PayPoints(req[c].user, 0, draft[c].earned)
  /\ earner' = [earner EXCEPT ![target[c]] = req[c].user]
  /\ Answer(c, target[c]) \/ (Goto(c, "recheckSettled") /\ UNCHANGED answer)
  /\ UNCHANGED <<counterVars, indexed, replica, payer, year, req, target, stamp, draft>>

RefuseSettle(c) ==
  /\ At(c, "settle")
  /\ Goto(c, "recheckSettled")
  /\ UNCHANGED <<counterVars, storeVars, year, req, target, stamp, draft, answer>>

RecheckSettled(c) ==
  /\ At(c, "recheckSettled")
  /\ IF bills[target[c]] # NoBill /\ bills[target[c]].processed
       THEN Answer(c, target[c])
       ELSE Goto(c, "failed") /\ UNCHANGED answer
  /\ UNCHANGED <<counterVars, storeVars, year, req, target, stamp, draft>>

(* The plain Put of an update that earns nothing: no condition *)
PutBill(c) ==
  /\ At(c, "put")
  /\ bills' = [bills EXCEPT ![target[c]] = draft[c]]
  /\ Answer(c, target[c]) \/ (Goto(c, "failed") /\ UNCHANGED answer)
  /\ UNCHANGED <<counterVars, indexed, wallet, replica, payer, earner,
                 year, req, target, stamp, draft>>

(* A storage or HTTP error returned to the caller, or the Lambda killed *)
Die(c) ==
  /\ pc[c] \notin Ended \cup {"idle"}
  /\ Goto(c, "failed")
  /\ UNCHANGED <<counterVars, storeVars, year, req, target, stamp, draft, answer>>

Step(c) ==
  \/ FoundByKey(c) \/ NotFoundByKey(c)
  \/ ResolveNobody(c) \/ ReadWallet(c) \/ PutEmptyWallet(c)
  \/ RouteInvoice(c) \/ TakeNumber(c)
  \/ CommitCreate(c) \/ RefuseCreate(c) \/ Recheck(c)
  \/ ReadBill(c) \/ CommitSettle(c) \/ RefuseSettle(c) \/ RecheckSettled(c)
  \/ PutBill(c)

-----------------------------------------------------------------------------
(* The world around the calls *)

IndexCatchesUp(id) ==
  /\ bills[id] # NoBill
  /\ id \notin indexed
  /\ indexed' = indexed \cup {id}
  /\ UNCHANGED <<counterVars, bills, wallet, replica, payer, earner, year, callVars>>

ReplicaCatchesUp(u) ==
  /\ replica[u] # wallet[u]
  /\ replica' = [replica EXCEPT ![u] = wallet[u]]
  /\ UNCHANGED <<counterVars, bills, indexed, wallet, payer, earner, year, callVars>>

NewYear ==
  /\ year < LastYear
  /\ year' = year + 1
  /\ UNCHANGED <<counterVars, storeVars, callVars>>

AllEnded ==
  /\ \A c \in Calls : pc[c] \in Ended
  /\ UNCHANGED vars

Next ==
  \/ \E c \in Calls : Start(c) \/ Step(c) \/ Die(c)
  \/ \E id \in Ids : IndexCatchesUp(id)
  \/ \E u \in Users : ReplicaCatchesUp(u)
  \/ NewYear
  \/ AllEnded

Fairness == \A c \in Calls : WF_vars(Step(c))

Spec == Init /\ [][Next]_vars /\ Fairness

-----------------------------------------------------------------------------
(* Properties *)

(* Every wallet row accounts for itself: what was ever earned is what was  *)
(* redeemed plus what is left, whatever redeems, earns and blind wallet    *)
(* creations overlap.  With TypeOK no balance is ever overdrawn, although  *)
(* the amount to redeem is computed from a wallet read that may be stale.  *)
WalletsBalance == \A u \in Users : wallet[u] # NoWallet => Balanced(wallet[u])

(* Within a year a state key leads to one bill, however many creates race, *)
(* die after taking a number, or miss the bill in the lagging index.       *)
OneBillPerKey ==
  \A i, j \in Ids :
    (/\ bills[i] # NoBill /\ bills[j] # NoBill
     /\ bills[i].key = bills[j].key /\ i[1] = j[1]) => i = j

(* api.md:631: what a bill redeemed is frozen from create.  No update, not *)
(* even a plain put of a row read long ago, changes it, moves the bill to  *)
(* another state key or removes it.                                        *)
FrozenFields(b) == <<b.key, b.points, b.redeemed>>
FrozenAtCreate ==
  [][\A id \in Ids : bills[id] # NoBill =>
       bills'[id] # NoBill /\ FrozenFields(bills'[id]) = FrozenFields(bills[id])]_bills

(* A caller that got a bill got one that exists and, on create, one of the *)
(* state key it asked for, also when its own write was refused or its      *)
(* reply lost.                                                             *)
AnswersAreBills ==
  \A c \in Calls : At(c, "done") =>
    /\ answer[c] \in Ids
    /\ bills[answer[c]] # NoBill
    /\ IF req[c].id = NoId THEN bills[answer[c]].key = req[c].key
                           ELSE answer[c] = req[c].id

Funded == {u \in Users : InitialWallet[u] # NoWallet}
PaidBy(u) == {id \in Ids : bills[id] # NoBill /\ payer[id] = u}
AwardedTo(u) == {id \in Ids : bills[id] # NoBill /\ earner[id] = u}

(* Points debited from a wallet are exactly the points redeemed by the     *)
(* bills created for it: the debit happens with the create or not at all   *)
(* (api.md:660), through refusals, lost replies and retries, and no later  *)
(* update moves it, whomever that update names as the bill's customer.     *)
RedeemsMatchBills ==
  \A u \in Funded :
    wallet[u].redeemed =
      InitialWallet[u].redeemed + SumFunction([id \in PaidBy(u) |-> bills[id].redeemed])

(* Every update settles: none is a plain put that may undo an award. *)
UpdatesSettle == \A c \in Calls : req[c].id # NoId => req[c].settled /\ Linked(req[c])

(* Racing creates and settles of one bill then credit it once, to one of   *)
(* the customers they were sent for: the points a wallet ever earned are   *)
(* the points recorded on the bills it was credited for.                   *)
SettlesEarnOnce ==
  UpdatesSettle =>
  \A u \in Funded :
    wallet[u].earned =
      InitialWallet[u].earned + SumFunction([id \in AwardedTo(u) |-> bills[id].earned])

(* Every write of a bill is one entry of a points ledger: it is debited    *)
(* with its create and credited at most once, and what it redeemed is      *)
(* frozen from create (api.md:631).  A step that moves a customer's points *)
(* without a bill, or a bill that redeems or awards without the points, is *)
(* none, whichever rows the calls read and however they interleave.        *)
(* The ledger holds the accounts of the customers with a wallet from the   *)
(* start; an empty one is written without looking (WalletsKept).           *)
Ledger == INSTANCE PointsLedger WITH
  Numbers <- Sequences, Customers <- Users, Holders <- Funded,
  Bills <- BillType, NoEntry <- NoBill,
  Opening <- [u \in Funded |-> InitialWallet[u]],
  account <- [u \in Funded |-> wallet[u]],
  entry <- bills,
  plain <- ~UpdatesSettle
ImplementsPointsLedger == Ledger!Spec

(* What a bill comes to with its discounts, taxes and round off, for the   *)
(* balances customers start with (computeBillTotals); it is arithmetic, so *)
(* the states in which no call has begun are enough.                       *)
AmountsAddUp ==
  (\A c \in Calls : pc[c] = "idle") => \A u \in Users : AddsUp(BalanceOf(wallet[u]))

(* api.md:629: retries with the same state key do not deduct points again. *)
(* Over all years, at most one bill of a state key carries a redemption.   *)
DebitedOncePerKey ==
  \A i, j \in Ids :
    (/\ bills[i] # NoBill /\ bills[j] # NoBill /\ bills[i].key = bills[j].key
     /\ bills[i].redeemed > 0 /\ bills[j].redeemed > 0) => i = j

(* api.md, GET /loyalty/wallet: a wallet is created "if missing".  A row   *)
(* that exists keeps what it earned.                                       *)
WalletsKept ==
  [][\A u \in Users : wallet[u] # NoWallet =>
       wallet'[u] # NoWallet /\ wallet'[u].earned >= wallet[u].earned]_wallet

=============================================================================
