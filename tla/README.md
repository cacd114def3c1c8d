# Verification of the Tangify backend

TLA+ specifications, TLC configurations and TLAPS proofs for the backend of the
restaurant system in this repository (`src/`): a Go Lambda (`api/`) over
DynamoDB tables, and Cloudflare workers that hand out numbers. Paths below are
relative to `src/`; `api.md` is the repository's API document.

- `PROJECT.json` lists components, runs, mutants, the map from definitions to
  source lines, findings, hazards and theorems.
- `tlc -workers 2 -config X.cfg M` runs a model, `tlapm M_proofs.tla` a proof.

## 1. Inventory

The Lambda is stateless. Everything that matters is in DynamoDB rows, written
whole: most operations *read a row, change it in memory, put the whole row
back*, nearly always **without a condition**. Several Lambdas run at once, each
may be killed or time out between two requests, clients retry, and gets and
index queries are eventually consistent unless the code asks otherwise. All
hard behaviour comes from this. Only three writes are conditional:
`TransactWrite` of a bill and a wallet, `PutIfAbsent` of a nonce, and the put of
a paid web order. The only true serialisation is in the Durable Objects.

| Component | State | Operations | Interacts with | Hard behaviour | What makes it correct |
|---|---|---|---|---|---|
| **Bills with line items** `api/billing/bill_with_line_items_*.go` | bills table, its state-key index, points wallets | `Upsert`: create, update, settle | invoice worker (HTTP), wallet table | creates racing on one state key, lagging index, lost replies of the transaction, retries, deaths after a number was taken | one bill per state key; points debited with the bill or not at all, credited once; the answer is the caller's bill |
| **Invoice number worker** `invoice-number-cf-worker/` and `api/billing/invoice_client.go` | per UTC year: counter, bill→number, number→bill | `POST /next` | the Go client, which gives up after 10 s | the year turns between routing and serving; replies lost | unique, gapless, the same number for the same bill |
| **Table sessions, orders, table bills** `api/billing/billing_service.go` | three tables | create session, add order, update session, start, update and close a bill, number a bill | each other's rows; the invoice worker | every step a separate put; overlapping waiters; half-done calls; stale reads | references resolve; one bill per session; a table is not given away twice; closing means settled |
| **Line items and kitchen units** `api/billing/line_item_*.go`, patches in `billing_service.go` | one order row | edits by waiter, kitchen, plating, billing | the bill, which adds order totals up | four parties overwrite each other's row; units and statuses derived from each other | nothing to be cooked is hidden; totals match the units; cancelled stays cancelled |
| **Points wallet, loyalty v1** `api/loyalty/loyalty_service.go`, `wallet_provider.go`, `loyalty_repository.go` | wallet rows | get or create, `AddPointsForBill`, `ApplyDiscount` | bills table | read, put wallet, put bill without a transaction | what was earned is redeemed or left; a bill awards once |
| **OTP sign-in** `api/loyalty/otp_*.go` | one challenge row per phone | send, verify | users, wallets | guesses in parallel, counter updated after the read, code used up before the customer is found | a code signs in once, within its time and attempts |
| **Users** `api/users/` | user rows, phone and e-mail indexes | `CreateOrGetCustomer`, `CreateUser`, `Login`, `ChangePassword` | OTP, web login, wallets | lagging index: two first contacts; numbers stored in several forms | one customer per phone, whichever form is given |
| **Web login nonces** `api/weborders/login_*.go` | nonce rows | start (put if absent), consume (delete, returning) | Gupshup webhook, users | a nonce drawn twice, two consumers, rows too old | a nonce signs in once, and only who asked for it |
| **Web addresses** `api/weborders/web_address.go` | address rows per user | list, upsert with or without an id, delete | – | labels matched in a lagging list | one address per label |
| **Gupshup webhook** `api/gupshup_webhook.go` | none | one inbound payload | users, wallets, web login | a batch of messages, overlapping patterns | the first text decides |
| **Web orders and payments** `api/weborders/web_order_*.go`, `razorpay.go` | web order rows, an amount at the payment provider | create payment, verify and save | order number worker, Razorpay | retries of a paid order, lost reply of the save | a paid order is stored once, for what was paid |
| **Web order number worker** `tangify-web-order-number-generator/` | counter per period | `POST /next` | web orders | as for invoices | unique numbers |
| Shiprocket, menu and publishing, message templates, Ably, AWS clients, HTTP routing and JWT, reviews, API proxy | little or none of their own | – | – | pure I/O, formatting or external services | – |

The last row is not modelled (reasons per component in `PROJECT.json`), but for
two pieces of the router: the invoice-number endpoint (`api/main.go:530-558`)
reads a bill, fetches a number and puts the bill back; and the routes of
customers and staff are the requests of `CustomerService`.

## 2. Modules and how they correspond to the code

| Module | Models | State ↔ code | Actions ↔ code |
|---|---|---|---|
| `InvoiceCounter` | storage of the number Durable Objects | `counter`, `byBill`, `byInvoice`: the keys `counter`, `bill:<id>`, `inv:<no>` of one object per year | `NextInvoice` = one `storage.transaction`: look up, else count and write both maps |
| `GaplessNumbers` | **abstract**: what a numbering service promises | `issued[y]`: a sequence of distinct keys | append a new key, or nothing |
| `InvoiceWorker` | the worker around the counter, its clients' retries | `inbox`: requests routed, not served; `replies`: numbers sent, `failed`: errors sent, both perhaps lost | `Route` (reads the year), `Serve`, `Fail` (the transaction fails: error 500, no number), `NewYear` |
| `BillTotals` | the points arithmetic of `computeBillTotals` | – | operators, one per helper in the code |
| `BillAmounts` (extends `BillTotals`) | the rest of `computeBillTotals`: discounts capped, rate taxes rounded, payable amount rounded up to a rupee | – | operators, one per helper in the code |
| `BillUpsert` (extends `InvoiceCounter` and `BillAmounts`) | `BillWithLineItemsService.Upsert` | tables `bills`, `wallet`; what lagging reads see: `indexed`, `replica`; per call `pc`, `target`, `draft`, `answer`; history: `payer`, `earner` of a bill | one action per storage or HTTP request, e.g. `ReadWallet`, `TakeNumber`, `CommitCreate`/`RefuseCreate` (the two outcomes of `TransactWrite`), `Recheck` |
| `PointsLedger` | **abstract**: what the points of customers go through, seen from their bills | `entry[id]`: the bill entered under a number; `account[u]`: a customer's points; `plain`: some updates do not settle | `Open`: enter a bill and debit what it redeems; `Award`: credit it, once; `Amend`: put back a row, no points move. Each may name another customer on the bill than the one whose points move |
| `TableService` | sessions, orders, table bills and the invoice-number endpoint | tables `sessions`, `orders`, `bills`; `stale`: an older copy every get or query may mix in; per call the row it read | per operation one action per get and per put; the loops of `PutOrder` one action per round. The search for a free table sees the `SessionLimit` newest sessions (500 in `billing_service.go:75`) |
| `KitchenOrder` | one order row, its lines and units, and every operation that edits them | `order`: the row; `call[c].row`: what a call is about to put | one action per operation (read, check, compute the new row), `Put` writes it |
| `WebOrders` | checkout: payment order, payment, verify and save | the number worker (an instance of `InvoiceCounter`), `payOrders` and `paid` at Razorpay, `webOrders` and its lagging copy `replica` | one action per request: `Route`, `TakeRef`, `MakePayOrder`, `Pay`, `ReadRef`, `PutIfAbsent`/`LosePut`, `RereadRef`. `StartVerify` sends any payment made, any ref and any customer: the code checks that the payment is genuine, not that these belong together |
| `CustomerStore` | tables and calls of the customer-facing handlers | `db`: six tables; `stale`: the oldest copy a get or query may return; `call[c]`: what an invocation was asked and holds in memory | – |
| `Accounts` (extends it) | `user_service.go`, `phone.go`, `wallet_provider.go` | `db.users`, `db.wallets` | `FindsCustomer`/`MissesCustomer` (one per query of a form), `PutsCustomer`, `ReadsWallet`, `PutsEmptyWallet`, `KeySeemsFree`, `PutsUser`, `ChangeReads`, … |
| `SignIn` (extends `Accounts`) | `otp_service.go`, `login_service.go`, which message of the webhook counts | `db.challenges`, `db.tickets`, `now` | `SendReads`, `SendPuts`, `VerifyReads`, `VerifyCounts`, `VerifyDeletes`, `PutsTicket`, `NonceInUse`, `Continues`; DynamoDB's time to live: `Sweeps…` |
| `LoyaltyV1` (extends the store) | `loyalty_service.go` | `db.wallets`, `db.bills` | `ReadsBill`, `AddPointsDecides`, `RedeemDecides`, `PutsPoints`, `PutsBill` |
| `WebAddresses` (extends the store) | `web_address.go` | `db.addresses` (of one user) | `SaveLists`, `SavePuts`, `DeleteReads`, `Deletes` |
| `CustomerService` | composes the last four | `raced`, `died`: history | `Start` (a request of some route), the handlers' steps, `Die`, `CatchUp`, `Tick` |
| `MC*` | bounds, requests and symmetry for TLC | | |
| `*_proofs` | TLAPS proofs | | |

Conventions. A row is a record and a missing row a model value. Ids generated
by uuid are the name of the call that generates them. Every call may die at any
of its steps (`Die`, `GiveUp`); a retry is another call with the same request.
Names such as `WalletCondition_noFloor` are deviations a run must notice; no
specification uses them. Variables that only record history say so.

Abstractions that matter:

- A stored line always has one state per unit and a status derived from them
  (`NormalizeLineItem` runs on every read and write), so `KitchenOrder` keeps
  the units only, and items as clients send them go through `Normalize`.
- `TableService` reduces an order to the total it records (`price`) and what its
  lines add up to (`lines`), which kitchen edits let differ.
- Subtotals are inputs of the upsert: taxes and round-off do not decide which
  step comes next. What they come to is pure arithmetic, in `BillAmounts`. Prices,
  rates and fixed tax amounts are natural numbers; quantities and other discounts
  may be negative.
- Codes and nonces are drawn from two values each, so that equal draws happen;
  a password fits if it is the same. A handler reads the clock once, when it
  begins, as the code does; `Tick` may fall between any two steps.
- A phone number is a person and a form (canonical, ten digits, with `+`, with
  a leading `0`, with separators); an e-mail address is a key of form "other".
  A user that staff creates may have a number and that person's e-mail
  (`KeysOf`), and is looked up, and found, under both.
- `BillUpsert` keeps the customer a bill names (`customer`) apart from the one
  whose points a request moves (`user`): an update may rename the first.
- An inbound text is the set of patterns found in it.

## 3. Runs

| Run | Shows |
|---|---|
| `invoice_worker` | Numbers are unique, gapless and stable per year (`MapsAgree`, `RepliesAgree`), the worker implements `GaplessNumbers`, and a routed request is answered, with a number or with an error (`RoutedIsAnswered`). |
| `bill_upsert` | Wallets balance; one bill per state key and year; answers are the caller's bills; points are debited exactly with the bills that redeem them, whomever updates name as a bill's customer later; racing settles credit once; every write of a bill is an entry, an award or an amendment of the abstract `PointsLedger` (`ImplementsPointsLedger`), so that what a bill redeemed stays frozen and no account moves without a bill. Over bounded lines, taxes and discounts, amounts add up, come to whole rupees, and stay the same when an update sends the stored taxes back (`AmountsAddUp`). |
| `table_service` | Through every race, lag and death the rows refer to existing rows (`References`). For calls that follow one another: free tables, as far as the search looks (`NewSessionsGetFreeTables`), paid before closed and rolled-up totals; and if none died, one bill per session. |
| `kitchen_order` | Boards hide no pending unit and totals never undercharge, whatever overlapping edits overwrite each other; for calls nobody overtook cancelled units stay cancelled, and an order marked done keeps its mark and its lines and units, and is not charged and cooked otherwise in one edit (`DoneFreezesTicket`): `UpdateOrder` and `PatchLineItemUnit` refuse it, the other edits never look at the mark. |
| `customer_service` | Through every race, lag and death: a call answers a person with the number it named (`AnswersMatchPhone`), a ticket signs in one continue (`TicketsOnce`) and is not lost to a later login (`TicketsKept`), wallets account for what they earned (`WalletAccounts`), a bill and its points discount add up to its price (`BillAddsUp`). For calls that follow one another: a code works once and not after too many wrong ones (`CodesSignInOnce`), a customer is created only for a number stored in no form (`GuestsOnlyOnFirstContact`), wallets match their bills (`LedgerMatches`), saving adds no second address of a label (`LabelsStayUnique`). |
| `web_orders` | Whatever clients send: a stored order never changes (`StoredStays`) and its payment was made, and answers are true of what is stored (`AnswersAreTrue`). Unless a client sent a payment with another order's ref or customer (`Mixed`): the order is the one its payment was made for (`PaidForThis`), a ref is not refused as somebody else's (`UsedRefMeansMixed`), and an attempt has one order a year (`OneOrderPerAttempt`). |

Six more runs check what a document or comment says and find it violated; each
is a finding in `PROJECT.json`:

| Run | Statement | What happens |
|---|---|---|
| `earn_twice` | `api.md:633` awards points once | a plain update puts back the row it read, clearing `loyalty_points_processed` set by a settle in between; the next settle awards again |
| `debit_twice` | `api.md:629` retries do not deduct again | a retry after the turn of the UTC year, before the index shows the bill, creates a second bill |
| `wallet_lost` | `api.md:713` wallet created "if missing" | the empty wallet overwrites one created and credited since the read |
| `table_two_bills` | `api.md:488` StartBill is idempotent | two overlapping calls both create a bill |
| `table_unbilled` | `billing_models.go:20` closed means settled | orders added or edited after StartBill are not on the bill that is paid |
| `kitchen_total` | `billing_models.go:115` total of billable units only | an `UpdateOrder` that sets the kitchen status to cancelled cancels every unit and leaves the total, which StartBill adds up; the kitchen's own patches do the same |

### Bounds and why they are enough

- `invoice_worker`: 3 bills, 2 years, numbers up to 3 (`MaxSeq`; never the limit
  within a year, as there are no more bills). Enough for a number to be taken
  between another's request and its retry, on both sides of the turn.
- `bill_upsert`: 3 overlapping calls, 2 state keys, 2 customers (one with 3
  points, one without a wallet), 2 years, points worth 1 and earned per 2. Two
  creates compete for the same points and the same key while the third settles
  or rewrites; a create and an update name another customer than the one whose
  points move. `earn_twice` needs a fourth call (create, update, two settles).
- `table_service`: 3 calls of any kind, 2 of them at once (`MaxInFlight`), 3
  tables, one price besides the initial one, and a session that exists already:
  bill, edit, close, or create against an open session. The search sees the 2
  newest sessions (`SessionLimit`) and sessions open at one of 2 times, so that
  an open session can be hidden by newer ones, and ties in time happen. `raced`
  is set when a call starts beside another or while some read may still lag;
  properties that speak of calls one after the other ask for `~raced`.
- `kitchen_order`: 3 overlapping calls, 2 lines of 1–2 units; tickets without
  unit states, with too few, too many, and with quantity zero; edits that use
  every field. Any row in memory may be put last.
- `web_orders`: 4 calls, 2 customers, 2 years: create, create again, pay both,
  verify both, in every order, each verification with any payment, ref and
  customer.

- `bill_upsert`, amounts: two lines (one without a quantity), prices around
  zero, halves of a paisa and whole rupees, seven tax lists (none, one and two
  rates, one of them called a round off, a fixed fee, round offs told by id, by name, by both), discounts below
  zero and above the subtotal, points below and above the balance.
- `customer_service`: 3 calls, 2 at once, two people with five keys, the known
  guest stored under bare digits; two codes, two nonces, a wrong code allowed
  once, a clock of four values so that cooldown, code and ticket each run out
  and are still good; a bill that takes a block of points and one that takes
  none. `Mixes` lists the operations one behaviour may mix: those that share a
  table do, those that share none are independent. `SignInKeys` leaves out
  forms that only differ in the lookup. Three calls are enough for an operation to
  be overtaken and then tried again.

Symmetry over calls (and tables) is used where the run has no liveness
property; calls and tables are interchangeable in `Init`, `Next` and all
properties. `CHECK_DEADLOCK` is never switched off: an explicit step stutters
when all calls have ended.

### Fairness

Only `invoice_worker` checks liveness, under weak fairness of `Serve` or `Fail`
for a request: a Durable Object processes requests delivered to it, and answers
500 when its transaction fails (`index.ts:109-112`). That it succeeds in the end
is not assumed, so what is checked is an answer and not a number. Nothing is assumed about `Route`
(clients need not ask) or `NewYear`. `BillUpsert` states weak fairness of a
call's own steps (a running Lambda goes on or dies); its properties are safety
and do not use it.

## 4. Proofs

All for arbitrary finite or infinite sets of calls, keys, customers, requests
and any bounds (finite calls where a model adds up over them), from the named
assumptions on the constants only. Each module finds an inductive invariant,
which TLC checked on the run's instance before it was proved.

- **`InvoiceCounter_proofs`, `InvoiceWorker_proofs`**: type correctness,
  `MapsAgree`, `RepliesAgree`, and that every step of the worker is a step of
  `GaplessNumbers` or leaves its numbers alone. The counter's invariant is
  inductive together with its type; `RepliesAgree` needs in addition that every
  reply is the pair on record in its year, and records never change.
- **`Sums_proofs`**: lemmas about `SumFunctionOnSet`, with which the models add
  up: the sum exists, is a number of whatever kind its addends are, and follows
  one addend removed, inserted, changed, made larger or renamed; elements that
  add nothing may be left out. The library's induction theorems cannot be
  instantiated, so the inductions are over *sets* instead (a set of subsets
  that has each set all of whose proper subsets it has, from the
  well-foundedness of the strict subset ordering).
- **`BillUpsert_proofs`**: `TypeOK`, `WalletsBalance`, `OneBillPerKey`,
  `AnswersAreBills`, `FrozenAtCreate`, `RedeemsMatchBills`, `SettlesEarnOnce`,
  `ImplementsPointsLedger`, `AmountsAddUp`.
  The inductive invariant `IInv` adds to the first ones: calls past the number
  step hold the number on record for their key (`CreatesOwnNumbers`), a bill
  sits under the number of its key (`BillsOwnNumbers`), an update's draft keeps
  the key and the redemption of the row (`UpdatesKeepFrozen`), the index shows
  only bills, and points to be moved have a customer and a bill (`Tracked`).
  `OneBillPerKey` then follows from the counter's `MapsAgree`: two bills of one
  key and year carry one number. The frozen fields survive plain puts because
  no step ever changes them, so any row read earlier holds the same ones.
  `Books` carries the two sums. They are over the bills a customer *paid* for
  and was *credited* for (`payer`, `earner`), not over those that name it: an
  update replaces the customer of a bill by any its request names, also of a
  bill that redeemed points. A wallet that was there from the start is seen by
  every read, so no empty one replaces it. If every update settles, an award is
  final: a plain put then writes back an award that is on record already, and a
  settle that commits found none (`UpdatesKeepAward`).

  The refinement of `PointsLedger` maps the rows of the bills table to entries
  and the wallets that were there from the start to accounts. `CommitCreate` is
  `Open` (no other bill of the year has its key, by `MapsAgree`), `CommitSettle`
  is `Award`, `PutBill` is `Amend`, or nothing where every update settles, for
  then it puts back the row that is there; every other step stutters.
  `FrozenAtCreate` says the part of it that `api.md:631` promises.

  `AmountsAddUp` is about a loop over the taxes (`RatedTaxes`, a recursive
  function inside its definition) and about sums over sequences. `Rated` names
  the loop's intermediate results; that they exist, are typed and are the same
  for taxes already rated once is shown by induction over the set of rounds for
  which it holds, from the well-foundedness of the naturals. The sums are those
  of `Sums_proofs`. What is left is arithmetic: caps, and the rounding up.
- **`KitchenOrder_proofs`**: `TypeOK`, `BoardShowsPending`, `NeverUndercharged`,
  `CancelledStays`, `DoneFreezesTicket`. `IInv` says of *every* row, stored or in
  some call's memory, that it has no pending unit unless it is pending or
  preparing, and that a total added up covers the units not cancelled; each
  operation turns such a row (or any row) into such a row, so it does not matter
  which put comes last. The action properties need that a call nobody overtook
  still holds what its edit makes of the stored row.
- **`TableService_proofs`**: `TypeOK`, `References`, `OneBillPerSession`,
  `NewSessionsGetFreeTables`, `ClosedIsSettled`, `RolledUp`, in two layers.
  `Known` holds through every race, lag and death: every row in the tables, in
  their lagging copies and in a call's memory is typed and names rows that exist
  and fit, whichever put comes last. `Orderly` is about calls that follow one
  another: then at most one call is under way, no read lags, what the call holds
  is what is stored apart from the edit it is making (`SeqOK`, step by step for
  each operation), and if none died each session's bill is the one its orders
  name (`BillsOK`). The search for a free table misses a
  session only if its list is full of sessions opened since (`SearchSeesNewest`).
- **`WebOrders_proofs`**: `TypeOK`, `PaidForThis`, `UsedRefMeansMixed`,
  `OneOrderPerAttempt`, `AnswersAreTrue`, `StoredStays`, and the order numbers'
  `MapsAgree`, by the counter's lemmas through the instance. A ref on a payment
  order is on record for its attempt, so two attempts of a year never hold one;
  what a call was sent stays with it, so a stored row whose ref, customer and
  payment do not belong together points to the call that mixed them up
  (`RowsSent`); a stored order is written once and by a call that found its ref
  free.
- **`CustomerService_proofs`**: every property of `customer_service`, in two
  layers, as for `TableService`. Whatever races, lags or dies:
  - `IInv` carries `WalletAccounts`, `BillAddsUp` and `TicketsOnce`. The first
    two hold row by row (`StoredRows`, `HeldRows`): each wallet and bill, in the
    tables, in their lagging copies and in a call's memory, accounts for itself,
    so any of them may be put last; the lemma about a discount in whole blocks
    never exceeding the bill carries `BillAddsUp`. `TicketsOnce` needs that a
    ticket on record was made by a login that is over, that no two nonces hold
    tickets of one login, and that a ticket that signed somebody in is gone.
  - `TInv` gives `TypeOK`. It says for each step of a call which of its fields
    are set by then, so that no step uses one that is not.
  - `People` gives `AnswersMatchPhone` and, with the tickets, `TicketsKept`: a
    user's number never changes, and a user that a call found or is about to put
    has the number the call was given or the ticket's.

  For calls that follow one another:
  - `InTurn` says that at most one call is under way, how little its reads can
    lag (`Aligned`: a challenge may still be seen that is already deleted), and
    that what it has read is so when it acts on it (`Saw`). From it follow
    `LabelsStayUnique` and `GuestsOnlyOnFirstContact`.
  - `Balanced` gives `LedgerMatches`: if no call died, wallets are the sums of
    their owners' bills (`Ledger`), where a call that has decided about points
    counts as if both its puts were done. The sums are those of `Sums_proofs`.
  - `Challenges` and `CodesInTurn` give `CodesSignInOnce`: a challenge on record,
    lagging or in memory was put by a send that is over, under one key; one
    that signed in is on record no more and no later call can read it; and if no
    call died the count is at least the number of calls told their code is wrong.

Only model-checked: `RoutedIsAnswered`, which is liveness: liveness under
fairness and `ENABLED` are out of the provers' reach. The statements of the
violation runs are false, so there is nothing to prove. Sums and the loop over
taxes are recursive, but of functions, and need no operator the provers would
have to instantiate; no module proved about uses a RECURSIVE operator.

## 5. Observations that are not runs

- `user_override.quantity` of a line is ignored when totals are added up
  (`line_item_utils.go:151-174`); `api.md:548-552` says overrides apply.
- `UpdateOrder` with a kitchen status of preparing, served or cancelled sets it
  and overwrites it at once by recomputing it from the units
  (`billing_service.go:386`); only pending and ready persist.
- Patching a unit of a served order returns the order to ready or pending.
- `KitchenItemBoard` shows pending units of removed lines if the bill, not the
  waiter, removed them.
- An update that settles credits the customer its request names, also if the
  bill had another one (`bill_with_line_items_service.go:273-275`), and any
  update may name another customer on a bill, also on one that redeemed points
  (`:221-224`, `:263-265`): a customer's bills need not add up to the wallet.
  `RedeemsMatchBills` and `SettlesEarnOnce` go by whose points moved.
- The mark of a done order "locks edits" (`billing_models.go:119`), but only
  `UpdateOrder` (`billing_service.go:339`) and `PatchLineItemUnit` (`:751`) look
  at it; the two status patches and `UpdateBill` (`:537`) still change the order.
- A session that 500 newer ones followed is not seen by the search for an open
  session (`billing_service.go:75`), and its table is given again.
- `VerifyPayment` checks the signature over Razorpay's order and payment ids
  (`razorpay.go:175-198`), and nothing ties them to the ref, the customer or the
  amount that `VerifyAndSave` stores (`web_order_service.go:35-60`). One payment
  can be stored under several refs, and a customer may find a ref used that no
  payment of its own was stored under. A note for the owners of the code: no
  document says more.
- `api.md:733` lets any whole points be redeemed, `:771` blocks of 100 only.
  `ApplyDiscount` knows blocks of one point (`loyalty_service.go:16`).
- Overlapping calls undo each other in `TableService`: `AddOrder` can reopen a
  closed session, `UpdateBill` can take back a payment, the invoice-number
  endpoint can overwrite a payment or a total made during its HTTP request.
- A customer who pays two payment orders of one checkout attempt has one stored
  order. Usually the second verify says so; one that loses the race to store the
  order is told "verified" (`web_order_service.go:65-84`).
- `decodeBill` reads `rate_in_bps` as a string (`billing_repository.go:542`)
  although `encodeBill` stores a number (`:409`): a table bill read and put back
  loses the rates of its taxes, not their amounts.
- `AddPointsForBill` and `ApplyDiscount` that die between their two puts leave
  the wallet changed and the bill as it was; the retry awards or debits again
  (`LedgerMatches` asks for calls that do not die). `UpdateBill` with discounts
  of its own drops the line of the points discount.
- The OTP code is used up before the number is parsed (`otp_service.go:124-129`):
  a number that is none loses its code and signs nobody in. `Send` keeps the
  challenge, and its cooldown, when the message could not be sent. A count of a
  wrong code that overtakes a verification creates a row with nothing but the
  counter; it is expired, and the next `Send` replaces it.
- `CreateUser` drops the errors of its lookups (`user_service.go:144,149`).
- Only the first text of an inbound batch is dealt with (`gupshup_webhook.go:80`).
- An address deleted while a save that listed it is under way comes back.
- A web checkout attempt repeated in another UTC year gets another ref, as
  invoice numbers do.

## 6. Plan

Done: inventory; `InvoiceCounter`, `InvoiceWorker`, `BillAmounts`, `BillUpsert`,
`PointsLedger`, `TableService`, `KitchenOrder`, `WebOrders`, and the
customer-facing half (`CustomerStore`, `Accounts`, `SignIn`, `LoyaltyV1`,
`WebAddresses`, `CustomerService`) with their runs; proofs as in section 4.

Left for whoever changes the code: both ways of moving points in one model (see
section 7), and an abstract specification of `TableService` for the day its puts
get conditions: as the code is, only calls that follow one another keep one.

## 7. Not modelled

Menu and publishing, message templates and sending, notifications, reviews, AWS set-up, routing,
JWT, Shiprocket and the API proxy keep no state that other steps read, or only
call external services. Within modelled components: names, notes, times, parcel
flags, the text of addresses, roles, formatting and logging. The points of table
bills (`LoyaltyV1`) and of bills with line items (`BillUpsert`) move the same
wallets, but are not run against each other: the first writes wallets without a
condition, so the second's guarantees would not survive it. The kitchen boards
list the 500 newest orders only (`billing_service.go:616`, `:664`);
`KitchenOrder` follows one order that is among them. Amounts of web orders are
left out with what the code takes from the client without a check: which ref and
customer a payment is sent with is not (`StartVerify`). Validation that rejects a request
before anything is read is not an action: the requests enumerated are valid
ones.
