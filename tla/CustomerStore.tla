---------------------------- MODULE CustomerStore ----------------------------
(***************************************************************************)
(* What the customer-facing handlers of the API Lambda share: their        *)
(* DynamoDB tables, and calls that read rows, decide, and put rows back.   *)
(* Modules Accounts, SignIn, LoyaltyV1 and WebAddresses hold the handlers, *)
(* CustomerService composes them.                                          *)
(*                                                                         *)
(* Gets and queries are eventually consistent: "stale" is the oldest copy  *)
(* of each row they may still return.  Conditional puts, updates and       *)
(* deletes act on the current row.  Every generated id is a uuid, so a row *)
(* a call creates is named after the call.                                 *)
(*                                                                         *)
(* A key is what a user is found by: <<who, form>>.  A phone number of a   *)
(* person has several forms; an e-mail address is a key of form "other".   *)
(***************************************************************************)
EXTENDS Integers, FiniteSets, Sequences

CONSTANTS
  Calls,       \* the invocations
  first,       \* the guest and the address that exist at the start
  local,       \* an address id the web client made up itself
  Keys,        \* the keys in use, pairs of a person and a form
  SignInKeys,  \* bound: the keys among them that sign in
  firstKey,    \* the key of the first guest
  Passwords,   \* passwords of staff
  Codes,       \* one-time codes
  Nonces,      \* names of login tickets
  Labels,      \* labels of addresses, pairs of a word and its capitals
  firstLabel,  \* the label of the first address
  Bills,       \* table bills
  Price,       \* Price[b]: what bill b comes to, in paise
  Opening,     \* points the first guest has at the start
  Epoch,       \* the time at the start
  MaxTime,     \* bound: the clock stops there
  MaxInFlight, \* bound: calls that may be under way at once
  Mixes,       \* bound: the sets of operations one behaviour may mix
  NoRow, NoKey, NoUser, NoSecret, NoArg

VARIABLES
  db,     \* the tables: users, challenges, tickets, wallets, bills, addresses
  stale,  \* the tables as lagging replicas and indexes show them
  now,    \* the time
  call,   \* call[c]: what invocation c does, was asked, and holds in memory
  raced,  \* history: a call began beside another one, or before all that
          \* was written earlier was visible everywhere
  died    \* history: a call ended before its last step, or dropped an error

vars == <<db, stale, now, call, raced, died>>

Ids == Calls \cup {first}
AddressIds == Ids \cup {local}
AllForms == {"canon", "ten", "plus", "zero", "dashed", "other"}

ASSUME StoreAssumption ==
  /\ first \notin Calls /\ local \notin Ids /\ NoUser \notin Ids
  /\ \A k \in Keys : k[2] \in AllForms
  /\ firstKey \in Keys /\ SignInKeys \subseteq Keys /\ NoKey \notin Keys /\ firstLabel \in Labels
  /\ NoSecret \notin Passwords \cup Codes
  /\ Price \in [Bills -> Nat] /\ Opening \in Nat
  /\ Epoch \in Nat /\ MaxTime \in Nat /\ MaxInFlight \in Nat

(* "mail": the user, a phone number, is also found by that person's e-mail *)
UserType == [key : Keys, mail : BOOLEAN, password : Passwords \cup {NoSecret}]

(* "by" is history: the call that sent the code, or made the ticket for    *)
(* the number "sender".                                                    *)
ChallengeType ==
  [code : Codes \cup {NoSecret}, attempts : Nat, sentAt : Nat, ttl : Nat, by : Ids]
TicketType == [user : Ids, ttl : Nat, by : Calls, sender : Keys]

WalletType == [balance : Nat, earned : Nat, redeemed : Nat]

(* "price" is what the bill came to before points were redeemed *)
BillType ==
  [owner : Ids \cup {NoUser}, price : Nat, total : Nat, discount : Nat,
   earned : Nat, redeemed : Nat, processed : BOOLEAN]

(* The addresses are those of one user; no handler touches two users' *)
AddressType == [label : Labels, at : Nat]

StoreType ==
  [users : [Ids -> UserType \cup {NoRow}],
   challenges : [Keys -> ChallengeType \cup {NoRow}],
   tickets : [Nonces -> TicketType \cup {NoRow}],
   wallets : [Ids -> WalletType \cup {NoRow}],
   bills : [Bills -> BillType],
   addresses : [AddressIds -> AddressType \cup {NoRow}]]

Rows == UserType \cup ChallengeType \cup TicketType \cup WalletType \cup AddressType

ASSUME NoRowIsNoRow == NoRow \notin Rows \cup BillType

Ops == {"onboard", "wallet", "createUser", "staffLogin", "changePassword",
        "send", "verify", "login", "continue", "addPoints", "redeem",
        "save", "saveAs", "deleteAddress", "none"}
Steps == {"idle", "lookup", "readWallet", "putWallet", "check", "read",
          "put", "count", "delete", "putTicket", "readBill", "readPoints",
          "putPoints", "putBill", "done"}

CallType ==
  [op : Ops, step : Steps,
   at : Nat,                                   \* when it began, if it asks
   key : Keys \cup {NoKey},                    \* the phone or e-mail it names
   user : Ids \cup {NoUser},                   \* whom it is about
   given : Passwords \cup Codes \cup {NoSecret},
   arg : Passwords \cup Nonces \cup Bills \cup Labels \cup AddressIds \cup {NoArg},
   todo : SUBSET Keys,                         \* forms it has yet to look up
   row : Rows \cup {NoRow}, billRow : BillType \cup {NoRow},
   tries : Nat]

TypeOK ==
  /\ db \in StoreType
  /\ stale \in StoreType
  /\ now \in Nat
  /\ \A c \in Calls : call[c] \in CallType
  /\ raced \in BOOLEAN
  /\ died \in BOOLEAN

-----------------------------------------------------------------------------
(* Reads *)

SeenUser(u) == {db.users[u], stale.users[u]}
SeenChallenge(k) == {db.challenges[k], stale.challenges[k]}
SeenWallet(u) == {db.wallets[u], stale.wallets[u]}
SeenBill(b) == {db.bills[b], stale.bills[b]}
SeenAddress(i) == {db.addresses[i], stale.addresses[i]}

-----------------------------------------------------------------------------
(* A call's bookkeeping.  A call that is Over failed, or has answered      *)
(* nothing the properties ask about.                                       *)

Blank ==
  [op |-> "none", step |-> "idle", at |-> 0, key |-> NoKey, user |-> NoUser,
   given |-> NoSecret, arg |-> NoArg, todo |-> {}, row |-> NoRow,
   billRow |-> NoRow, tries |-> 0]

At(c, step) == call[c].step = step
Doing(c, o, step) == call[c].op = o /\ call[c].step = step
Goto(c, step) == call' = [call EXCEPT ![c].step = step]
Over(c) == call' = [call EXCEPT ![c] = [Blank EXCEPT !.op = call[c].op, !.step = "done"]]

(* What is kept of a call that answers who user is *)
Answered(c, user) ==
  [call[c] EXCEPT !.step = "done", !.user = user, !.at = 0, !.todo = {}, !.tries = 0]
Answer(c, user) == call' = [call EXCEPT ![c] = Answered(c, user)]
InFlight == {c \in Calls : call[c].step \notin {"idle", "done"}}

Reads == UNCHANGED <<db, stale, now, raced, died>>
Aside == UNCHANGED <<stale, now, raced, died>>

EmptyWallet == [balance |-> 0, earned |-> 0, redeemed |-> 0]
OpeningWallet == [balance |-> Opening, earned |-> Opening, redeemed |-> 0]

NewBill(p) ==
  [owner |-> NoUser, price |-> p, total |-> p, discount |-> 0, earned |-> 0,
   redeemed |-> 0, processed |-> FALSE]

=============================================================================
