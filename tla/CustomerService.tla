-------------------------- MODULE CustomerService --------------------------
(***************************************************************************)
(* The customer-facing half of the API Lambda: accounts, sign-in, points   *)
(* on table bills and saved addresses, as calls that interleave at every   *)
(* request to the store (modules Accounts, SignIn, LoyaltyV1,              *)
(* WebAddresses).                                                          *)
(***************************************************************************)
EXTENDS SignIn, LoyaltyV1, WebAddresses, Functions

Init ==
  /\ db = [users |-> [u \in Ids |-> IF u = first THEN NewUser(firstKey, FALSE, NoSecret) ELSE NoRow],
           challenges |-> [k \in Keys |-> NoRow],
           tickets |-> [n \in Nonces |-> NoRow],
           wallets |-> [u \in Ids |-> IF u = first THEN OpeningWallet ELSE NoRow],
           bills |-> [b \in Bills |-> NewBill(Price[b])],
           addresses |-> [i \in AddressIds |->
             IF i = first THEN [label |-> firstLabel, at |-> Epoch] ELSE NoRow]]
  /\ stale = db
  /\ now = Epoch
  /\ call = [c \in Calls |-> Blank]
  /\ raced = FALSE
  /\ died = FALSE

-----------------------------------------------------------------------------
(* What clients ask for, by route *)

Asks(o, step) == [Blank EXCEPT !.op = o, !.step = step]
Timed(o, step) == [Asks(o, step) EXCEPT !.at = now]

OnboardRequests == {Onboarding(Asks("onboard", "idle"), k) : k \in Keys}

(* A route that looks a wallet up wants a number, and goes on with its     *)
(* canonical form                                                          *)
WalletsOf(keys) == {Onboarding(Asks("wallet", "idle"), Canon(k)) : k \in {l \in keys : IsPhone(l)}}
WalletRequests == WalletsOf(Keys)

StaffLogin(k, p) == [Asks("staffLogin", "read") EXCEPT !.key = k, !.given = p]
NewUsers == {user \in UserType : /\ user.password # NoSecret /\ KeysOf(user) \subseteq Keys
                                 /\ user.mail => IsPhone(user.key)}
CreateUser(user) ==
  [Asks("createUser", "check") EXCEPT !.row = user, !.todo = KeysOf(user)]

(* By an admin (no current password), or by a user for itself *)
ChangePassword(u, g, p) ==
  [Asks("changePassword", "read") EXCEPT !.user = u, !.given = g, !.arg = p]

StaffRequests ==
  {StaffLogin(k, p) : k \in Keys, p \in Passwords}
  \cup {CreateUser(user) : user \in NewUsers}
  \cup {ChangePassword(u, g, p) : u \in {v \in Ids : db.users[v] # NoRow},
                                  g \in Passwords \cup {NoSecret}, p \in Passwords}

(* A WhatsApp message asks for a login, a balance, or nothing of the store *)
Batches == {<<m>> : m \in Message} \cup {<<m, n>> : m \in Message, n \in Message}
InboundKeys(o) == {k \in SignInKeys : \E b \in Batches : [op |-> o, key |-> k] \in Inbound(b)}
LoginKeys == InboundKeys("login")
BalanceKeys == InboundKeys("wallet")
InboundRequests ==
  {Onboarding(Timed("login", "idle"), k) : k \in LoginKeys} \cup WalletsOf(BalanceKeys)

Send(k) == [Timed("send", "read") EXCEPT !.key = k]
Verify(k, g) == [Timed("verify", "read") EXCEPT !.key = k, !.given = g]
Continue(n) == [Timed("continue", "delete") EXCEPT !.arg = n]

SignInRequests ==
  {Send(k) : k \in SignInKeys} \cup {Verify(k, g) : k \in SignInKeys, g \in Codes}
  \cup {Continue(n) : n \in Nonces}

OnBill(o, u, b) == [Asks(o, "readBill") EXCEPT !.user = u, !.arg = b]

LoyaltyRequests ==
  {OnBill(o, u, b) :
     o \in {"addPoints", "redeem"}, u \in {v \in Ids : db.users[v] # NoRow}, b \in Bills}

Save(l) == [Timed("save", "read") EXCEPT !.arg = l]
SaveAs(i, l) ==
  [Timed("saveAs", "put") EXCEPT !.arg = i, !.row = [label |-> l, at |-> now]]
DeleteAddress(i) == [Asks("deleteAddress", "read") EXCEPT !.arg = i]

AddressRequests ==
  LET known == {i \in AddressIds : db.addresses[i] # NoRow}
  IN {Save(l) : l \in Labels} \cup {SaveAs(i, l) : i \in known \cup {local}, l \in Labels}
     \cup {DeleteAddress(i) : i \in known}

Requests ==
  UNION {OnboardRequests, WalletRequests, StaffRequests, InboundRequests,
         SignInRequests, LoyaltyRequests, AddressRequests}

Start(c) ==
  /\ call[c].step = "idle"
  /\ Cardinality(InFlight) < MaxInFlight
  /\ \E r \in Requests :
       /\ \E m \in Mixes : {r.op} \cup ({call[d].op : d \in Calls} \ {"none"}) \subseteq m
       /\ call' = [call EXCEPT ![c] = r]
  /\ raced' = (raced \/ InFlight # {} \/ stale # db)
  /\ UNCHANGED <<db, stale, now, died>>

-----------------------------------------------------------------------------

(* The Lambda is killed, or the store fails a request *)
Die(c) ==
  /\ c \in InFlight
  /\ Over(c)
  /\ died' = TRUE
  /\ UNCHANGED <<db, stale, now, raced>>

(* Replicas and indexes catch up *)
CatchUp ==
  /\ stale # db
  /\ stale' = db
  /\ UNCHANGED <<db, now, call, raced, died>>

(* Time matters once a call has read the clock *)
Tick ==
  /\ now < MaxTime
  /\ \E c \in Calls : call[c].op \in {"send", "verify", "login", "continue", "save", "saveAs"}
  /\ now' = now + 1
  /\ UNCHANGED <<db, stale, call, raced, died>>

AllDone ==
  /\ \A c \in Calls : call[c].step = "done"
  /\ UNCHANGED vars

Next ==
  \/ \E c \in Calls :
       \/ Start(c) \/ AccountStep(c) \/ SignInStep(c) \/ LoyaltyStep(c) \/ AddressStep(c)
       \/ Die(c)
  \/ /\ \E c \in Calls : call[c].step # "done"
     /\ CatchUp \/ Tick \/ SweepsChallenge \/ SweepsTicket
  \/ AllDone

Spec == Init /\ [][Next]_vars

-----------------------------------------------------------------------------
(* Properties.  As in module TableService nothing orders the calls: some   *)
(* of what the service promises holds only for calls that come one after   *)
(* the other ("raced" is FALSE).                                           *)

(* users/phone.go:25, the forms "that may already exist": one call after   *)
(* the other, a customer is created only for a number that no row has in   *)
(* any of those forms, whichever form and route it came by.                *)
GuestsOnlyOnFirstContact ==
  [][\A c \in Calls :
       (/\ ~raced' /\ call[c].op # "createUser"
        /\ db.users[c] = NoRow /\ db'.users[c] # NoRow) =>
       \A u \in Ids : db.users[u] # NoRow =>
         ~ /\ db.users[u].key[1] = call[c].key[1]
           /\ \E i \in DOMAIN LookupForms : LookupForms[i] = db.users[u].key[2]]_vars

(* Whatever races, lags or dies: who a call is answered to be has the      *)
(* number it named, and who continues with a ticket has the number that    *)
(* asked for the link.                                                     *)
AnsweredBy(o) == {c \in Calls : call[c].op = o /\ call[c].step = "done" /\ call[c].user # NoUser}
AnswersMatchPhone ==
  \A o \in Ops : \A c \in AnsweredBy(o) :
    /\ db.users[call[c].user] # NoRow
    /\ db.users[call[c].user].key[1] =
         IF o = "continue" THEN call[c].row.sender[1] ELSE call[c].key[1]

(* "One-time nonce" (login_service.go:24): a ticket signs in at most one   *)
(* continue, also when several race for it.                                *)
TicketsOnce ==
  \A c, d \in AnsweredBy("continue") : c # d => call[c].row.by # call[d].row.by

(* A ticket that was answered is there until somebody uses it or it gets   *)
(* too old, whatever nonces later logins draw.                             *)
TicketsKept ==
  \A c \in AnsweredBy("login") :
    \/ db.tickets[call[c].arg] # NoRow /\ db.tickets[call[c].arg].by = c
    \/ now > call[c].at + TicketLife
    \/ \E d \in Calls : /\ call[d].op = "continue" /\ call[d].row # NoRow
                        /\ call[d].row.by = c

(* One call after the other: a code that was sent signs in once, and not   *)
(* after MaxAttempts wrong codes (unless the count of one was lost).       *)
WrongFor(s) ==
  {c \in Calls : /\ call[c].op = "verify" /\ call[c].step = "done" /\ call[c].row # NoRow
                 /\ call[c].row.by = s /\ call[c].row.code # call[c].given}
CodesSignInOnce ==
  ~raced => \A c \in AnsweredBy("verify") :
    /\ \A d \in AnsweredBy("verify") : d # c => call[d].row.by # call[c].row.by
    /\ ~died => Cardinality(WrongFor(call[c].row.by)) < MaxAttempts

(* "Idempotent" (loyalty_service.go:69, 141): one call after the other and *)
(* none dying, a wallet has earned and redeemed what its bills say, once.  *)
BillsOf(u) == {b \in Bills : db.bills[b].owner = u}
LedgerMatches ==
  (~raced /\ ~died /\ InFlight = {}) => \A u \in Ids :
    /\ Points(db.wallets[u]).earned =
         (IF u = first THEN Opening ELSE 0)
           + SumFunctionOnSet([b \in Bills |-> db.bills[b].earned], BillsOf(u))
    /\ Points(db.wallets[u]).redeemed =
         SumFunctionOnSet([b \in Bills |-> db.bills[b].redeemed], BillsOf(u))

(* Whatever races or dies: what a wallet holds is what it earned less what *)
(* was redeemed.                                                           *)
WalletAccounts ==
  \A u \in Ids : db.wallets[u] # NoRow =>
    db.wallets[u].balance + db.wallets[u].redeemed = db.wallets[u].earned

(* Whatever races or dies: a bill's points discount and what is left to    *)
(* pay add up to its price, also when the points are worth more.           *)
BillAddsUp ==
  \A b \in Bills : db.bills[b].total + db.bills[b].discount = db.bills[b].price

(* web_address.go:184, "so that Home updates in place": one call after the *)
(* other, saving without an id adds no second address of a label.          *)
LabelsStayUnique ==
  [][\A c \in Calls :
       (/\ ~raced' /\ call[c].op = "save"
        /\ db.addresses[c] = NoRow /\ db'.addresses[c] # NoRow) =>
       \A i \in AddressIds : db.addresses[i] # NoRow =>
         db.addresses[i].label[1] # db'.addresses[c].label[1]]_vars

=============================================================================
