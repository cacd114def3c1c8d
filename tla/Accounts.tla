------------------------------ MODULE Accounts ------------------------------
(***************************************************************************)
(* Users and their wallets: api/users/user_service.go and phone.go, and    *)
(* api/loyalty/wallet_provider.go.  A customer is created on first contact *)
(* and found again by any form of the phone number; staff are created with *)
(* a password and found only by the very key they registered.              *)
(***************************************************************************)
EXTENDS CustomerStore

(* CanonicalPhone accepts every form of a mobile number *)
IsPhone(k) == k[2] # "other"
Canon(k) == <<k[1], "canon">>
Mail(k) == <<k[1], "other">>

ASSUME CanonInUse == \A k \in Keys : IsPhone(k) => Canon(k) \in Keys

(* PhoneLookupKeys: the number as given, then the forms it may be stored   *)
(* in, in this order; forms nobody uses find nothing and are left out.     *)
LookupForms == <<"canon", "ten", "plus", "zero">>
LookupKeys_given(k) == {k}
LookupKeys(k) ==
  {l \in Keys : l = k \/ (l[1] = k[1] /\ \E i \in DOMAIN LookupForms : LookupForms[i] = l[2])}

Rank(l, k) == IF l = k THEN 0 ELSE CHOOSE i \in DOMAIN LookupForms : LookupForms[i] = l[2]

(* The key that c looks up next *)
IsNext(c, l) ==
  l \in call[c].todo /\ \A m \in call[c].todo : Rank(l, call[c].key) <= Rank(m, call[c].key)

(* A query of GSI_Phone or GSI_Email with Limit 1: one of the rows it may  *)
(* show, or none if it may still miss every one.                           *)
Matches_unkeyed(row, k) == row # NoRow
KeysOf(row) == {row.key} \cup (IF row.mail THEN {Mail(row.key)} ELSE {})
Matches(row, k) == row # NoRow /\ k \in KeysOf(row)
Finds(k, u, row) == row \in SeenUser(u) /\ Matches(row, k)
MayMiss(k) == \A u \in Ids : \E row \in SeenUser(u) : ~Matches(row, k)

NewUser(k, m, p) == [key |-> k, mail |-> m, password |-> p]

-----------------------------------------------------------------------------
(* CreateOrGetCustomer, as every caller of it runs it.  "After" is where   *)
(* the caller goes on with the user.                                       *)

(* A call that starts with it, asked for the key k; a number that is not   *)
(* one fails at once                                                       *)
Onboarding(call0, k) ==
  IF IsPhone(k) THEN [call0 EXCEPT !.step = "lookup", !.key = k, !.todo = LookupKeys(k)]
                ELSE [call0 EXCEPT !.step = "done"]

After(o) == CASE o = "onboard" -> "done"
              [] o = "login" -> "putTicket"
              [] OTHER -> "readWallet"

FindsCustomer(c) ==
  /\ At(c, "lookup")
  /\ \E l \in call[c].todo, u \in Ids : \E row \in SeenUser(u) :
       /\ IsNext(c, l) /\ Finds(l, u, row)
       /\ call' = [call EXCEPT ![c].step = After(call[c].op), ![c].user = u, ![c].todo = {}]
  /\ Reads

MissesCustomer(c) ==
  /\ At(c, "lookup")
  /\ \E l \in call[c].todo :
       /\ IsNext(c, l) /\ MayMiss(l)
       /\ call' = [call EXCEPT ![c].todo = @ \ {l}]
  /\ Reads

PutsCustomer(c) ==
  /\ At(c, "lookup") /\ call[c].todo = {}
  /\ db' = [db EXCEPT !.users[c] = NewUser(Canon(call[c].key), FALSE, NoSecret)]
  /\ call' = [call EXCEPT ![c].step = After(call[c].op), ![c].user = c]
  /\ Aside

(* GetOrCreateByPhone and Verify go on to the wallet; one that was never   *)
(* written is put, empty, without a condition.                             *)
ReadsWallet(c) ==
  /\ At(c, "readWallet")
  /\ \E w \in SeenWallet(call[c].user) :
       IF w = NoRow THEN Goto(c, "putWallet") ELSE Answer(c, call[c].user)
  /\ Reads

PutsEmptyWallet(c) ==
  /\ At(c, "putWallet")
  /\ db' = [db EXCEPT !.wallets[call[c].user] = EmptyWallet]
  /\ Answer(c, call[c].user)
  /\ Aside

-----------------------------------------------------------------------------
(* CreateUser, also by BootstrapFirstUser: the e-mail, then the phone must *)
(* be free as given.  An error of a query is dropped, and the user created *)
(* all the same.                                                           *)

Checks(c, l) ==
  /\ Doing(c, "createUser", "check")
  /\ l \in call[c].todo
  /\ IsPhone(l) => \A m \in call[c].todo : IsPhone(m)

KeyTaken(c) ==
  /\ \E l \in call[c].todo, u \in Ids : \E row \in SeenUser(u) : Checks(c, l) /\ Finds(l, u, row)
  /\ Over(c)
  /\ Reads

KeySeemsFree(c) ==
  /\ \E l \in call[c].todo :
       /\ Checks(c, l)
       /\ call' = [call EXCEPT ![c].todo = @ \ {l}]
       /\ IF MayMiss(l) THEN UNCHANGED died ELSE died' = TRUE
  /\ UNCHANGED <<db, stale, now, raced>>

PutsUser(c) ==
  /\ Doing(c, "createUser", "check") /\ call[c].todo = {}
  /\ db' = [db EXCEPT !.users[c] = call[c].row]
  /\ Over(c)
  /\ Aside

-----------------------------------------------------------------------------
(* Login, by staff, with the key as given *)

PasswordFits(row, p) == row.password # NoSecret /\ row.password = p

StaffLogsIn(c) ==
  /\ Doing(c, "staffLogin", "read")
  /\ \E u \in Ids : \E row \in SeenUser(u) :
       /\ Finds(call[c].key, u, row)
       /\ IF PasswordFits(row, call[c].given)
            THEN Answer(c, u)
            ELSE Over(c)
  /\ Reads

StaffUnknown(c) ==
  /\ Doing(c, "staffLogin", "read")
  /\ MayMiss(call[c].key)
  /\ Over(c)
  /\ Reads

(* ChangePassword: an admin needs no password, others the current one *)
ChangeReads(c) ==
  /\ Doing(c, "changePassword", "read")
  /\ \E row \in SeenUser(call[c].user) :
       IF row # NoRow /\ (call[c].given = NoSecret \/ PasswordFits(row, call[c].given))
         THEN call' = [call EXCEPT ![c].step = "put",
                                   ![c].row = [row EXCEPT !.password = call[c].arg]]
         ELSE Over(c)
  /\ Reads

ChangePuts(c) ==
  /\ Doing(c, "changePassword", "put")
  /\ db' = [db EXCEPT !.users[call[c].user] = call[c].row]
  /\ Over(c)
  /\ Aside

AccountStep(c) ==
  \/ FindsCustomer(c) \/ MissesCustomer(c) \/ PutsCustomer(c)
  \/ ReadsWallet(c) \/ PutsEmptyWallet(c)
  \/ KeyTaken(c) \/ KeySeemsFree(c) \/ PutsUser(c)
  \/ StaffLogsIn(c) \/ StaffUnknown(c) \/ ChangeReads(c) \/ ChangePuts(c)

=============================================================================
