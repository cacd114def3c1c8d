------------------------------- MODULE SignIn -------------------------------
(***************************************************************************)
(* How customers sign in: a one-time code sent to their phone              *)
(* (api/loyalty/otp_service.go), or a link answered to a WhatsApp message  *)
(* (api/weborders/login_service.go), which names a ticket that works once. *)
(* Both end in CreateOrGetCustomer (module Accounts).                      *)
(*                                                                         *)
(* A handler reads the clock once, when it begins ("at").  Codes and       *)
(* nonces are drawn at random: any member of a small set, also one that is *)
(* in use.                                                                 *)
(***************************************************************************)
EXTENDS Accounts

CONSTANTS
  Cooldown,    \* before another code may be sent
  CodeLife,    \* how long a code is good
  MaxAttempts, \* wrong codes after which a challenge is closed
  TicketLife,  \* how long a ticket is good
  LoginTries   \* draws of a nonce before login gives up

ASSUME SignInAssumption ==
  /\ Cooldown \in Nat /\ CodeLife \in Nat /\ TicketLife \in Nat
  /\ MaxAttempts \in Nat /\ LoginTries \in Nat
  /\ Epoch >= Cooldown \* no time is near the zero of a row without one

-----------------------------------------------------------------------------
(* Send *)

TooSoon(row, at) == row # NoRow /\ at - row.sentAt < Cooldown

NewChallenge(c, code) ==
  [code |-> code, attempts |-> 0, sentAt |-> call[c].at, ttl |-> call[c].at + CodeLife, by |-> c]

SendReads(c) ==
  /\ Doing(c, "send", "read")
  /\ \E row \in SeenChallenge(call[c].key) :
       IF TooSoon(row, call[c].at) THEN Over(c) ELSE
         \E code \in Codes : call' = [call EXCEPT ![c].step = "put", ![c].given = code]
  /\ Reads

(* The message itself may then fail; the challenge, and its cooldown, stay *)
SendPuts(c) ==
  /\ Doing(c, "send", "put")
  /\ db' = [db EXCEPT !.challenges[call[c].key] = NewChallenge(c, call[c].given)]
  /\ Over(c)
  /\ Aside

-----------------------------------------------------------------------------
(* Verify *)

(* The row is there, not expired, and has attempts left *)
Open(row, at) == row # NoRow /\ row.ttl > at /\ row.attempts < MaxAttempts

VerifyReads(c) ==
  /\ Doing(c, "verify", "read")
  /\ \E row \in SeenChallenge(call[c].key) :
       IF ~Open(row, call[c].at) THEN Over(c) ELSE
         call' = [call EXCEPT ![c].row = row,
                              ![c].step = IF row.code = call[c].given THEN "delete" ELSE "count"]
  /\ Reads

(* IncrementAttempts is an update: on a row deleted meanwhile it creates   *)
(* one that holds nothing but the counter.  An error of it is dropped.     *)
Leftover == [code |-> NoSecret, attempts |-> 1, sentAt |-> 0, ttl |-> 0, by |-> first]
Counted(row) == IF row = NoRow THEN Leftover ELSE [row EXCEPT !.attempts = @ + 1]

VerifyCounts(c) ==
  /\ Doing(c, "verify", "count")
  /\ \/ /\ db' = [db EXCEPT !.challenges[call[c].key] = Counted(@)]
        /\ UNCHANGED died
     \/ /\ died' = TRUE
        /\ UNCHANGED db
  /\ Answer(c, NoUser)
  /\ UNCHANGED <<stale, now, raced>>

(* A right code is used up, and only then the phone looked at *)
UsedUp_kept(row) == row
UsedUp(row) == NoRow

VerifyDeletes(c) ==
  /\ Doing(c, "verify", "delete")
  /\ db' = [db EXCEPT !.challenges[call[c].key] = UsedUp(@)]
  /\ call' = [call EXCEPT ![c] = Onboarding(call[c], call[c].key)]
  /\ Aside

-----------------------------------------------------------------------------
(* StartFromWhatsApp: the customer is found or created, then a ticket put  *)
(* under a nonce that is free, for at most LoginTries draws                *)

Absent_always(row) == TRUE
Absent(row) == row = NoRow

NewTicket(c) ==
  [user |-> call[c].user, ttl |-> call[c].at + TicketLife, by |-> c, sender |-> call[c].key]

PutsTicket(c) ==
  /\ At(c, "putTicket")
  /\ \E n \in Nonces :
       /\ Absent(db.tickets[n])
       /\ db' = [db EXCEPT !.tickets[n] = NewTicket(c)]
       /\ call' = [call EXCEPT ![c] = [Answered(c, call[c].user) EXCEPT !.at = call[c].at, !.arg = n]]
  /\ Aside

NonceInUse(c) ==
  /\ At(c, "putTicket")
  /\ \E n \in Nonces : ~Absent(db.tickets[n])
  /\ IF call[c].tries + 1 < LoginTries
       THEN call' = [call EXCEPT ![c].tries = @ + 1]
       ELSE Over(c)
  /\ Reads

(* ConsumeNonce deletes the ticket and only then looks at its age.  The    *)
(* answer may be lost with the ticket gone.                                *)
Consumed_kept(row) == row
Consumed(row) == NoRow

Continues(c) ==
  /\ Doing(c, "continue", "delete")
  /\ LET row == db.tickets[call[c].arg]
         good == row # NoRow /\ ~(row.ttl < call[c].at)
     IN /\ db' = [db EXCEPT !.tickets[call[c].arg] = Consumed(@)]
        /\ \E user \in {NoUser} \cup (IF good THEN {row.user} ELSE {}) :
             call' = [call EXCEPT ![c] = [Answered(c, user) EXCEPT !.row = row, !.arg = NoArg]]
  /\ Aside

-----------------------------------------------------------------------------
(* DynamoDB deletes rows whose ttl has passed, some time later *)

SweepsChallenge ==
  /\ \E k \in Keys :
       /\ db.challenges[k] # NoRow /\ db.challenges[k].ttl > 0 /\ db.challenges[k].ttl < now
       /\ db' = [db EXCEPT !.challenges[k] = NoRow]
  /\ UNCHANGED <<stale, now, call, raced, died>>

SweepsTicket ==
  /\ \E n \in Nonces :
       /\ db.tickets[n] # NoRow /\ db.tickets[n].ttl < now
       /\ db' = [db EXCEPT !.tickets[n] = NoRow]
  /\ UNCHANGED <<stale, now, call, raced, died>>

SignInStep(c) ==
  \/ SendReads(c) \/ SendPuts(c)
  \/ VerifyReads(c) \/ VerifyCounts(c) \/ VerifyDeletes(c)
  \/ PutsTicket(c) \/ NonceInUse(c) \/ Continues(c)

-----------------------------------------------------------------------------
(* The WhatsApp webhook.  A payload is a batch of messages; the first one  *)
(* with a sender and a text is dealt with and the others are not.  A text  *)
(* is reduced to the patterns found in it, which are tried in this order.  *)

Patterns == {"web login", "order updates", "session", "points"}
NoText == {}
Text == {{"words"} \cup found : found \in SUBSET Patterns}
Message == [sender : SignInKeys \cup {NoKey}, text : Text \cup {NoText}]

HasText(m) == m.sender # NoKey /\ m.text # NoText
FirstText(batch) ==
  {i \in DOMAIN batch : HasText(batch[i]) /\ \A j \in 1..(i - 1) : ~HasText(batch[j])}

Routed(text) ==
  CASE "web login" \in text -> "login"
    [] /\ text \cap {"web login", "order updates"} = {}
       /\ text \cap {"session", "points"} # {} -> "wallet"
    [] OTHER -> "none"

(* The operation, and the number it is for, that a payload comes to, if any *)
Inbound(batch) ==
  {[op |-> Routed(batch[i].text), key |-> batch[i].sender] : i \in FirstText(batch)}

=============================================================================
