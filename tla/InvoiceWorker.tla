---------------------------- MODULE InvoiceWorker ----------------------------
(***************************************************************************)
(* The invoice number worker as its callers see it.  The Cloudflare worker *)
(* reads the UTC year when a request arrives and forwards the request to   *)
(* the Durable Object of that year; the calendar may turn in between, the  *)
(* reply may be lost (the Go client gives up after 10 s) and the caller    *)
(* may ask again for the same bill at any time.  The forwarded request or  *)
(* the transaction may fail: then nothing is stored and the caller is told *)
(* so (500).                                                               *)
(***************************************************************************)
EXTENDS InvoiceCounter, FiniteSets

VARIABLES
  year,    \* the current UTC year
  inbox,   \* requests routed to an object and not served yet: <<bill, year>>
  replies, \* replies the objects sent, whether or not they arrived
  failed   \* requests whose last answer was an error

workerVars == <<counter, byBill, byInvoice, year, inbox, replies, failed>>

Replies == [key : Keys, year : Years, seq : Sequences]

TypeOK ==
  /\ CounterTypeOK
  /\ year \in Years
  /\ inbox \subseteq Keys \X Years
  /\ replies \subseteq Replies
  /\ failed \subseteq Keys \X Years

Init ==
  /\ CounterInit
  /\ year = 0
  /\ inbox = {}
  /\ replies = {}
  /\ failed = {}

(* The worker's fetch: choose the object from the year it is now. *)
Route(k) ==
  /\ inbox' = inbox \cup {<<k, year>>}
  /\ failed' = failed \ {<<k, year>>}
  /\ UNCHANGED <<counterVars, year, replies>>

(* The object's fetch.  A caller whose reply is lost routes again. *)
Serve(k, y) ==
  /\ <<k, y>> \in inbox
  /\ NextInvoice(y, k)
  /\ inbox' = inbox \ {<<k, y>>}
  /\ replies' = replies \cup {[key |-> k, year |-> y, seq |-> byBill'[y][k]]}
  /\ UNCHANGED <<year, failed>>

(* The forwarded request or the object's transaction fails: an error is    *)
(* answered, and the transaction stored nothing.                           *)
Fail(k, y) ==
  /\ <<k, y>> \in inbox
  /\ inbox' = inbox \ {<<k, y>>}
  /\ failed' = failed \cup {<<k, y>>}
  /\ UNCHANGED <<counterVars, year, replies>>

NewYear ==
  /\ year < LastYear
  /\ year' = year + 1
  /\ UNCHANGED <<counterVars, inbox, replies, failed>>

Next ==
  \/ \E k \in Keys : Route(k)
  \/ \E k \in Keys, y \in Years : Serve(k, y) \/ Fail(k, y)
  \/ NewYear

(* The object's fetch always answers, with a number or with an error.      *)
Fairness == \A k \in Keys, y \in Years : WF_workerVars(Serve(k, y) \/ Fail(k, y))

Spec == Init /\ [][Next]_workerVars /\ Fairness

-----------------------------------------------------------------------------

(* Callers of one year who ask for one bill all get one answer, whichever  *)
(* reply was lost, and different bills never get the same one.             *)
RepliesAgree ==
  \A r1, r2 \in replies :
    r1.year = r2.year => ((r1.key = r2.key) <=> (r1.seq = r2.seq))

(* The Durable Objects hand out each year's numbers without gaps and for   *)
(* good: the detailed worker implements the abstract numbering service.    *)
Issued == [y \in Years |-> [s \in 1..counter[y] |-> byInvoice[y][s]]]
Abstract == INSTANCE GaplessNumbers WITH issued <- Issued
ImplementsGaplessNumbers == Abstract!Spec

(* A routed request is never swallowed: the bill ends up with a number of  *)
(* that year, even if the reply to it is lost, or the last answer about it *)
(* is an error and the number is still to be had by asking again.          *)
RoutedIsAnswered ==
  \A k \in Keys, y \in Years :
    (<<k, y>> \in inbox) ~> (byBill[y][k] # 0 \/ <<k, y>> \in failed)

=============================================================================
