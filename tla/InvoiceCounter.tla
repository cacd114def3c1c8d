--------------------------- MODULE InvoiceCounter ---------------------------
(***************************************************************************)
(* The storage of the invoice Durable Objects                              *)
(* (invoice-number-cf-worker/src/index.ts, class InvoiceYearCounter).      *)
(* There is one object per UTC year; each keeps a counter, a map from bill *)
(* to invoice ("bill:<id>") and a map from invoice to bill ("inv:<no>").   *)
(* A request is served inside storage.transaction, hence in one step.      *)
(* The invoice number "<year>-<sequence>" is the pair <<year, sequence>>.  *)
(***************************************************************************)
EXTENDS Naturals

CONSTANTS
  Keys,      \* what is numbered: the bill_id values callers send
  LastYear,  \* bound: the calendar is followed for the years 0..LastYear
  MaxSeq,    \* bound: the largest sequence number a year hands out
  NoKey      \* an invoice number nobody holds

ASSUME CounterAssumption ==
  /\ LastYear \in Nat
  /\ MaxSeq \in Nat
  /\ NoKey \notin Keys

VARIABLES
  counter,   \* counter[y]: last sequence handed out in year y
  byBill,    \* byBill[y][k]: the sequence bill k got in year y, 0 for none
  byInvoice  \* byInvoice[y][s]: the bill that holds number s of year y

counterVars == <<counter, byBill, byInvoice>>

Years == 0..LastYear
Sequences == 1..MaxSeq

CounterTypeOK ==
  /\ counter \in [Years -> 0..MaxSeq]
  /\ byBill \in [Years -> [Keys -> 0..MaxSeq]]
  /\ byInvoice \in [Years -> [Sequences -> Keys \cup {NoKey}]]

CounterInit ==
  /\ counter = [y \in Years |-> 0]
  /\ byBill = [y \in Years |-> [k \in Keys |-> 0]]
  /\ byInvoice = [y \in Years |-> [s \in Sequences |-> NoKey]]

(* Deviations a run must notice: the lookup skipped, the maps not written. *)
NeverNumbered(y, k) == FALSE
CounterOnly(y, k) ==
  /\ counter[y] < MaxSeq
  /\ counter' = [counter EXCEPT ![y] = @ + 1]
  /\ UNCHANGED <<byBill, byInvoice>>

AlreadyNumbered(y, k) == byBill[y][k] # 0

(* The bill already has a number this year: the stored payload is returned. *)
ReturnExisting(y, k) ==
  /\ AlreadyNumbered(y, k)
  /\ UNCHANGED counterVars

(* Otherwise the counter moves on and both maps are written with it. *)
IssueNew(y, k) ==
  /\ ~AlreadyNumbered(y, k)
  /\ counter[y] < MaxSeq
  /\ counter' = [counter EXCEPT ![y] = @ + 1]
  /\ byBill' = [byBill EXCEPT ![y][k] = counter[y] + 1]
  /\ byInvoice' = [byInvoice EXCEPT ![y][counter[y] + 1] = k]

(* One transaction of the object of year y; the answer is byBill'[y][k]. *)
NextInvoice(y, k) == ReturnExisting(y, k) \/ IssueNew(y, k)

-----------------------------------------------------------------------------

(* No two bills share an invoice number and the two maps agree: the number *)
(* a bill maps to maps back to that bill, and every number up to the       *)
(* counter is held by exactly one bill (the three puts of one transaction).*)
MapsAgree ==
  \A y \in Years :
    /\ \A k \in Keys : byBill[y][k] # 0 => byInvoice[y][byBill[y][k]] = k
    /\ \A s \in Sequences :
         IF s <= counter[y]
           THEN byInvoice[y][s] \in Keys /\ byBill[y][byInvoice[y][s]] = s
           ELSE byInvoice[y][s] = NoKey

=============================================================================
