----------------------- MODULE InvoiceCounter_proofs -----------------------
(***************************************************************************)
(* Facts about one transaction of an invoice Durable Object, for the       *)
(* proofs of the modules that use the counter.                             *)
(***************************************************************************)
EXTENDS InvoiceCounter, TLAPS

(* What IssueNew writes, spelled out entry by entry. *)
LEMMA IssueNewEffect ==
  ASSUME CounterTypeOK, NEW y \in Years, NEW k \in Keys, IssueNew(y, k)
  PROVE  /\ counter[y] \in Nat
         /\ counter[y] + 1 \in Sequences
         /\ counter' \in [Years -> 0..MaxSeq]
         /\ byBill' \in [Years -> [Keys -> 0..MaxSeq]]
         /\ byInvoice' \in [Years -> [Sequences -> Keys \cup {NoKey}]]
         /\ counter'[y] = counter[y] + 1
         /\ byBill'[y][k] = counter[y] + 1
         /\ byInvoice'[y][counter[y] + 1] = k
         /\ \A z \in Years : z # y =>
              counter'[z] = counter[z] /\ byBill'[z] = byBill[z] /\ byInvoice'[z] = byInvoice[z]
         /\ \A j \in Keys : j # k => byBill'[y][j] = byBill[y][j]
         /\ \A s \in Sequences : s # counter[y] + 1 => byInvoice'[y][s] = byInvoice[y][s]
<1>1. MaxSeq \in Nat /\ counter[y] \in Nat /\ counter[y] < MaxSeq
  BY CounterAssumption DEF CounterTypeOK, IssueNew
<1>2. counter[y] + 1 \in Sequences /\ counter[y] + 1 \in 0..MaxSeq
  BY <1>1 DEF Sequences
<1>3. /\ counter' \in [Years -> 0..MaxSeq]
      /\ byBill' \in [Years -> [Keys -> 0..MaxSeq]]
      /\ byInvoice' \in [Years -> [Sequences -> Keys \cup {NoKey}]]
  BY <1>2 DEF CounterTypeOK, IssueNew
<1> QED
  BY <1>1, <1>2, <1>3 DEF CounterTypeOK, IssueNew

(* A transaction of the object leaves the record well typed. *)
LEMMA NextInvoiceTypes ==
  ASSUME CounterTypeOK, NEW y \in Years, NEW k \in Keys, NextInvoice(y, k)
  PROVE  CounterTypeOK' /\ byBill'[y][k] \in Sequences
<1>1. CASE ReturnExisting(y, k)
  <2>1. byBill[y][k] \in 0..MaxSeq /\ byBill[y][k] # 0 /\ UNCHANGED counterVars
    BY <1>1 DEF CounterTypeOK, ReturnExisting, AlreadyNumbered
  <2> QED
    BY <2>1, CounterAssumption DEF CounterTypeOK, counterVars, Sequences
<1>2. CASE IssueNew(y, k)
  BY <1>2, IssueNewEffect DEF CounterTypeOK
<1> QED
  BY <1>1, <1>2 DEF NextInvoice

(* Issuing a number keeps the two maps each other's inverse. *)
LEMMA IssueKeepsMaps ==
  ASSUME CounterTypeOK, MapsAgree, NEW y \in Years, NEW k \in Keys, IssueNew(y, k)
  PROVE  MapsAgree'
<1> DEFINE n == counter[y] + 1
<1>1. /\ n \in Sequences /\ n > counter[y] /\ counter'[y] = n
      /\ byBill'[y][k] = n /\ byInvoice'[y][n] = k
      /\ byBill[y][k] = 0
  <2>1. counter[y] \in Nat /\ n \in Sequences /\ counter'[y] = n
    BY IssueNewEffect
  <2>2. byBill'[y][k] = n /\ byInvoice'[y][n] = k
    BY IssueNewEffect
  <2>3. byBill[y][k] = 0
    BY DEF IssueNew, AlreadyNumbered
  <2> QED
    BY <2>1, <2>2, <2>3
<1>2. byInvoice[y][n] = NoKey
  BY <1>1, CounterAssumption DEF MapsAgree, CounterTypeOK
<1>3. ASSUME NEW z \in Years, NEW j \in Keys, byBill'[z][j] # 0
      PROVE  byInvoice'[z][byBill'[z][j]] = j
  <2>1. CASE z = y /\ j = k
    BY <1>1, <2>1
  <2>2. CASE z = y /\ j # k
    <3>1. byBill'[y][j] = byBill[y][j] /\ byBill[y][j] \in Sequences
      BY <1>3, <2>2, IssueNewEffect, CounterAssumption
      DEF CounterTypeOK, Sequences
    <3>2. byInvoice[y][byBill[y][j]] = j
      BY <1>3, <2>2, <3>1 DEF MapsAgree
    <3>3. byBill[y][j] # n
      BY <1>2, <3>2, CounterAssumption
    <3> QED
      BY <2>2, <3>1, <3>2, <3>3, IssueNewEffect
  <2>3. CASE z # y
    BY <1>3, <2>3, IssueNewEffect DEF MapsAgree
  <2> QED
    BY <2>1, <2>2, <2>3
<1>4. ASSUME NEW z \in Years, NEW s \in Sequences
      PROVE  IF s <= counter'[z]
               THEN byInvoice'[z][s] \in Keys /\ byBill'[z][byInvoice'[z][s]] = s
               ELSE byInvoice'[z][s] = NoKey
  <2>1. CASE z # y
    <3>1. counter'[z] = counter[z] /\ byBill'[z] = byBill[z] /\ byInvoice'[z] = byInvoice[z]
      BY <2>1, IssueNewEffect
    <3> QED
      BY <3>1 DEF MapsAgree
  <2>2. CASE z = y /\ s = n
    BY <1>1, <2>2
  <2>3. CASE z = y /\ s # n
    <3>1. byInvoice'[y][s] = byInvoice[y][s] /\ (s <= counter'[y] <=> s <= counter[y])
      <4>1. counter[y] \in Nat /\ s \in Nat
        BY IssueNewEffect, CounterAssumption DEF Sequences
      <4>2. byInvoice'[y][s] = byInvoice[y][s]
        BY <2>3, IssueNewEffect
      <4> QED
        BY <1>1, <2>3, <4>1, <4>2
    <3>2. s <= counter[y] => byInvoice[y][s] \in Keys /\ byBill[y][byInvoice[y][s]] = s
      BY DEF MapsAgree
    <3>3. s <= counter[y] => byInvoice[y][s] # k
      BY <1>1, <3>2 DEF Sequences
    <3>4. s <= counter[y] => byBill'[y][byInvoice[y][s]] = s
      BY <3>2, <3>3, IssueNewEffect
    <3>5. ~(s <= counter[y]) => byInvoice[y][s] = NoKey
      BY DEF MapsAgree
    <3> QED
      BY <2>3, <3>1, <3>2, <3>4, <3>5
  <2> QED
    BY <2>1, <2>2, <2>3
<1> QED
  BY <1>3, <1>4 DEF MapsAgree

(* So does a whole transaction, whichever branch it takes. *)
LEMMA NextInvoiceKeepsMaps ==
  ASSUME CounterTypeOK, MapsAgree, NEW y \in Years, NEW k \in Keys, NextInvoice(y, k)
  PROVE  MapsAgree'
<1>1. CASE ReturnExisting(y, k)
  BY <1>1 DEF ReturnExisting, counterVars, MapsAgree
<1>2. CASE IssueNew(y, k)
  BY <1>2, IssueKeepsMaps
<1> QED
  BY <1>1, <1>2 DEF NextInvoice

(* A number a bill has is never taken back. *)
LEMMA NumbersStay ==
  ASSUME CounterTypeOK, NEW y \in Years, NEW k \in Keys, NextInvoice(y, k),
         NEW z \in Years, NEW j \in Keys, byBill[z][j] # 0
  PROVE  byBill'[z][j] = byBill[z][j]
<1>1. CASE ReturnExisting(y, k)
  BY <1>1 DEF ReturnExisting, counterVars
<1>2. CASE IssueNew(y, k)
  BY <1>2, IssueNewEffect DEF IssueNew, AlreadyNumbered
<1> QED
  BY <1>1, <1>2 DEF NextInvoice

(* Empty objects agree. *)
LEMMA InitMapsAgree == CounterInit => CounterTypeOK /\ MapsAgree
<1> SUFFICES ASSUME CounterInit PROVE CounterTypeOK /\ MapsAgree
  OBVIOUS
<1>1. CounterTypeOK
  BY CounterAssumption DEF CounterInit, CounterTypeOK
<1>2. \A y \in Years, s \in Sequences : ~(s <= counter[y]) /\ byInvoice[y][s] = NoKey
  BY CounterAssumption DEF CounterInit, Sequences
<1>3. \A y \in Years, k \in Keys : byBill[y][k] = 0
  BY DEF CounterInit
<1> QED
  BY <1>1, <1>2, <1>3 DEF MapsAgree

=============================================================================
