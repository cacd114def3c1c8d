------------------------ MODULE InvoiceWorker_proofs ------------------------
(***************************************************************************)
(* The invoice worker for any set of bills, any number of years and any    *)
(* bound on the sequence.  The inductive invariant is TypeOK, MapsAgree    *)
(* and RepliesRecorded: every reply ever sent is still on record.          *)
(***************************************************************************)
EXTENDS InvoiceWorker, InvoiceCounter_proofs, SequenceTheorems

RepliesRecorded == \A r \in replies : byBill[r.year][r.key] = r.seq

IInv == TypeOK /\ MapsAgree /\ RepliesRecorded

(* Type correctness: replies carry numbers of the year's range. *)
THEOREM WorkerTypeOK == Spec => []TypeOK
<1>1. Init => TypeOK
  BY CounterAssumption DEF Init, CounterInit, TypeOK, CounterTypeOK, Years
<1>2. TypeOK /\ [Next]_workerVars => TypeOK'
  <2> SUFFICES ASSUME TypeOK, [Next]_workerVars PROVE TypeOK'
    OBVIOUS
  <2>1. ASSUME NEW k \in Keys, Route(k) PROVE TypeOK'
    BY <2>1 DEF Route, TypeOK, CounterTypeOK, counterVars
  <2>2. ASSUME NEW k \in Keys, NEW y \in Years, Serve(k, y) PROVE TypeOK'
    <3>1. CounterTypeOK' /\ byBill'[y][k] \in Sequences
      BY <2>2, NextInvoiceTypes DEF Serve, TypeOK
    <3> QED
      BY <2>2, <3>1 DEF Serve, TypeOK, Replies
  <2>5. ASSUME NEW k \in Keys, NEW y \in Years, Fail(k, y) PROVE TypeOK'
    BY <2>5 DEF Fail, TypeOK, CounterTypeOK, counterVars
  <2>3. CASE NewYear
    <3>1. year' \in Years
      BY <2>3, CounterAssumption DEF NewYear, TypeOK, Years
    <3> QED
      BY <2>3, <3>1 DEF NewYear, TypeOK, CounterTypeOK, counterVars
  <2>4. CASE UNCHANGED workerVars
    BY <2>4 DEF workerVars, TypeOK, CounterTypeOK
  <2> QED
    BY <2>1, <2>2, <2>3, <2>4, <2>5 DEF Next
<1> QED
  BY <1>1, <1>2, PTL DEF Spec

(* The inductive invariant. *)
LEMMA InductiveInvariant ==
  IInv /\ TypeOK' /\ [Next]_workerVars => IInv'
<1> SUFFICES ASSUME IInv, TypeOK', [Next]_workerVars
             PROVE  MapsAgree' /\ RepliesRecorded'
  BY DEF IInv
<1> USE DEF IInv
<1>1. ASSUME UNCHANGED <<counterVars, replies>> PROVE MapsAgree' /\ RepliesRecorded'
  BY <1>1 DEF MapsAgree, RepliesRecorded, counterVars
<1>2. ASSUME NEW k \in Keys, NEW y \in Years, Serve(k, y)
      PROVE  MapsAgree' /\ RepliesRecorded'
  <2>1. MapsAgree'
    BY <1>2, NextInvoiceKeepsMaps DEF Serve, TypeOK
  <2>2. ASSUME NEW z \in Years, NEW j \in Keys, byBill[z][j] # 0
        PROVE  byBill'[z][j] = byBill[z][j]
    BY <1>2, <2>2, NumbersStay DEF Serve, TypeOK
  <2>3. ASSUME NEW r \in replies PROVE byBill'[r.year][r.key] = r.seq
    <3>1. r.year \in Years /\ r.key \in Keys /\ r.seq # 0 /\ byBill[r.year][r.key] = r.seq
      BY <2>3 DEF TypeOK, Replies, RepliesRecorded, Sequences
    <3> QED
      BY <2>2, <3>1
  <2> QED
    BY <1>2, <2>1, <2>3 DEF Serve, RepliesRecorded
<1>3. CASE \E k \in Keys : Route(k)
  BY <1>1, <1>3 DEF Route
<1>6. CASE \E k \in Keys, y \in Years : Fail(k, y)
  BY <1>1, <1>6 DEF Fail
<1>4. CASE NewYear
  BY <1>1, <1>4 DEF NewYear
<1>5. CASE UNCHANGED workerVars
  BY <1>1, <1>5 DEF workerVars, counterVars
<1> QED
  BY <1>2, <1>3, <1>4, <1>5, <1>6 DEF Next

LEMMA InvariantHolds == Spec => []IInv
<1>1. Init => MapsAgree /\ RepliesRecorded
  BY InitMapsAgree DEF Init, RepliesRecorded
<1> QED
  BY <1>1, WorkerTypeOK, InductiveInvariant, PTL DEF Spec, IInv

(* No two bills ever share an invoice number, and no number is skipped:    *)
(* the counter and the two maps agree in every reachable state.            *)
THEOREM WorkerMapsAgree == Spec => []MapsAgree
BY InvariantHolds, PTL DEF IInv

(* Whatever was lost and asked again, replies never contradict each other. *)
THEOREM WorkerRepliesAgree == Spec => []RepliesAgree
<1>1. IInv => RepliesAgree
  <2> SUFFICES ASSUME IInv, NEW r1 \in replies, NEW r2 \in replies, r1.year = r2.year
               PROVE  (r1.key = r2.key) <=> (r1.seq = r2.seq)
    BY DEF RepliesAgree
  <2>1. /\ r1.year \in Years /\ r1.key \in Keys /\ r1.seq \in Sequences
        /\ r2.year \in Years /\ r2.key \in Keys /\ r2.seq \in Sequences
    BY DEF IInv, TypeOK, Replies
  <2>2. byBill[r1.year][r1.key] = r1.seq /\ byBill[r2.year][r2.key] = r2.seq
    BY DEF IInv, RepliesRecorded
  <2>3. byInvoice[r1.year][r1.seq] = r1.key /\ byInvoice[r2.year][r2.seq] = r2.key
    BY <2>1, <2>2 DEF IInv, MapsAgree, Sequences
  <2> QED
    BY <2>2, <2>3
<1> QED
  BY <1>1, InvariantHolds, PTL

-----------------------------------------------------------------------------
(* The worker implements the abstract numbering service *)

(* The abstract sequence of a year, and what it becomes when k is issued. *)
LEMMA IssuedIsSeq ==
  ASSUME IInv, NEW y \in Years
  PROVE  /\ Issued[y] \in Seq(Keys)
         /\ Len(Issued[y]) = counter[y]
         /\ \A s \in 1..counter[y] : Issued[y][s] = byInvoice[y][s]
<1>1. counter[y] \in Nat /\ \A s \in 1..counter[y] : s \in Sequences /\ s <= counter[y]
  BY CounterAssumption DEF IInv, TypeOK, CounterTypeOK, Sequences
<1>2. \A s \in 1..counter[y] : byInvoice[y][s] \in Keys
  BY <1>1 DEF IInv, MapsAgree
<1>3. Issued[y] = [s \in 1..counter[y] |-> byInvoice[y][s]]
  BY DEF Issued
<1>4. Issued[y] \in [1..counter[y] -> Keys]
  BY <1>2, <1>3
<1> QED
  BY <1>1, <1>3, <1>4

LEMMA IssueIsAbstract ==
  ASSUME IInv, IInv', NEW y \in Years, NEW k \in Keys, IssueNew(y, k)
  PROVE  Abstract!Issue(y, k)
<1>1. k \notin Abstract!Holders(y)
  <2> SUFFICES ASSUME NEW s \in 1..counter[y], byInvoice[y][s] = k PROVE FALSE
    BY IssuedIsSeq DEF Abstract!Holders
  <2>1. s \in Sequences /\ s <= counter[y] /\ s # 0
    BY CounterAssumption DEF IInv, TypeOK, CounterTypeOK, Sequences
  <2>2. byBill[y][k] = s
    BY <2>1 DEF IInv, MapsAgree
  <2> QED
    BY <2>1, <2>2 DEF IssueNew, AlreadyNumbered
<1>2. Issued'[y] = Append(Issued[y], k)
  <2> DEFINE n == counter[y] + 1
  <2>1. /\ counter[y] \in Nat /\ counter'[y] = n /\ byInvoice'[y][n] = k
        /\ \A s \in 1..counter[y] : byInvoice'[y][s] = byInvoice[y][s]
    <3>1. CounterTypeOK
      BY DEF IInv, TypeOK
    <3>2. counter[y] \in Nat /\ n \in Sequences /\ counter'[y] = n /\ byInvoice'[y][n] = k
      BY <3>1, IssueNewEffect
    <3>3. ASSUME NEW s \in 1..counter[y] PROVE byInvoice'[y][s] = byInvoice[y][s]
      <4>1. s \in Sequences /\ s # n
        BY <3>2, CounterAssumption DEF Sequences
      <4> QED
        BY <3>1, <4>1, IssueNewEffect
    <3> QED
      BY <3>2, <3>3
  <2>2. Issued'[y] = [s \in 1..n |-> byInvoice'[y][s]]
    BY <2>1 DEF Issued
  <2>3. /\ Issued[y] \in Seq(Keys) /\ Len(Issued[y]) = counter[y]
        /\ \A s \in 1..counter[y] : Issued[y][s] = byInvoice[y][s]
    BY IssuedIsSeq
  <2>4. /\ Append(Issued[y], k) \in Seq(Keys)
        /\ Len(Append(Issued[y], k)) = n
        /\ \A s \in 1..counter[y] : Append(Issued[y], k)[s] = Issued[y][s]
        /\ Append(Issued[y], k)[n] = k
    BY <2>3, AppendProperties
  <2>5. Issued'[y] \in Seq(Keys) /\ Len(Issued'[y]) = n
    <3>1. \A s \in 1..n : byInvoice'[y][s] \in Keys
      <4>1. \A s \in 1..counter[y] : byInvoice'[y][s] \in Keys
        BY <2>1, <2>3
      <4> QED
        BY <2>1, <4>1
    <3> QED
      BY <2>1, <2>2, <3>1
  <2>6. \A s \in 1..n : Issued'[y][s] = Append(Issued[y], k)[s]
    BY <2>1, <2>2, <2>3, <2>4
  <2> QED
    BY <2>4, <2>5, <2>6, SeqEqual
<1>3. \A z \in Years : z # y => Issued'[z] = Issued[z]
  BY IssueNewEffect DEF Issued, IInv, TypeOK
<1>4. Issued' = [Issued EXCEPT ![y] = Append(@, k)]
  BY <1>2, <1>3 DEF Issued
<1> QED
  BY <1>1, <1>4 DEF Abstract!Issue

(* The refinement the run checks on three bills: every year's numbers are  *)
(* handed out in order, without gaps, for good, each to a new bill.        *)
THEOREM WorkerImplementsGaplessNumbers == Spec => ImplementsGaplessNumbers
<1>1. Init => Abstract!Init
  BY DEF Init, CounterInit, Abstract!Init, Issued
<1>2. IInv /\ IInv' /\ [Next]_workerVars => [Abstract!Next]_Issued
  <2> SUFFICES ASSUME IInv, IInv', [Next]_workerVars PROVE [Abstract!Next]_Issued
    OBVIOUS
  <2>1. ASSUME UNCHANGED counterVars PROVE UNCHANGED Issued
    BY <2>1 DEF counterVars, Issued
  <2>2. ASSUME NEW k \in Keys, NEW y \in Years, Serve(k, y) PROVE [Abstract!Next]_Issued
    <3>1. CASE ReturnExisting(y, k)
      BY <2>1, <3>1 DEF ReturnExisting
    <3>2. CASE IssueNew(y, k)
      BY <3>2, IssueIsAbstract DEF Abstract!Next
    <3> QED
      BY <2>2, <3>1, <3>2 DEF Serve, NextInvoice
  <2> QED
    BY <2>1, <2>2 DEF Next, Route, Fail, NewYear, workerVars, counterVars
<1> QED
  BY <1>1, <1>2, InvariantHolds, PTL DEF Spec, ImplementsGaplessNumbers, Abstract!Spec

=============================================================================
