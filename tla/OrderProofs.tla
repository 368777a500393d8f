--------------------------- MODULE OrderProofs ------------------------------
(***************************************************************************)
(* What happens to an order after it is paid: the theorems of Returns and of*)
(* Fulfillment.                                                            *)
(***************************************************************************)
EXTENDS Returns, Fulfillment, Integers, FiniteSetTheorems, WellFoundedInduction, TLAPS

(***************************************************************************)
(* A return is refunded once and its label bought once, but for the races  *)
(* and the losses that are counted, for any number of requests.            *)
(***************************************************************************)
(* A refunded return is never what a request read: each handler refuses it. *)
SeenInv == \A r \in Requests : req[r] # NoRequest => req[r].seen # "refunded"

RefundInv == /\ ret.status # "refunded" => refunds <= overwrites
             /\ refunds <= 1 + overwrites

(* A label request that is about to store its label says so in the row; no  *)
(* request writes a row back to pending.                                    *)
OpInv == \A r \in Requests :
            req[r] # NoRequest => /\ req[r].op.to # "pending"
                                  /\ req[r].pc = "write" => req[r].op.kind # "label"

(* The requests that may still have a label bought, or that leave the row   *)
(* in a state in which one can be.                                          *)
Buying(d) == \/ d.pc = "buy"
             \/ d.pc = "write" /\ d.op.kind # "refund" /\ d.op.to = "approved"
Buyers == {r \in Active : Buying(req[r])}

Open == ret.status \in {"none", "pending", "approved"}

(* What the labels still to be bought without a further overlap count for.  *)
Pending == IF Active = {} THEN (IF Open THEN 1 ELSE 0) ELSE Cardinality(Buyers)

LabelInv == bought + Pending <= 1 + overlaps + losses

ReturnsInv == ReturnsTypeOK /\ SeenInv /\ RefundInv /\ OpInv /\ LabelInv

-----------------------------------------------------------------------------
(* What a request asks for.                                                 *)

LEMMA OpFields ==
  ASSUME NEW op \in Ops
  PROVE  /\ op.to \in Statuses
         /\ op.kind \in {"approve", "label", "received", "status", "refund"}
         /\ op.kind = "approve" => op.to = "approved"
         /\ op.kind = "refund" => op.to = "refunded" /\ op.reason \in Reasons
  BY DEF Ops, Statuses

(* No status follows refunded, none leads back to pending, and approved     *)
(* follows pending alone.                                                   *)
LEMMA TransitionsOneWay ==
  ASSUME NEW s \in Statuses, NEW to \in ValidNext[s]
  PROVE  /\ s # "refunded" /\ to # "pending"
         /\ to = "approved" => s = "pending"
  BY DEF Statuses, ValidNext

(* What a handler accepts: never a refunded return, and a step that can end *)
(* in a bought label only while the return is open.                         *)
LEMMA AcceptedWhen ==
  ASSUME ReturnsTypeOK, NEW op \in Ops, ret.status # "none", Accepts(op, ret)
  PROVE  /\ ret.status \in Statuses
         /\ ret.status # "refunded" /\ op.to # "pending"
         /\ op.kind = "label" \/ op.to = "approved" => Open
<1>1. ret.status \in Statuses
  BY DEF ReturnsTypeOK
<1>2. CASE op.kind = "label"
  <2>1. op.to = "label_issued"
    BY <1>2 DEF Ops
  <2>2. ret.status \in {"approved", "pending"}
    BY <1>2 DEF Accepts
  <2> QED
    BY <1>1, <2>1, <2>2 DEF Open
<1>3. CASE op.kind = "refund"
  <2>1. ret.status \in {"inspecting", "received"}
    BY <1>3 DEF Accepts
  <2> QED
    BY <1>1, <1>3, <2>1, OpFields DEF Open
<1>4. CASE op.kind \notin {"label", "refund"}
  <2>1. op.to \in ValidNext[ret.status]
    BY <1>4 DEF Accepts
  <2> QED
    BY <1>1, <1>4, <2>1, TransitionsOneWay DEF Open
<1> QED
  BY <1>2, <1>3, <1>4

(* Whatever the handler, it loads the row with one of the requests above.   *)
Handles(r) == \/ Approve(r) \/ GenerateLabel(r) \/ MarkReceived(r)
              \/ UpdateStatus(r) \/ RefundReturn(r)

LEMMA HandlersLoad ==
  ASSUME NEW r \in Requests, Handles(r)
  PROVE  \E op \in Ops : Load(r, op)
<1>1. CASE Approve(r)
  <2>1. [kind |-> "approve", to |-> "approved"] \in Ops
    BY DEF Ops
  <2> QED
    BY <1>1, <2>1 DEF Approve
<1>2. CASE GenerateLabel(r)
  <2>1. [kind |-> "label", to |-> "label_issued"] \in Ops
    BY DEF Ops
  <2> QED
    BY <1>2, <2>1 DEF GenerateLabel
<1>3. CASE MarkReceived(r)
  <2>1. [kind |-> "received", to |-> "received"] \in Ops
    BY DEF Ops
  <2> QED
    BY <1>3, <2>1 DEF MarkReceived
<1>4. CASE UpdateStatus(r)
  <2>1. PICK s \in Statuses : Load(r, [kind |-> "status", to |-> s])
    BY <1>4 DEF UpdateStatus
  <2>2. [kind |-> "status", to |-> s] \in Ops
    BY DEF Ops
  <2> QED
    BY <2>1, <2>2
<1>5. CASE RefundReturn(r)
  <2>1. PICK reason \in Reasons :
           Load(r, [kind |-> "refund", to |-> "refunded", reason |-> reason])
    BY <1>5 DEF RefundReturn
  <2>2. [kind |-> "refund", to |-> "refunded", reason |-> reason] \in Ops
    BY DEF Ops
  <2> QED
    BY <2>1, <2>2
<1> QED
  BY <1>1, <1>2, <1>3, <1>4, <1>5 DEF Handles

-----------------------------------------------------------------------------
(* How the requests move.                                                   *)

LEMMA ActiveIsBusy ==
  ASSUME ReturnsTypeOK, NEW r \in Requests, req[r].pc # "idle"
  PROVE  req[r] \in Busy /\ req[r] # NoRequest /\ r \in Active
  BY DEF ReturnsTypeOK, NoRequest, Active

LEMMA BusyIsNotIdle ==
  ASSUME NEW d \in Busy
  PROVE  d # NoRequest
  BY DEF Busy, NoRequest

(* One request replaces what it has in hand; the others keep theirs, and    *)
(* the number of buyers changes by one at most.                             *)
LEMMA OneMoves ==
  ASSUME ReturnsTypeOK, ReturnsConstants, NEW r \in Requests,
         NEW d \in {NoRequest} \cup Busy, req' = [req EXCEPT ![r] = d]
  PROVE  /\ req' \in [Requests -> {NoRequest} \cup Busy]
         /\ req'[r] = d
         /\ \A s \in Requests : s # r => req'[s] = req[s]
         /\ Cardinality(Buyers) \in Nat /\ Cardinality(Buyers') \in Nat
         /\ Active = {} => Cardinality(Buyers) = 0
         /\ d # NoRequest => Active' # {}
         /\ Cardinality(Buyers') <= Cardinality(Buyers) + 1
         /\ r \in Buyers => Cardinality(Buyers') <= Cardinality(Buyers)
         /\ d = NoRequest \/ ~Buying(d) =>
               Cardinality(Buyers') <= Cardinality(Buyers) - (IF r \in Buyers THEN 1 ELSE 0)
<1>1. /\ req' \in [Requests -> {NoRequest} \cup Busy]
      /\ req'[r] = d
      /\ \A s \in Requests : s # r => req'[s] = req[s]
  BY DEF ReturnsTypeOK
<1>2. /\ IsFiniteSet(Buyers) /\ IsFiniteSet(Buyers')
      /\ Cardinality(Buyers) \in Nat /\ Cardinality(Buyers') \in Nat
  <2>1. Buyers \subseteq Requests /\ Buyers' \subseteq Requests
    BY DEF Buyers, Active
  <2> QED
    BY <2>1, FS_Subset, FS_CardinalityType DEF ReturnsConstants
<1>3. Active = {} => Cardinality(Buyers) = 0
  BY FS_EmptySet DEF Buyers
<1>4. d # NoRequest => Active' # {}
  BY <1>1 DEF Active
<1>5. Buyers' \subseteq Buyers \cup {r}
  BY <1>1 DEF Buyers, Active
<1>6. d = NoRequest \/ ~Buying(d) => Buyers' \subseteq Buyers \ {r}
  BY <1>1 DEF Buyers, Active
<1>7. /\ IsFiniteSet(Buyers \cup {r}) /\ IsFiniteSet(Buyers \ {r})
      /\ Cardinality(Buyers \cup {r})
             = Cardinality(Buyers) + (IF r \in Buyers THEN 0 ELSE 1)
      /\ Cardinality(Buyers \ {r})
             = Cardinality(Buyers) - (IF r \in Buyers THEN 1 ELSE 0)
  BY <1>2, FS_AddElement, FS_RemoveElement
<1>8. Cardinality(Buyers') <= Cardinality(Buyers \cup {r})
  BY <1>5, <1>7, FS_Subset
<1>9. d = NoRequest \/ ~Buying(d) =>
        Cardinality(Buyers') <= Cardinality(Buyers \ {r})
  BY <1>6, <1>7, FS_Subset
<1> QED
  BY <1>1, <1>2, <1>3, <1>4, <1>7, <1>8, <1>9

-----------------------------------------------------------------------------
(* The invariant, one conjunct after another.                               *)

(* A row that is written, or a write that is lost.                          *)
LEMMA WriteOutcome ==
  ASSUME ReturnsTypeOK, SeenInv, RefundInv, NEW r \in Requests, req[r] \in Busy,
         req[r] # NoRequest, NEW new, new.status \in Statuses,
         new \in [status: Statuses \cup {"none"}, label: BOOLEAN,
                 amount: {0, 50, 85, 90, 100}],
         WriteRow(r, new)
  PROVE  /\ ret' \in [status: Statuses \cup {"none"}, label: BOOLEAN,
                      amount: {0, 50, 85, 90, 100}]
         /\ overwrites' \in Nat /\ refunds' \in Nat /\ losses' \in Nat
         /\ (losses' = losses /\ ret' = new) \/ (losses' = losses + 1 /\ ret' = ret)
         /\ RefundInv'
<1>1. req[r].seen # "refunded"
  BY DEF SeenInv
<1>2. CASE losses' = losses + 1 /\ UNCHANGED rowVars
  <2>1. /\ ret' = ret /\ overwrites' = overwrites /\ refunds' = refunds
    BY <1>2 DEF rowVars
  <2>2. RefundInv'
    BY <2>1 DEF RefundInv
  <2>3. /\ ret \in [status: Statuses \cup {"none"}, label: BOOLEAN,
                    amount: {0, 50, 85, 90, 100}]
        /\ overwrites \in Nat /\ refunds \in Nat /\ losses \in Nat
    BY DEF ReturnsTypeOK
  <2>4. losses' = losses + 1
    BY <1>2
  <2> QED
    BY <2>1, <2>2, <2>3, <2>4
<1>3. CASE /\ ret' = new
           /\ overwrites' = IF ret.status = req[r].seen THEN overwrites ELSE overwrites + 1
           /\ refunds' = IF new.status = "refunded" THEN refunds + 1 ELSE refunds
           /\ losses' = losses
  <2>1. /\ overwrites \in Nat /\ refunds \in Nat /\ losses \in Nat
    BY DEF ReturnsTypeOK
  <2>2. RefundInv'
    <3>1. CASE ret.status = "refunded"
      BY <1>1, <1>3, <2>1, <3>1 DEF RefundInv
    <3>2. CASE ret.status # "refunded"
      BY <1>3, <2>1, <3>2 DEF RefundInv
    <3> QED
      BY <3>1, <3>2
  <2> QED
    BY <1>3, <2>1, <2>2
<1> QED
  BY <1>2, <1>3 DEF WriteRow

(* The requests after one of them has moved: still well typed, none having  *)
(* seen the return refunded, none writing it back to pending.               *)
LEMMA RequestsStay ==
  ASSUME ReturnsTypeOK, SeenInv, OpInv, ReturnsConstants, NEW r \in Requests,
         NEW d \in {NoRequest} \cup Busy, req' = [req EXCEPT ![r] = d],
         d # NoRequest => /\ d.seen # "refunded" /\ d.op.to # "pending"
                          /\ d.pc = "write" => d.op.kind # "label"
  PROVE  SeenInv' /\ OpInv'
<1>1. /\ req'[r] = d
      /\ \A s \in Requests : s # r => req'[s] = req[s]
  BY OneMoves
<1>2. \A s \in Requests : req'[s] # NoRequest =>
          /\ req'[s].seen # "refunded" /\ req'[s].op.to # "pending"
          /\ req'[s].pc = "write" => req'[s].op.kind # "label"
  <2> TAKE s \in Requests
  <2>1. CASE s = r
    BY <1>1, <2>1
  <2>2. CASE s # r
    BY <1>1, <2>2 DEF SeenInv, OpInv
  <2> QED
    BY <2>1, <2>2
<1> QED
  BY <1>2 DEF SeenInv, OpInv

LEMMA CreateKeeps ==
  ASSUME ReturnsInv, Create
  PROVE  ReturnsInv'
<1>0. ReturnsTypeOK /\ SeenInv /\ RefundInv /\ OpInv /\ LabelInv
  BY DEF ReturnsInv
<1>1. /\ ret.status = "none" /\ ret'.status = "pending"
      /\ ret' \in [status: Statuses \cup {"none"}, label: BOOLEAN,
                   amount: {0, 50, 85, 90, 100}]
  BY <1>0 DEF Create, ReturnsTypeOK, Statuses
<1>2. UNCHANGED <<shipEngine, req, begun, overlaps, losses, overwrites, bought, refunds>>
  BY DEF Create, returnCounts
<1>3. ReturnsTypeOK' /\ SeenInv' /\ RefundInv' /\ OpInv'
  BY <1>0, <1>1, <1>2 DEF ReturnsTypeOK, SeenInv, RefundInv, OpInv
<1>4. Active' = Active /\ Buyers' = Buyers
  BY <1>2 DEF Active, Buyers
<1>5. Pending' = Pending
  BY <1>1, <1>4 DEF Pending, Open
<1>6. LabelInv'
  BY <1>0, <1>2, <1>5 DEF LabelInv
<1> QED
  BY <1>3, <1>6 DEF ReturnsInv

LEMMA LoadKeeps ==
  ASSUME ReturnsInv, ReturnsConstants, NEW r \in Requests, NEW op \in Ops, Load(r, op)
  PROVE  ReturnsInv'
<1> DEFINE d == [pc |-> IF op.kind # "label" THEN "write"
                        ELSE IF shipEngine THEN "buy" ELSE "store",
                 op |-> op, seen |-> ret.status, label |-> ret.label, url |-> TRUE]
<1>0. ReturnsTypeOK /\ SeenInv /\ RefundInv /\ OpInv /\ LabelInv
  BY DEF ReturnsInv
<1>1. /\ ret.status # "none" /\ req[r] = NoRequest /\ begun < MaxRequests
      /\ Accepts(op, ret) /\ req' = [req EXCEPT ![r] = d]
      /\ begun' = begun + 1
      /\ overlaps' = IF Active = {} THEN overlaps ELSE overlaps + 1
      /\ UNCHANGED <<ret, overwrites, refunds, shipEngine, losses, bought>>
  BY DEF Load, rowVars
<1>2. /\ ret.status \in Statuses
      /\ ret.status # "refunded" /\ op.to # "pending"
      /\ op.kind = "label" \/ op.to = "approved" => Open
  BY <1>0, <1>1, AcceptedWhen
<1>3. d \in Busy
  BY <1>0, <1>2 DEF Busy, ReturnsTypeOK
<1>4. d # NoRequest
  BY <1>3, BusyIsNotIdle
<1>5. /\ d.seen = ret.status /\ d.op = op
      /\ d.pc = "write" => op.kind # "label"
      /\ Buying(d) => op.kind = "label" \/ op.to = "approved"
  BY DEF Buying
<1> HIDE DEF d
<1>6. SeenInv' /\ OpInv'
  BY <1>0, <1>1, <1>2, <1>3, <1>5, RequestsStay
<1>7. /\ req' \in [Requests -> {NoRequest} \cup Busy]
      /\ Cardinality(Buyers) \in Nat /\ Cardinality(Buyers') \in Nat
      /\ Active = {} => Cardinality(Buyers) = 0
      /\ Active' # {}
      /\ Cardinality(Buyers') <= Cardinality(Buyers) + 1
      /\ ~Buying(d) => Cardinality(Buyers') <= Cardinality(Buyers)
  <2>1. r \notin Buyers
    BY <1>1 DEF Buyers, Active
  <2>2. d \in {NoRequest} \cup Busy
    BY <1>3
  <2>3. ~Buying(d) => Cardinality(Buyers')
            <= Cardinality(Buyers) - (IF r \in Buyers THEN 1 ELSE 0)
    BY <1>0, <1>1, <2>2, OneMoves
  <2>4. /\ req' \in [Requests -> {NoRequest} \cup Busy]
        /\ Cardinality(Buyers) \in Nat /\ Cardinality(Buyers') \in Nat
        /\ Active = {} => Cardinality(Buyers) = 0
        /\ Active' # {}
        /\ Cardinality(Buyers') <= Cardinality(Buyers) + 1
    BY <1>0, <1>1, <1>4, <2>2, OneMoves
  <2> QED
    BY <2>1, <2>3, <2>4
<1>8. ReturnsTypeOK' /\ RefundInv'
  BY <1>0, <1>1, <1>7 DEF ReturnsTypeOK, RefundInv, ReturnsConstants
<1>9. Pending' = Cardinality(Buyers')
  BY <1>7 DEF Pending
<1>10. /\ bought \in Nat /\ overlaps \in Nat /\ losses \in Nat
  BY <1>0 DEF ReturnsTypeOK, ReturnsConstants
<1>11. LabelInv'
  <2>1. CASE Active = {}
    <3>1. Pending = IF Open THEN 1 ELSE 0
      BY <2>1 DEF Pending
    <3>2. Pending' <= Pending
      BY <1>2, <1>5, <1>7, <1>9, <2>1, <3>1
    <3> QED
      BY <1>0, <1>1, <1>7, <1>9, <1>10, <2>1, <3>1, <3>2 DEF LabelInv
  <2>2. CASE Active # {}
    <3>1. Pending = Cardinality(Buyers)
      BY <2>2 DEF Pending
    <3> QED
      BY <1>0, <1>1, <1>7, <1>9, <1>10, <2>2, <3>1 DEF LabelInv
  <2> QED
    BY <2>1, <2>2
<1> QED
  BY <1>6, <1>8, <1>11 DEF ReturnsInv

(* A write after which the request is done, or goes on to buy its label.    *)
LEMMA WriteKeeps ==
  ASSUME ReturnsInv, ReturnsConstants, NEW r \in Requests, req[r] \in Busy,
         req[r] # NoRequest, NEW new, new.status \in Statuses,
         new \in [status: Statuses \cup {"none"}, label: BOOLEAN,
                 amount: {0, 50, 85, 90, 100}],
         WriteRow(r, new),
         NEW d \in {NoRequest} \cup Busy, req' = [req EXCEPT ![r] = d],
         d # NoRequest => /\ d.seen # "refunded" /\ d.op.to # "pending"
                          /\ d.pc = "write" => d.op.kind # "label"
                          /\ r \in Buyers,
         new.status \in {"none", "pending", "approved"} => r \in Buyers,
         UNCHANGED <<shipEngine, returnCounts, bought>>
  PROVE  ReturnsInv'
<1>0. ReturnsTypeOK /\ SeenInv /\ RefundInv /\ OpInv /\ LabelInv
  BY DEF ReturnsInv
<1>1. /\ ret' \in [status: Statuses \cup {"none"}, label: BOOLEAN,
                   amount: {0, 50, 85, 90, 100}]
      /\ overwrites' \in Nat /\ refunds' \in Nat /\ losses' \in Nat
      /\ (losses' = losses /\ ret' = new) \/ (losses' = losses + 1 /\ ret' = ret)
      /\ RefundInv'
  BY <1>0, WriteOutcome
<1>2. SeenInv' /\ OpInv'
  BY <1>0, RequestsStay
<1>3. UNCHANGED <<shipEngine, begun, overlaps, bought>>
  BY DEF returnCounts
<1>4. /\ req' \in [Requests -> {NoRequest} \cup Busy]
      /\ Cardinality(Buyers) \in Nat /\ Cardinality(Buyers') \in Nat
      /\ d # NoRequest => Active' # {}
      /\ r \in Buyers => Cardinality(Buyers') <= Cardinality(Buyers)
      /\ d = NoRequest => Cardinality(Buyers')
                       <= Cardinality(Buyers) - (IF r \in Buyers THEN 1 ELSE 0)
  BY <1>0, OneMoves
<1>5. ReturnsTypeOK'
  BY <1>0, <1>1, <1>3, <1>4 DEF ReturnsTypeOK
<1>6. Pending = Cardinality(Buyers)
  BY DEF Pending, Active
<1>7. /\ bought \in Nat /\ overlaps \in Nat /\ losses \in Nat
  BY <1>0 DEF ReturnsTypeOK, ReturnsConstants
<1>8. LabelInv'
  <2>1. CASE Active' # {}
    <3>1. Pending' = Cardinality(Buyers')
      BY <2>1 DEF Pending
    <3>2. Cardinality(Buyers') <= Cardinality(Buyers)
      BY <1>4
    <3> QED
      BY <1>0, <1>1, <1>3, <1>4, <1>6, <1>7, <3>1, <3>2 DEF LabelInv
  <2>2. CASE Active' = {}
    <3>1. d = NoRequest
      BY <1>4, <2>2
    <3>2. Pending' = IF ret'.status \in {"none", "pending", "approved"} THEN 1 ELSE 0
      BY <2>2 DEF Pending, Open
    <3>3. r \in Buyers => Cardinality(Buyers) >= 1
      BY <1>4, <3>1
    <3>4. \/ losses' = losses /\ Pending' <= Pending
          \/ losses' = losses + 1 /\ Pending' <= 1
      BY <1>1, <1>4, <1>6, <3>2, <3>3
    <3>5. Pending' \in Nat /\ Pending \in Nat
      BY <1>4, <1>6, <3>2
    <3>6. bought + Pending <= 1 + overlaps + losses
      BY <1>0 DEF LabelInv
    <3>7. bought + Pending' <= 1 + overlaps + losses'
      <4>1. \A p, q \in Nat :
               (losses' = losses /\ q <= p) \/ (losses' = losses + 1 /\ q <= 1) =>
                  (bought + p <= 1 + overlaps + losses =>
                     bought + q <= 1 + overlaps + losses')
        BY <1>7
      <4> QED
        BY <3>4, <3>5, <3>6, <4>1
    <3> QED
      BY <1>3, <3>7 DEF LabelInv
  <2> QED
    BY <2>1, <2>2
<1> QED
  BY <1>1, <1>2, <1>5, <1>8 DEF ReturnsInv

LEMMA SetStatusKeeps ==
  ASSUME ReturnsInv, ReturnsConstants, NEW r \in Requests, SetStatus(r)
  PROVE  ReturnsInv'
<1>0. ReturnsTypeOK /\ SeenInv /\ OpInv
  BY DEF ReturnsInv
<1>1. /\ req[r].pc = "write" /\ req[r].op.kind # "refund"
      /\ WriteRow(r, [ret EXCEPT !.status = req[r].op.to])
      /\ UNCHANGED <<shipEngine, returnCounts, bought>>
  BY DEF SetStatus
<1>2. req[r] \in Busy /\ req[r] # NoRequest /\ r \in Active
  BY <1>0, <1>1, ActiveIsBusy
<1>3. PICK new : new = [ret EXCEPT !.status = req[r].op.to]
  OBVIOUS
<1>4. /\ req[r].op \in Ops /\ req[r].op.to \in Statuses
      /\ req[r].op.to # "pending"
  BY <1>0, <1>2, OpFields DEF Busy, OpInv
<1>5. /\ new \in [status: Statuses \cup {"none"}, label: BOOLEAN,
                  amount: {0, 50, 85, 90, 100}]
      /\ new.status = req[r].op.to
  BY <1>0, <1>3, <1>4 DEF ReturnsTypeOK
<1>6. new.status \in {"none", "pending", "approved"} => r \in Buyers
  BY <1>1, <1>2, <1>4, <1>5 DEF Buyers, Buying, Statuses
<1>7. CASE req' = [req EXCEPT ![r] = NoRequest]
  BY <1>1, <1>2, <1>3, <1>4, <1>5, <1>6, <1>7, WriteKeeps
<1>8. CASE /\ req' = [req EXCEPT ![r] =
                        [req[r] EXCEPT !.pc = "buy", !.seen = "approved"]]
           /\ req[r].op.kind = "approve"
  <2>1. PICK d : d = [req[r] EXCEPT !.pc = "buy", !.seen = "approved"]
    OBVIOUS
  <2>2. /\ d \in Busy /\ d.pc = "buy" /\ d.seen = "approved"
        /\ d.op = req[r].op
    BY <1>2, <2>1 DEF Busy, Statuses
  <2>3. r \in Buyers
    BY <1>1, <1>2, <1>4, <1>8, OpFields DEF Buyers, Buying
  <2> QED
    BY <1>1, <1>2, <1>3, <1>4, <1>5, <1>6, <1>8, <2>1, <2>2, <2>3, WriteKeeps
<1> QED
  BY <1>7, <1>8 DEF SetStatus

LEMMA RefundKeeps ==
  ASSUME ReturnsInv, ReturnsConstants, NEW r \in Requests, Refund(r)
  PROVE  ReturnsInv'
<1>0. ReturnsTypeOK
  BY DEF ReturnsInv
<1>1. PICK amount \in {RefundAmount(req[r].op.reason), 50} :
         /\ req[r].pc = "write"
         /\ WriteRow(r, [ret EXCEPT !.status = "refunded", !.amount = amount])
         /\ req' = [req EXCEPT ![r] = NoRequest]
         /\ UNCHANGED <<shipEngine, returnCounts, bought>>
  BY DEF Refund
<1>2. req[r] \in Busy /\ req[r] # NoRequest
  BY <1>0, <1>1, ActiveIsBusy
<1>3. amount \in {50, 85, 90, 100}
  BY <1>1 DEF RefundAmount
<1>4. PICK new : new = [ret EXCEPT !.status = "refunded", !.amount = amount]
  OBVIOUS
<1>5. /\ new \in [status: Statuses \cup {"none"}, label: BOOLEAN,
                  amount: {0, 50, 85, 90, 100}]
      /\ new.status = "refunded" /\ new.status \in Statuses
  BY <1>0, <1>3, <1>4 DEF ReturnsTypeOK, Statuses
<1> QED
  BY <1>1, <1>2, <1>4, <1>5, WriteKeeps

LEMMA StoreLabelKeeps ==
  ASSUME ReturnsInv, ReturnsConstants, NEW r \in Requests, StoreLabel(r)
  PROVE  ReturnsInv'
<1>0. ReturnsTypeOK
  BY DEF ReturnsInv
<1>1. /\ req[r].pc = "store"
      /\ WriteRow(r, [ret EXCEPT !.status = "label_issued", !.label = req[r].url])
      /\ req' = [req EXCEPT ![r] = NoRequest]
      /\ UNCHANGED <<shipEngine, returnCounts, bought>>
  BY DEF StoreLabel
<1>2. req[r] \in Busy /\ req[r] # NoRequest /\ req[r].url \in BOOLEAN
  BY <1>0, <1>1, ActiveIsBusy DEF Busy
<1>3. PICK new : new = [ret EXCEPT !.status = "label_issued", !.label = req[r].url]
  OBVIOUS
<1>4. /\ new \in [status: Statuses \cup {"none"}, label: BOOLEAN,
                  amount: {0, 50, 85, 90, 100}]
      /\ new.status = "label_issued" /\ new.status \in Statuses
  BY <1>0, <1>2, <1>3 DEF ReturnsTypeOK, Statuses
<1> QED
  BY <1>1, <1>2, <1>3, <1>4, WriteKeeps

(* A label that is bought was one of those still to be bought; an answer    *)
(* that is lost is counted beside it.                                       *)
LEMMA CreateLabelKeeps ==
  ASSUME ReturnsInv, ReturnsConstants, NEW r \in Requests, CreateLabel(r)
  PROVE  ReturnsInv'
<1>0. ReturnsTypeOK /\ SeenInv /\ RefundInv /\ OpInv /\ LabelInv
  BY DEF ReturnsInv
<1>1. /\ req[r].pc = "buy"
      /\ UNCHANGED <<ret, overwrites, refunds, shipEngine, begun, overlaps>>
  BY DEF CreateLabel, rowVars, returnCounts
<1>2. req[r] \in Busy /\ req[r] # NoRequest /\ r \in Active
  BY <1>0, <1>1, ActiveIsBusy
<1>3. r \in Buyers
  BY <1>1, <1>2 DEF Buyers, Buying
<1>4. PICK d \in {NoRequest} \cup Busy :
        /\ req' = [req EXCEPT ![r] = d]
        /\ d = NoRequest \/ ~Buying(d)
        /\ d # NoRequest => /\ d.seen # "refunded" /\ d.op.to # "pending"
                            /\ d.pc = "write" => d.op.kind # "label"
        /\ \/ d # NoRequest /\ bought' = bought + 1 /\ losses' = losses
           \/ d = NoRequest /\ bought' = bought /\ losses' = losses
           \/ d = NoRequest /\ bought' = bought + 1 /\ losses' = losses + 1
  <2>1. CASE \E pdf \in BOOLEAN :
               /\ bought' = bought + 1 /\ losses' = losses
               /\ req' = [req EXCEPT ![r] = [@ EXCEPT !.pc = "store", !.url = pdf]]
    <3>1. PICK pdf \in BOOLEAN :
             /\ bought' = bought + 1 /\ losses' = losses
             /\ req' = [req EXCEPT ![r] = [req[r] EXCEPT !.pc = "store", !.url = pdf]]
      BY <2>1
    <3>2. PICK d : d = [req[r] EXCEPT !.pc = "store", !.url = pdf]
      OBVIOUS
    <3>3. /\ d \in Busy /\ d.pc = "store" /\ d.seen = req[r].seen
          /\ d.op = req[r].op
      BY <1>2, <3>2 DEF Busy
    <3>4. d # NoRequest /\ ~Buying(d)
      BY <3>3, BusyIsNotIdle DEF Buying
    <3>5. d.seen # "refunded" /\ d.op.to # "pending"
      BY <1>0, <1>2, <3>3 DEF SeenInv, OpInv
    <3> QED
      BY <3>1, <3>2, <3>3, <3>4, <3>5
  <2>2. CASE req' = [req EXCEPT ![r] = NoRequest] /\ UNCHANGED <<bought, losses>>
    BY <2>2
  <2>3. CASE req' = [req EXCEPT ![r] = NoRequest] /\ bought' = bought + 1 /\ losses' = losses + 1
    BY <2>3
  <2> QED
    BY <2>1, <2>2, <2>3 DEF CreateLabel
<1>5. SeenInv' /\ OpInv'
  BY <1>0, <1>4, RequestsStay
<1>6. /\ req' \in [Requests -> {NoRequest} \cup Busy]
      /\ Cardinality(Buyers) \in Nat /\ Cardinality(Buyers') \in Nat
      /\ d # NoRequest => Active' # {}
      /\ Cardinality(Buyers') <= Cardinality(Buyers) - 1
  BY <1>0, <1>3, <1>4, OneMoves
<1>7. /\ bought \in Nat /\ overlaps \in Nat /\ losses \in Nat
  BY <1>0 DEF ReturnsTypeOK, ReturnsConstants
<1>8. ReturnsTypeOK' /\ RefundInv'
  <2>1. bought' \in Nat /\ losses' \in Nat
    BY <1>4, <1>7
  <2> QED
    BY <1>0, <1>1, <1>6, <2>1 DEF ReturnsTypeOK, RefundInv
<1>9. Pending = Cardinality(Buyers)
  BY <1>2 DEF Pending
<1>10. Pending' \in Nat /\ (Pending' <= Pending - 1 \/ (d = NoRequest /\ Pending' <= Pending))
  BY <1>6, <1>9 DEF Pending, Open
<1>11. bought' + Pending' <= 1 + overlaps + losses'
  <2>1. \A p, q \in Nat :
           q <= p - 1 \/ (d = NoRequest /\ q <= p) =>
              (bought + p <= 1 + overlaps + losses =>
                 bought' + q <= 1 + overlaps + losses')
    BY <1>4, <1>7
  <2> QED
    BY <1>0, <1>6, <1>9, <1>10, <2>1 DEF LabelInv
<1>12. LabelInv'
  BY <1>1, <1>11 DEF LabelInv
<1> QED
  BY <1>5, <1>8, <1>12 DEF ReturnsInv

-----------------------------------------------------------------------------

LEMMA ReturnsInitSatisfies == ASSUME ReturnsConstants, ReturnsInit PROVE ReturnsInv
<1>1. Active = {} /\ Open
  BY DEF ReturnsInit, Active, Open
<1>2. Pending = 1
  BY <1>1 DEF Pending
<1> QED
  BY <1>2 DEF ReturnsInit, ReturnsInv, ReturnsTypeOK, SeenInv, RefundInv, OpInv, LabelInv,
              ReturnsConstants

LEMMA ReturnsNextKeeps == ASSUME ReturnsConstants, ReturnsInv, [ReturnsNext]_returnsVars PROVE ReturnsInv'
<1>1. CASE UNCHANGED returnsVars
  <2>1. UNCHANGED <<ret, shipEngine, req, begun, overlaps, losses, overwrites, bought, refunds>>
    BY <1>1 DEF returnsVars
  <2>2. Active' = Active /\ Buyers' = Buyers
    BY <2>1 DEF Active, Buyers
  <2>3. Pending' = Pending
    BY <2>1, <2>2 DEF Pending, Open
  <2> QED
    BY <2>1, <2>3 DEF ReturnsInv, ReturnsTypeOK, SeenInv, RefundInv, OpInv, LabelInv
<1>2. CASE Create
  BY <1>2, CreateKeeps
<1>3. ASSUME NEW r \in Requests, Handles(r)
      PROVE  ReturnsInv'
  BY <1>3, HandlersLoad, LoadKeeps
<1>4. ASSUME NEW r \in Requests,
             SetStatus(r) \/ Refund(r) \/ CreateLabel(r) \/ StoreLabel(r)
      PROVE  ReturnsInv'
  BY <1>4, SetStatusKeeps, RefundKeeps, CreateLabelKeeps, StoreLabelKeeps
<1> QED
  BY <1>1, <1>2, <1>3, <1>4 DEF ReturnsNext, Handles

(* Types: the row and the requests keep their shape, and the counters count,*)
(* under any interleaving of the handlers of returns.go.                    *)
THEOREM ReturnsTypes == ReturnsConstants => (ReturnsSpec => []ReturnsTypeOK)
<1> SUFFICES ASSUME ReturnsConstants PROVE ReturnsSpec => []ReturnsTypeOK
  OBVIOUS
<1>1. ReturnsInit => ReturnsInv
  BY ReturnsInitSatisfies
<1>2. ReturnsInv /\ [ReturnsNext]_returnsVars => ReturnsInv'
  BY ReturnsNextKeeps
<1>3. ReturnsInv => ReturnsTypeOK
  BY DEF ReturnsInv
<1> QED
  BY <1>1, <1>2, <1>3, PTL DEF ReturnsSpec

(* However many requests work on one return, its refund is written again    *)
(* only over a status that its writer had not read, and a label is bought   *)
(* again only by requests that overlapped or after an answer or a write was *)
(* lost: the dashboard used by one person at a time pays for each once.     *)
THEOREM ReturnPaidOnce == ReturnsConstants => (ReturnsSpec => []PaidOnce)
<1> SUFFICES ASSUME ReturnsConstants PROVE ReturnsSpec => []PaidOnce
  OBVIOUS
<1>1. ReturnsInit => ReturnsInv
  BY ReturnsInitSatisfies
<1>2. ReturnsInv /\ [ReturnsNext]_returnsVars => ReturnsInv'
  BY ReturnsNextKeeps
<1>3. ReturnsInv => PaidOnce
  <2> SUFFICES ASSUME ReturnsInv PROVE PaidOnce
    OBVIOUS
  <2>1. ReturnsTypeOK /\ RefundInv /\ LabelInv
    BY DEF ReturnsInv
  <2>2. Pending \in Nat
    <3>1. Buyers \subseteq Requests
      BY DEF Buyers, Active
    <3> QED
      BY <3>1, FS_Subset, FS_CardinalityType DEF ReturnsConstants, Pending
  <2>3. /\ bought \in Nat /\ overlaps \in Nat /\ losses \in Nat
    BY <2>1 DEF ReturnsTypeOK, ReturnsConstants
  <2> QED
    BY <2>1, <2>2, <2>3 DEF PaidOnce, RefundsBounded, LabelsBounded, RefundInv, LabelInv
<1> QED
  BY <1>1, <1>2, <1>3, PTL DEF ReturnsSpec

(***************************************************************************)
(* What the shop stores and tells of a fulfilled order is sound, for any   *)
(* number of syncs, reports, statuses and failures.                        *)
(***************************************************************************)
(* Rows of an event that exist, and that syncs under way may still add: one *)
(* that has looked at the rows adds what it found missing, one that has     *)
(* still to look adds a row only while there is none.                       *)
Writing(e) == {s \in Syncs : sync[s].pc = "create" /\ e \in sync[s].todo}
Waiting(e) == {s \in Syncs : \/ sync[s].pc = "load"
                             \/ sync[s].pc = "create" /\ e \in sync[s].todo}
Count(e) == events[e].linked + events[e].loose
Due(e) == IF Stored(e) THEN Count(e) + Cardinality(Writing(e))
          ELSE Cardinality(Waiting(e))

RowsInv == \A e \in Event : Due(e) <= 1 + syncOverlaps

(* Messages about an event that may still reach the customer.               *)
Named(e) == {m \in queue : m.event = e /\ m.named}

MailsInv == /\ IsFiniteSet(queue)
            /\ \A e \in Event : mails[e] + Cardinality(Named(e)) <= events[e].linked

(* What is stored was reported, and a sync holds nothing else; two syncs    *)
(* run at once only when that was counted.                                  *)
Have == {e \in Event : Stored(e)}
Holds(d) == /\ d.answer \subseteq carrier /\ d.todo \subseteq carrier
            /\ d.found => row.exists
            /\ d.pc = "load" => d.latest = NoEvent /\ d.todo = {}
            /\ key # "edges" => d.answer = {} /\ d.todo = {}
BaseInv ==
    /\ \A x, y \in carrier : x.at = y.at => x = y
    /\ Have \subseteq carrier
    /\ ~row.exists => row.latest = NoEvent /\ GetFulfillmentEvents = {}
    /\ key # "edges" => Have = {}
    /\ \A s \in Syncs : sync[s] # NoSync => Holds(sync[s])
    /\ syncOverlaps = 0 =>
         \A s, t \in Syncs : sync[s] # NoSync /\ sync[t] # NoSync => s = t

(* While nothing came out of order, failed or overlapped, what is stored is *)
(* all that was reported up to some time, and the order's row names the     *)
(* newest event, or the sync under way still will.                          *)
Quiet == unordered = 0 /\ failures = 0 /\ syncOverlaps = 0
UpTo(E, C) == \A x \in E, y \in C \ E : x.at < y.at
AtRest == UpTo(Have, carrier) /\ row.latest = Summary
OnTheWay(d) ==
    /\ d.pc = "load" => /\ AtRest /\ UpTo(d.answer, carrier)
                        /\ Have \subseteq d.answer
    /\ d.pc = "create" =>
         /\ d.todo \cap Have = {} /\ UpTo(Have \cup d.todo, carrier)
         /\ \A e \in d.todo : row.latest.at < e.at
         /\ Summary = IF d.found /\ d.latest # NoEvent THEN d.latest ELSE row.latest
QuietInv ==
    Quiet => /\ (\A s \in Syncs : sync[s] = NoSync) => AtRest
             /\ \A s \in Syncs : sync[s] # NoSync => OnTheWay(sync[s])

FulfillmentInv == FulfillmentTypeOK /\ RowsInv /\ MailsInv /\ BaseInv /\ QuietInv

-----------------------------------------------------------------------------
(* The newest of a set of events.                                           *)

(* A set of naturals that is not empty has a least element.                 *)
LEMMA LeastNat ==
  ASSUME NEW T \in SUBSET Nat, T # {}
  PROVE  \E x \in T : \A y \in T : x <= y
<1>1. PICK x \in T : \A y \in T : ~(<<y, x>> \in OpToRel(<, Nat))
  BY NatLessThanWellFounded, WFMin
<1>2. \A y \in T : ~(y < x)
  BY <1>1 DEF OpToRel
<1> QED BY <1>2

LEMMA EventTimes ==
  ASSUME FulfillmentConstants
  PROVE  /\ MaxTime \in Nat
         /\ \A e \in Event : e.at \in 1 .. MaxTime
         /\ NoEvent.at = 0 /\ NoEvent \notin Event
         /\ \A e \in Event \cup {NoEvent} : e.at \in 0 .. MaxTime
<1>1. MaxTime \in Nat
  BY DEF FulfillmentConstants
<1>2. \A e \in Event : e.at \in 1 .. MaxTime
  BY DEF Event
<1>3. NoEvent.at = 0
  BY DEF NoEvent
<1> QED
  BY <1>1, <1>2, <1>3

(* Newest finds an event that no other one of the set comes after.          *)
LEMMA NewestIs ==
  ASSUME FulfillmentConstants, NEW E \in SUBSET (Event \cup {NoEvent})
  PROVE  /\ E = {} => Newest(E) = NoEvent
         /\ E # {} => Newest(E) \in E
         /\ \A x \in E : x.at <= Newest(E).at
         /\ Newest(E) \in Event \cup {NoEvent}
<1>1. CASE E = {}
  BY <1>1 DEF Newest
<1>2. CASE E # {}
  <2> DEFINE T == {MaxTime - x.at : x \in E}
  <2>1. /\ MaxTime \in Nat
        /\ \A x \in E : x.at \in Int /\ 0 <= x.at /\ x.at <= MaxTime
    BY EventTimes
  <2>2. T \in SUBSET Nat /\ T # {}
    BY <1>2, <2>1
  <2>3. PICK m \in T : \A y \in T : m <= y
    BY <2>2, LeastNat
  <2>4. PICK e \in E : m = MaxTime - e.at
    OBVIOUS
  <2>5. \A x \in E : x.at <= e.at
    <3> TAKE x \in E
    <3>1. MaxTime - e.at <= MaxTime - x.at
      BY <2>3, <2>4
    <3> QED
      BY <2>1, <3>1
  <2>6. Newest(E) = CHOOSE n \in E : \A x \in E : x.at <= n.at
    BY <1>2 DEF Newest
  <2> QED
    BY <1>2, <2>5, <2>6
<1> QED
  BY <1>1, <1>2

(* An event that comes after all others of the set is its newest.           *)
LEMMA NewestAlone ==
  ASSUME FulfillmentConstants, NEW E \in SUBSET (Event \cup {NoEvent}),
         NEW e \in E, \A x \in E : x # e => x.at < e.at
  PROVE  Newest(E) = e
<1>1. Newest(E) \in E /\ e.at <= Newest(E).at
  BY NewestIs
<1>2. e.at \in Int /\ Newest(E).at \in Int
  BY <1>1, EventTimes
<1> QED
  BY <1>1, <1>2

(* Adding an event of another time to a set.                                *)
LEMMA NewestWithOne ==
  ASSUME FulfillmentConstants, NEW E \in SUBSET Event, NEW e \in Event,
         \A x \in E : x.at # e.at, \A x, y \in E : x.at = y.at => x = y
  PROVE  Newest(E \cup {e}) = IF Newest(E).at < e.at THEN e ELSE Newest(E)
<1>0. /\ \A x \in E : x.at \in Int
      /\ e.at \in Int /\ e.at > 0 /\ NoEvent.at = 0
  BY EventTimes
<1>1. /\ E = {} => Newest(E) = NoEvent
      /\ E # {} => Newest(E) \in E
      /\ \A x \in E : x.at <= Newest(E).at
      /\ Newest(E).at \in Int
  BY NewestIs, EventTimes
<1>2. E \cup {e} \in SUBSET (Event \cup {NoEvent})
  OBVIOUS
<1>3. CASE Newest(E).at < e.at
  <2>1. \A x \in E \cup {e} : x # e => x.at < e.at
    BY <1>0, <1>1, <1>3
  <2> QED
    BY <1>2, <1>3, <2>1, NewestAlone
<1>4. CASE ~(Newest(E).at < e.at)
  <2>1. E # {}
    BY <1>0, <1>1, <1>4
  <2>2. Newest(E) \in E /\ Newest(E).at # e.at
    BY <1>1, <2>1
  <2>3. e.at < Newest(E).at
    BY <1>0, <1>1, <1>4, <2>2
  <2>4. /\ Newest(E \cup {e}) \in E \cup {e}
        /\ Newest(E).at <= Newest(E \cup {e}).at
    BY <1>2, <2>2, NewestIs
  <2>5. Newest(E \cup {e}) \in E /\ Newest(E \cup {e}).at <= Newest(E).at
    BY <1>0, <1>1, <2>3, <2>4
  <2>6. Newest(E \cup {e}).at = Newest(E).at
    BY <1>0, <1>1, <2>4, <2>5
  <2> QED
    BY <1>4, <2>2, <2>5, <2>6
<1> QED
  BY <1>3, <1>4

-----------------------------------------------------------------------------
(* How the syncs move.                                                      *)

LEMMA RunningIsNotIdle ==
  ASSUME NEW d \in Running
  PROVE  d # NoSync /\ d.pc # "idle" /\ NoSync.pc = "idle"
  BY DEF Running, NoSync

LEMMA WhoRuns ==
  ASSUME FulfillmentTypeOK, NEW s \in Syncs
  PROVE  /\ sync[s] \in {NoSync} \cup Running
         /\ sync[s].pc \in {"load", "create"} => sync[s] \in Running
         /\ sync[s] # NoSync => sync[s] \in Running
  BY DEF FulfillmentTypeOK, NoSync

LEMMA SyncReplaces ==
  ASSUME FulfillmentTypeOK, NEW s \in Syncs, NEW d \in {NoSync} \cup Running,
         sync' = [sync EXCEPT ![s] = d]
  PROVE  /\ sync' \in [Syncs -> {NoSync} \cup Running]
         /\ sync'[s] = d
         /\ \A x \in Syncs : x # s => sync'[x] = sync[x]
  BY DEF FulfillmentTypeOK

(* Two sets of syncs that differ in one sync at most.                       *)
LEMMA OneApart ==
  ASSUME IsFiniteSet(Syncs), NEW S \in SUBSET Syncs, NEW T \in SUBSET Syncs,
         NEW s \in Syncs, \A x \in Syncs : x # s => (x \in T <=> x \in S)
  PROVE  /\ Cardinality(S) \in Nat /\ Cardinality(T) \in Nat
         /\ (s \in S <=> s \in T) => Cardinality(T) = Cardinality(S)
         /\ s \in S /\ s \notin T => Cardinality(T) = Cardinality(S) - 1
         /\ s \notin S /\ s \in T => Cardinality(T) = Cardinality(S) + 1
<1>1. /\ IsFiniteSet(S) /\ IsFiniteSet(T)
      /\ Cardinality(S) \in Nat /\ Cardinality(T) \in Nat
  BY FS_Subset, FS_CardinalityType
<1>2. (s \in S <=> s \in T) => T = S
  OBVIOUS
<1>3. s \in S /\ s \notin T => T = S \ {s}
  OBVIOUS
<1>4. s \notin S /\ s \in T => T = S \cup {s}
  OBVIOUS
<1> QED
  BY <1>1, <1>2, <1>3, <1>4, FS_AddElement, FS_RemoveElement

LEMMA Numbers ==
  ASSUME FulfillmentConstants, FulfillmentTypeOK, NEW e \in Event
  PROVE  /\ events[e].linked \in Nat /\ events[e].loose \in Nat
         /\ Count(e) \in Nat /\ (Stored(e) <=> Count(e) > 0)
         /\ ~Stored(e) => Count(e) = 0 /\ events[e].linked = 0
         /\ syncOverlaps \in Nat /\ failures \in Nat /\ unordered \in Nat
         /\ mails[e] \in Nat
         /\ Cardinality(Writing(e)) \in Nat /\ Cardinality(Waiting(e)) \in Nat
         /\ Cardinality(Writing(e)) <= Cardinality(Waiting(e))
<1>1. /\ events[e].linked \in Nat /\ events[e].loose \in Nat
      /\ syncOverlaps \in Nat /\ failures \in Nat /\ unordered \in Nat
      /\ mails[e] \in Nat
  BY DEF FulfillmentTypeOK, FulfillmentConstants
<1>2. Writing(e) \subseteq Waiting(e) /\ Waiting(e) \subseteq Syncs
  BY DEF Writing, Waiting
<1>3. /\ IsFiniteSet(Writing(e)) /\ IsFiniteSet(Waiting(e))
      /\ Cardinality(Writing(e)) <= Cardinality(Waiting(e))
  BY <1>2, FS_Subset DEF FulfillmentConstants
<1> QED
  BY <1>1, <1>3, FS_CardinalityType DEF Count, Stored

(* What a step of a sync makes of it: it begins, or looks at the rows, or   *)
(* tries to store an event, or ends.                                        *)
LEMMA FetchMeans ==
  ASSUME FulfillmentTypeOK, BaseInv, NEW s \in Syncs, Fetch(s)
  PROVE  \E d \in Running :
            /\ sync[s] = NoSync /\ sync' = [sync EXCEPT ![s] = d]
            /\ d.pc = "load" /\ d.answer = Decoded /\ d.found = row.exists
            /\ d.todo = {} /\ d.latest = NoEvent
<1> DEFINE d == [pc |-> "load", answer |-> Decoded, found |-> row.exists,
                 todo |-> {}, latest |-> NoEvent]
<1>1. Decoded \in SUBSET Event /\ row.exists \in BOOLEAN
  BY DEF Decoded, FulfillmentTypeOK
<1>2. d \in Running
  BY <1>1 DEF Running
<1> QED
  BY <1>2 DEF Fetch

LEMMA LoadMeans ==
  ASSUME FulfillmentTypeOK, NEW s \in Syncs, LoadExisting(s)
  PROVE  \E d \in Running :
            /\ sync[s] \in Running /\ sync[s].pc = "load"
            /\ sync' = [sync EXCEPT ![s] = d]
            /\ d.pc = "create" /\ d.answer = sync[s].answer
            /\ d.found = sync[s].found /\ d.latest = sync[s].latest
            /\ d.todo = {e \in sync[s].answer : ~Stored(e)}
<1> DEFINE rest == {e \in sync[s].answer : ~Stored(e)}
<1>1. sync[s].pc = "load" /\ sync[s] \in Running
  BY WhoRuns DEF LoadExisting
<1>2. rest \in SUBSET Event
  BY <1>1 DEF Running
<1>3. sync' = [sync EXCEPT ![s] = [sync[s] EXCEPT !.pc = "create", !.todo = rest]]
  BY DEF LoadExisting
<1> HIDE DEF rest
<1>4. PICK d : d = [sync[s] EXCEPT !.pc = "create", !.todo = rest]
  OBVIOUS
<1>5. /\ d \in Running /\ d.pc = "create" /\ d.answer = sync[s].answer
      /\ d.found = sync[s].found /\ d.latest = sync[s].latest
      /\ d.todo = rest
  BY <1>1, <1>2, <1>4 DEF Running
<1> QED
  BY <1>1, <1>3, <1>4, <1>5 DEF rest

StoresOne(s, e) ==
    \E new \in [linked: Nat, loose: Nat] :
       /\ events' = [events EXCEPT ![e] = new]
       /\ sync[s].found => /\ new.linked = events[e].linked + 1
                           /\ new.loose = events[e].loose
       /\ ~sync[s].found => /\ new.linked = events[e].linked
                            /\ new.loose = events[e].loose + 1
Announces(s, e) ==
    \E m \in Message : /\ m.event = e /\ m.named = sync[s].found
                       /\ queue' \in {queue \cup {m}, queue}
Creates(s, e, d) ==
    /\ sync[s] \in Running /\ sync[s].pc = "create" /\ e \in Event
    /\ sync' = [sync EXCEPT ![s] = d]
    /\ d.pc = "create" /\ d.answer = sync[s].answer
    /\ d.found = sync[s].found /\ d.todo = sync[s].todo \ {e}
    /\ \/ /\ d.latest = sync[s].latest /\ failures' = failures + 1
          /\ events' = events /\ queue' = queue
       \/ /\ d.latest = Newest({sync[s].latest, e}) /\ failures' = failures
          /\ StoresOne(s, e) /\ Announces(s, e)

LEMMA CreateMeans ==
  ASSUME FulfillmentConstants, FulfillmentTypeOK, NEW s \in Syncs,
         NEW e \in sync[s].todo, CreateEvent(s, e)
  PROVE  \E d \in Running : Creates(s, e, d)
<1> DEFINE after(l) == [sync[s] EXCEPT !.todo = sync[s].todo \ {e}, !.latest = l]
<1>1. sync[s].pc = "create" /\ sync[s] \in Running
  BY WhoRuns DEF CreateEvent
<1>2. /\ e \in Event /\ sync[s].todo \in SUBSET Event /\ sync[s].found \in BOOLEAN
      /\ sync[s].latest \in Event \cup {NoEvent}
      /\ events[e] \in [linked: Nat, loose: Nat]
  BY <1>1 DEF Running, FulfillmentTypeOK
<1>3. ASSUME NEW l \in Event \cup {NoEvent}
      PROVE  /\ after(l) \in Running /\ after(l).pc = "create"
             /\ after(l).answer = sync[s].answer /\ after(l).found = sync[s].found
             /\ after(l).todo = sync[s].todo \ {e} /\ after(l).latest = l
  BY <1>1, <1>2 DEF Running
<1>4. CASE /\ sync' = [sync EXCEPT ![s].todo = @ \ {e}]
           /\ failures' = failures + 1
           /\ UNCHANGED <<events, queue>>
  <2>1. sync' = [sync EXCEPT ![s] = [sync[s] EXCEPT !.todo = @ \ {e}]]
    BY <1>4
  <2>2. PICK d : d = [sync[s] EXCEPT !.todo = sync[s].todo \ {e}]
    OBVIOUS
  <2>3. /\ d \in Running /\ d.pc = "create" /\ d.answer = sync[s].answer
        /\ d.found = sync[s].found /\ d.todo = sync[s].todo \ {e}
        /\ d.latest = sync[s].latest
    BY <1>1, <1>2, <2>2 DEF Running
  <2> QED
    BY <1>1, <1>2, <1>4, <2>1, <2>2, <2>3 DEF Creates
<1>5. CASE /\ events' = [events EXCEPT ![e] =
                  IF sync[s].found THEN [@ EXCEPT !.linked = events[e].linked + 1]
                  ELSE [@ EXCEPT !.loose = events[e].loose + 1]]
           /\ sync' = [sync EXCEPT ![s] =
                  [@ EXCEPT !.todo = sync[s].todo \ {e},
                            !.latest = Newest({sync[s].latest, e})]]
           /\ queue' \in {queue \cup {[event |-> e, of |-> s, named |-> sync[s].found,
                                       nr |-> events[e].linked + events[e].loose]},
                          queue}
           /\ failures' = failures
  <2>1. PICK l : l = Newest({sync[s].latest, e})
    OBVIOUS
  <2>2. l \in Event \cup {NoEvent}
    BY <1>2, <2>1, NewestIs
  <2>3. sync' = [sync EXCEPT ![s] = after(l)]
    <3>1. sync' = [sync EXCEPT ![s] =
                     [sync[s] EXCEPT !.todo = sync[s].todo \ {e},
                                     !.latest = Newest({sync[s].latest, e})]]
      BY <1>5
    <3> QED
      BY <2>1, <3>1
  <2>4. PICK new : new = IF sync[s].found
                         THEN [events[e] EXCEPT !.linked = events[e].linked + 1]
                         ELSE [events[e] EXCEPT !.loose = events[e].loose + 1]
    OBVIOUS
  <2>5. events' = [events EXCEPT ![e] = new]
    BY <1>5, <2>4
  <2>6. /\ new \in [linked: Nat, loose: Nat]
        /\ sync[s].found => /\ new.linked = events[e].linked + 1
                            /\ new.loose = events[e].loose
        /\ ~sync[s].found => /\ new.linked = events[e].linked
                             /\ new.loose = events[e].loose + 1
    BY <1>2, <2>4
  <2>7. PICK m : m = [event |-> e, of |-> s, named |-> sync[s].found,
                      nr |-> events[e].linked + events[e].loose]
    OBVIOUS
  <2>8. m \in Message /\ m.event = e /\ m.named = sync[s].found
    BY <1>2, <2>7 DEF Message
  <2>9. queue' \in {queue \cup {m}, queue}
    BY <1>5, <2>7
  <2>10. PICK d : d = after(l)
    OBVIOUS
  <2>11. /\ d \in Running /\ d.pc = "create" /\ d.answer = sync[s].answer
         /\ d.found = sync[s].found /\ d.todo = sync[s].todo \ {e} /\ d.latest = l
    BY <1>3, <2>2, <2>10
  <2>12. sync' = [sync EXCEPT ![s] = d]
    BY <2>3, <2>10
  <2> HIDE DEF after
  <2> QED
    BY <1>1, <1>2, <1>5, <2>1, <2>5, <2>6, <2>8, <2>9, <2>11, <2>12
       DEF Creates, StoresOne, Announces
<1> QED
  BY <1>4, <1>5 DEF CreateEvent

-----------------------------------------------------------------------------
(* The rows of an event.                                                    *)

Writes(d, e) == d.pc = "create" /\ e \in d.todo
Waits(d, e) == d.pc = "load" \/ Writes(d, e)

LEMMA CountsMove ==
  ASSUME FulfillmentConstants, FulfillmentTypeOK, NEW s \in Syncs, NEW e \in Event,
         NEW d \in {NoSync} \cup Running, sync' = [sync EXCEPT ![s] = d]
  PROVE  /\ Cardinality(Writing(e)') \in Nat /\ Cardinality(Waiting(e)') \in Nat
         /\ (Writes(sync[s], e) <=> Writes(d, e)) =>
               Cardinality(Writing(e)') = Cardinality(Writing(e))
         /\ Writes(sync[s], e) /\ ~Writes(d, e) =>
               Cardinality(Writing(e)') = Cardinality(Writing(e)) - 1
         /\ ~Writes(sync[s], e) /\ Writes(d, e) =>
               Cardinality(Writing(e)') = Cardinality(Writing(e)) + 1
         /\ (Waits(sync[s], e) <=> Waits(d, e)) =>
               Cardinality(Waiting(e)') = Cardinality(Waiting(e))
         /\ Waits(sync[s], e) /\ ~Waits(d, e) =>
               Cardinality(Waiting(e)') = Cardinality(Waiting(e)) - 1
         /\ ~Waits(sync[s], e) /\ Waits(d, e) =>
               Cardinality(Waiting(e)') = Cardinality(Waiting(e)) + 1
<1>1. /\ sync'[s] = d
      /\ \A x \in Syncs : x # s => sync'[x] = sync[x]
  BY SyncReplaces
<1>2. PICK A, B, C, D : /\ A = Writing(e) /\ B = Writing(e)'
                        /\ C = Waiting(e) /\ D = Waiting(e)'
  OBVIOUS
<1>3. /\ A \in SUBSET Syncs /\ B \in SUBSET Syncs
      /\ C \in SUBSET Syncs /\ D \in SUBSET Syncs
      /\ \A x \in Syncs : x # s => (x \in B <=> x \in A) /\ (x \in D <=> x \in C)
      /\ (s \in A <=> Writes(sync[s], e)) /\ (s \in B <=> Writes(d, e))
      /\ (s \in C <=> Waits(sync[s], e)) /\ (s \in D <=> Waits(d, e))
  BY <1>1, <1>2 DEF Writing, Waiting, Writes, Waits
<1>4. IsFiniteSet(Syncs)
  BY DEF FulfillmentConstants
<1>5. /\ Cardinality(A) \in Nat /\ Cardinality(B) \in Nat
      /\ (s \in A <=> s \in B) => Cardinality(B) = Cardinality(A)
      /\ s \in A /\ s \notin B => Cardinality(B) = Cardinality(A) - 1
      /\ s \notin A /\ s \in B => Cardinality(B) = Cardinality(A) + 1
  BY <1>3, <1>4, OneApart
<1>6. /\ Cardinality(C) \in Nat /\ Cardinality(D) \in Nat
      /\ (s \in C <=> s \in D) => Cardinality(D) = Cardinality(C)
      /\ s \in C /\ s \notin D => Cardinality(D) = Cardinality(C) - 1
      /\ s \notin C /\ s \in D => Cardinality(D) = Cardinality(C) + 1
  BY <1>3, <1>4, OneApart
<1> QED
  BY <1>2, <1>3, <1>5, <1>6

(* A sync that begins alone finds no other one under way.                   *)
LEMMA FetchRows ==
  ASSUME FulfillmentConstants, FulfillmentTypeOK, RowsInv, BaseInv, NEW s \in Syncs, Fetch(s)
  PROVE  RowsInv'
<1> SUFFICES ASSUME NEW e \in Event PROVE (Due(e) <= 1 + syncOverlaps)'
  BY DEF RowsInv
<1>1. PICK d \in Running : /\ sync[s] = NoSync /\ sync' = [sync EXCEPT ![s] = d]
                           /\ d.pc = "load"
  BY FetchMeans
<1>2. /\ ~Writes(sync[s], e) /\ ~Writes(d, e)
      /\ ~Waits(sync[s], e) /\ Waits(d, e)
  BY <1>1, RunningIsNotIdle DEF Writes, Waits, NoSync
<1>3. /\ Cardinality(Writing(e)') = Cardinality(Writing(e))
      /\ Cardinality(Waiting(e)') = Cardinality(Waiting(e)) + 1
  BY <1>1, <1>2, CountsMove
<1>4. events' = events
  BY DEF Fetch
<1>5. Count(e)' = Count(e) /\ Stored(e)' = Stored(e)
  BY <1>4 DEF Count, Stored
<1>6. Due(e) <= 1 + syncOverlaps
  BY DEF RowsInv
<1>7. syncOverlaps \in Nat /\ Count(e) \in Nat /\ Cardinality(Writing(e)) \in Nat
      /\ Cardinality(Waiting(e)) \in Nat
  BY Numbers
<1>8. CASE \E x \in Syncs : sync[x] # NoSync
  <2>1. syncOverlaps' = syncOverlaps + 1
    BY <1>8 DEF Fetch
  <2> QED
    BY <1>3, <1>5, <1>6, <1>7, <2>1 DEF Due
<1>9. CASE ~ \E x \in Syncs : sync[x] # NoSync
  <2>1. syncOverlaps' = syncOverlaps
    BY <1>9 DEF Fetch
  <2>2. Waiting(e) = {}
    BY <1>9 DEF Waiting, NoSync
  <2>3. Cardinality(Waiting(e)) = 0
    BY <2>2, FS_EmptySet
  <2> QED
    BY <1>3, <1>5, <1>6, <1>7, <2>1, <2>3 DEF Due
<1> QED
  BY <1>8, <1>9

LEMMA LoadRows ==
  ASSUME FulfillmentConstants, FulfillmentTypeOK, RowsInv, NEW s \in Syncs, LoadExisting(s)
  PROVE  RowsInv'
<1> SUFFICES ASSUME NEW e \in Event PROVE (Due(e) <= 1 + syncOverlaps)'
  BY DEF RowsInv
<1>1. PICK d \in Running :
         /\ sync[s].pc = "load" /\ sync' = [sync EXCEPT ![s] = d]
         /\ d.pc = "create" /\ d.todo = {x \in sync[s].answer : ~Stored(x)}
  BY LoadMeans
<1>2. /\ ~Writes(sync[s], e) /\ Waits(sync[s], e)
      /\ Stored(e) => ~Writes(d, e)
  BY <1>1 DEF Writes, Waits
<1>3. /\ Cardinality(Writing(e)') \in Nat /\ Cardinality(Waiting(e)') \in Nat
      /\ Stored(e) => Cardinality(Writing(e)') = Cardinality(Writing(e))
      /\ \/ Cardinality(Waiting(e)') = Cardinality(Waiting(e))
         \/ Cardinality(Waiting(e)') = Cardinality(Waiting(e)) - 1
  BY <1>1, <1>2, CountsMove
<1>4. events' = events /\ syncOverlaps' = syncOverlaps
  BY DEF LoadExisting, syncCounts
<1>5. Count(e)' = Count(e) /\ Stored(e)' = Stored(e)
  BY <1>4 DEF Count, Stored
<1>6. Due(e) <= 1 + syncOverlaps
  BY DEF RowsInv
<1>7. syncOverlaps \in Nat /\ Count(e) \in Nat /\ Cardinality(Writing(e)) \in Nat
      /\ Cardinality(Waiting(e)) \in Nat
  BY Numbers
<1> QED
  BY <1>3, <1>4, <1>5, <1>6, <1>7 DEF Due

(* A row replaces the sync that was to write it; of another event nothing   *)
(* changes.                                                                 *)
LEMMA CreateRows ==
  ASSUME FulfillmentConstants, FulfillmentTypeOK, RowsInv, NEW s \in Syncs,
         NEW x \in sync[s].todo, CreateEvent(s, x)
  PROVE  RowsInv'
<1> SUFFICES ASSUME NEW e \in Event PROVE (Due(e) <= 1 + syncOverlaps)'
  BY DEF RowsInv
<1>1. PICK d \in Running :
         /\ sync[s].pc = "create" /\ x \in Event
         /\ sync' = [sync EXCEPT ![s] = d]
         /\ d.pc = "create" /\ d.todo = sync[s].todo \ {x}
         /\ events' = events \/ StoresOne(s, x)
  BY CreateMeans DEF Creates
<1>2. syncOverlaps' = syncOverlaps
  BY DEF CreateEvent, syncCounts
<1>3. Due(e) <= 1 + syncOverlaps
  BY DEF RowsInv
<1>4. /\ syncOverlaps \in Nat /\ Count(e) \in Nat /\ Cardinality(Writing(e)) \in Nat
      /\ Cardinality(Waiting(e)) \in Nat
      /\ Cardinality(Writing(e)) <= Cardinality(Waiting(e))
      /\ events[e].linked \in Nat /\ events[e].loose \in Nat
      /\ ~Stored(e) => Count(e) = 0
  BY Numbers
<1>5. CASE e # x
  <2>1. Writes(sync[s], e) <=> Writes(d, e)
    BY <1>1, <1>5 DEF Writes
  <2>2. Waits(sync[s], e) <=> Waits(d, e)
    BY <1>1, <2>1 DEF Waits
  <2>3. /\ Cardinality(Writing(e)') = Cardinality(Writing(e))
        /\ Cardinality(Waiting(e)') = Cardinality(Waiting(e))
    BY <1>1, <2>1, <2>2, CountsMove
  <2>4. events'[e] = events[e]
    BY <1>1, <1>5 DEF FulfillmentTypeOK, StoresOne
  <2>5. Count(e)' = Count(e) /\ Stored(e)' = Stored(e)
    BY <2>4 DEF Count, Stored
  <2> QED
    BY <1>2, <1>3, <1>4, <2>3, <2>5 DEF Due
<1>6. CASE e = x
  <2>1. Writes(sync[s], e) /\ ~Writes(d, e) /\ Waits(sync[s], e) /\ ~Waits(d, e)
    BY <1>1, <1>6 DEF Writes, Waits
  <2>2. /\ Cardinality(Writing(e)') = Cardinality(Writing(e)) - 1
        /\ Cardinality(Waiting(e)') = Cardinality(Waiting(e)) - 1
        /\ Cardinality(Writing(e)') \in Nat
    BY <1>1, <2>1, CountsMove
  <2>3. CASE events' = events
    <3>1. Count(e)' = Count(e) /\ Stored(e)' = Stored(e)
      BY <2>3 DEF Count, Stored
    <3> QED
      BY <1>2, <1>3, <1>4, <2>2, <3>1 DEF Due
  <2>4. CASE events' # events
    <3>1. Count(e)' = Count(e) + 1
      <4>1. PICK new \in [linked: Nat, loose: Nat] :
                  /\ events' = [events EXCEPT ![x] = new]
                  /\ sync[s].found => /\ new.linked = events[x].linked + 1
                                      /\ new.loose = events[x].loose
                  /\ ~sync[s].found => /\ new.linked = events[x].linked
                                       /\ new.loose = events[x].loose + 1
        BY <1>1, <2>4 DEF StoresOne
      <4>2. events'[e] = new
        BY <1>6, <4>1 DEF FulfillmentTypeOK
      <4>3. Count(e)' = new.linked + new.loose
        BY <4>2 DEF Count
      <4> QED
        BY <1>4, <1>6, <4>1, <4>3 DEF Count
    <3>2. Stored(e)'
      BY <1>4, <3>1 DEF Count, Stored
    <3> QED
      BY <1>2, <1>3, <1>4, <2>2, <3>1, <3>2 DEF Due
  <2> QED
    BY <2>3, <2>4
<1> QED
  BY <1>5, <1>6

LEMMA UpdateRows ==
  ASSUME FulfillmentConstants, FulfillmentTypeOK, RowsInv, NEW s \in Syncs, UpdateOrder(s)
  PROVE  RowsInv'
<1> SUFFICES ASSUME NEW e \in Event PROVE (Due(e) <= 1 + syncOverlaps)'
  BY DEF RowsInv
<1>1. /\ sync[s].pc = "create" /\ sync[s].todo = {}
      /\ sync' = [sync EXCEPT ![s] = NoSync]
      /\ events' = events /\ syncOverlaps' = syncOverlaps
  BY DEF UpdateOrder, syncCounts
<1>2. /\ ~Writes(sync[s], e) /\ ~Writes(NoSync, e)
      /\ ~Waits(sync[s], e) /\ ~Waits(NoSync, e)
  BY <1>1 DEF Writes, Waits, NoSync
<1>3. /\ Cardinality(Writing(e)') = Cardinality(Writing(e))
      /\ Cardinality(Waiting(e)') = Cardinality(Waiting(e))
  BY <1>1, <1>2, CountsMove
<1>4. Count(e)' = Count(e) /\ Stored(e)' = Stored(e)
  BY <1>1 DEF Count, Stored
<1>5. Due(e) <= 1 + syncOverlaps
  BY DEF RowsInv
<1> QED
  BY <1>1, <1>3, <1>4, <1>5 DEF Due

LEMMA RestRows ==
  ASSUME RowsInv, UNCHANGED <<events, sync, syncOverlaps>>
  PROVE  RowsInv'
  BY DEF RowsInv, Due, Stored, Count, Writing, Waiting

-----------------------------------------------------------------------------
(* Types.                                                                   *)

LEMMA StoreTypes ==
  ASSUME FulfillmentTypeOK, NEW s \in Syncs, NEW e \in Event, StoresOne(s, e)
  PROVE  /\ events' \in [Event -> [linked: Nat, loose: Nat]]
         /\ \A x \in Event : x # e => events'[x] = events[x]
         /\ events[e].linked \in Nat /\ events[e].loose \in Nat
         /\ sync[s].found => events'[e].linked = events[e].linked + 1
         /\ ~sync[s].found => events'[e].linked = events[e].linked
         /\ events'[e].linked + events'[e].loose > 0
<1>1. PICK new \in [linked: Nat, loose: Nat] :
       /\ events' = [events EXCEPT ![e] = new]
       /\ sync[s].found => /\ new.linked = events[e].linked + 1
                           /\ new.loose = events[e].loose
       /\ ~sync[s].found => /\ new.linked = events[e].linked
                            /\ new.loose = events[e].loose + 1
  BY DEF StoresOne
<1>2. /\ events' \in [Event -> [linked: Nat, loose: Nat]]
      /\ events'[e] = new
      /\ \A x \in Event : x # e => events'[x] = events[x]
      /\ events[e].linked \in Nat /\ events[e].loose \in Nat
  BY <1>1 DEF FulfillmentTypeOK
<1> QED
  BY <1>1, <1>2

LEMMA TypesStay ==
  ASSUME FulfillmentConstants, FulfillmentTypeOK, BaseInv, FulfillmentNext
  PROVE  FulfillmentTypeOK'
<1>0. /\ key \in ListNames /\ carrier \subseteq Event
      /\ unordered \in Nat /\ row \in [exists: BOOLEAN, latest: Event \cup {NoEvent}]
      /\ sync \in [Syncs -> {NoSync} \cup Running]
      /\ events \in [Event -> [linked: Nat, loose: Nat]]
      /\ queue \subseteq Message /\ mails \in [Event -> Nat]
      /\ failures \in 0..MaxFailures /\ syncsBegun \in 0..MaxSyncs /\ syncOverlaps \in Nat
  BY DEF FulfillmentTypeOK
<1>1. MaxFailures \in Nat /\ MaxSyncs \in Nat
  BY DEF FulfillmentConstants
<1>2. CASE \E e \in Event : Report(e)
  <2>1. PICK e \in Event : Report(e)
    BY <1>2
  <2>2. unordered' \in Nat
    BY <1>0, <2>1 DEF Report
  <2>3. carrier' \subseteq Event
    BY <1>0, <2>1 DEF Report
  <2>4. UNCHANGED <<key, row, events, sync, syncsBegun, syncOverlaps, failures, queue, mails>>
    BY <2>1 DEF Report, syncCounts
  <2> QED
    BY <1>0, <2>2, <2>3, <2>4 DEF FulfillmentTypeOK
<1>3. CASE OrderSynced
  <2>1. row' \in [exists: BOOLEAN, latest: Event \cup {NoEvent}]
    BY <1>0, <1>3 DEF OrderSynced
  <2>2. UNCHANGED <<key, carrier, unordered, events, sync, syncsBegun, syncOverlaps, failures,
                    queue, mails>>
    BY <1>3 DEF OrderSynced, shopifyVars, syncCounts
  <2> QED
    BY <1>0, <2>1, <2>2 DEF FulfillmentTypeOK
<1>4. ASSUME NEW s \in Syncs, Fetch(s) PROVE FulfillmentTypeOK'
  <2>1. sync' \in [Syncs -> {NoSync} \cup Running]
    BY <1>4, FetchMeans, SyncReplaces
  <2>2. syncsBegun' \in 0..MaxSyncs /\ syncOverlaps' \in Nat
    BY <1>0, <1>1, <1>4 DEF Fetch
  <2>3. UNCHANGED <<key, carrier, unordered, row, events, failures, queue, mails>>
    BY <1>4 DEF Fetch, shopifyVars
  <2> QED
    BY <1>0, <2>1, <2>2, <2>3 DEF FulfillmentTypeOK
<1>5. ASSUME NEW s \in Syncs, LoadExisting(s) PROVE FulfillmentTypeOK'
  <2>1. sync' \in [Syncs -> {NoSync} \cup Running]
    BY <1>5, LoadMeans, SyncReplaces
  <2>2. UNCHANGED <<key, carrier, unordered, row, events, syncsBegun, syncOverlaps, failures,
                    queue, mails>>
    BY <1>5 DEF LoadExisting, shopifyVars, syncCounts
  <2> QED
    BY <1>0, <2>1, <2>2 DEF FulfillmentTypeOK
<1>6. ASSUME NEW s \in Syncs, NEW e \in sync[s].todo, CreateEvent(s, e) PROVE FulfillmentTypeOK'
  <2>1. PICK d \in Running : Creates(s, e, d)
    BY <1>6, CreateMeans
  <2>2. sync' \in [Syncs -> {NoSync} \cup Running]
    BY <2>1, SyncReplaces DEF Creates
  <2>3. UNCHANGED <<key, carrier, unordered, row, syncsBegun, syncOverlaps, mails>>
    BY <1>6 DEF CreateEvent, shopifyVars, syncCounts
  <2>4. failures' \in 0..MaxFailures
    BY <1>0, <1>1, <1>6 DEF CreateEvent
  <2>5. events' \in [Event -> [linked: Nat, loose: Nat]]
    BY <1>0, <2>1, StoreTypes DEF Creates
  <2>6. queue' \subseteq Message
    BY <1>0, <2>1 DEF Creates, Announces
  <2> QED
    BY <1>0, <2>2, <2>3, <2>4, <2>5, <2>6 DEF FulfillmentTypeOK
<1>7. ASSUME NEW s \in Syncs, UpdateOrder(s) PROVE FulfillmentTypeOK'
  <2>1. sync' \in [Syncs -> {NoSync} \cup Running]
    BY <1>7, SyncReplaces DEF UpdateOrder
  <2>2. sync[s] \in Running
    BY <1>7, WhoRuns DEF UpdateOrder
  <2>3. sync[s].latest \in Event \cup {NoEvent}
    BY <2>2 DEF Running
  <2>4. row' \in [exists: BOOLEAN, latest: Event \cup {NoEvent}]
    BY <1>0, <1>7, <2>3 DEF UpdateOrder
  <2>5. failures' \in 0..MaxFailures
    BY <1>0, <1>1, <1>7 DEF UpdateOrder
  <2>6. UNCHANGED <<key, carrier, unordered, events, syncsBegun, syncOverlaps, queue, mails>>
    BY <1>7 DEF UpdateOrder, shopifyVars, syncCounts
  <2> QED
    BY <1>0, <2>1, <2>4, <2>5, <2>6 DEF FulfillmentTypeOK
<1>8. ASSUME NEW m \in queue, HandleStatusChanged(m) PROVE FulfillmentTypeOK'
  <2>1. m \in Message /\ m.event \in Event
    BY <1>0, <1>8 DEF Message
  <2>2. mails' \in [Event -> Nat] /\ queue' \subseteq Message
    BY <1>0, <1>8, <2>1 DEF HandleStatusChanged
  <2>3. UNCHANGED <<key, carrier, unordered, row, events, sync, syncsBegun, syncOverlaps, failures>>
    BY <1>8 DEF HandleStatusChanged, shopifyVars, syncCounts
  <2> QED
    BY <1>0, <2>2, <2>3 DEF FulfillmentTypeOK
<1> QED
  BY <1>2, <1>3, <1>4, <1>5, <1>6, <1>7, <1>8
     DEF FulfillmentNext, HandleFulfillmentCreate, Sync, Poll

-----------------------------------------------------------------------------
(* The messages to the customer.                                            *)

LEMMA NamedCounts ==
  ASSUME MailsInv, NEW e \in Event
  PROVE  /\ IsFiniteSet(Named(e)) /\ Cardinality(Named(e)) \in Nat
         /\ mails[e] + Cardinality(Named(e)) <= events[e].linked
<1>1. Named(e) \subseteq queue
  BY DEF Named
<1> QED
  BY <1>1, FS_Subset, FS_CardinalityType DEF MailsInv

LEMMA RestMails ==
  ASSUME MailsInv, UNCHANGED <<events, queue, mails>>
  PROVE  MailsInv'
  BY DEF MailsInv, Named

(* An event is announced under its order only when it is stored under it.   *)
LEMMA CreateMails ==
  ASSUME FulfillmentConstants, FulfillmentTypeOK, MailsInv, NEW s \in Syncs,
         NEW x \in sync[s].todo, CreateEvent(s, x)
  PROVE  MailsInv'
<1>1. PICK d \in Running : Creates(s, x, d)
  BY CreateMeans
<1>2. mails' = mails
  BY DEF CreateEvent
<1>3. CASE events' = events /\ queue' = queue
  BY <1>2, <1>3, RestMails
<1>4. CASE StoresOne(s, x) /\ Announces(s, x)
  <2>1. PICK m \in Message : /\ m.event = x /\ m.named = sync[s].found
                             /\ queue' \in {queue \cup {m}, queue}
    BY <1>4 DEF Announces
  <2>2. x \in Event
    BY <1>1 DEF Creates
  <2>3. IsFiniteSet(queue')
    BY <2>1, FS_AddElement DEF MailsInv
  <2>4. ASSUME NEW e \in Event
        PROVE  (mails[e] + Cardinality(Named(e)) <= events[e].linked)'
    <3>1. /\ IsFiniteSet(Named(e)) /\ Cardinality(Named(e)) \in Nat
          /\ mails[e] + Cardinality(Named(e)) <= events[e].linked
          /\ mails[e] \in Nat /\ events[e].linked \in Nat
      BY NamedCounts, Numbers
    <3>2. CASE e # x \/ ~sync[s].found
      <4>1. Named(e)' \subseteq Named(e)
        BY <2>1, <3>2 DEF Named
      <4>2. Cardinality(Named(e)') <= Cardinality(Named(e))
            /\ Cardinality(Named(e)') \in Nat
        BY <3>1, <4>1, FS_Subset, FS_CardinalityType
      <4>3. events'[e].linked = events[e].linked
        BY <1>4, <2>2, <3>2, StoreTypes
      <4> QED
        BY <1>2, <3>1, <4>2, <4>3
    <3>3. CASE e = x /\ sync[s].found
      <4>1. Named(e)' \subseteq Named(e) \cup {m}
        BY <2>1, <3>3 DEF Named
      <4>2. /\ IsFiniteSet(Named(e) \cup {m})
            /\ Cardinality(Named(e) \cup {m}) <= Cardinality(Named(e)) + 1
            /\ Cardinality(Named(e) \cup {m}) \in Nat
        <5>1. PICK N : N = Named(e)
          OBVIOUS
        <5>2. /\ IsFiniteSet(N \cup {m})
              /\ Cardinality(N \cup {m}) = IF m \in N THEN Cardinality(N)
                                           ELSE Cardinality(N) + 1
          BY <3>1, <5>1, FS_AddElement
        <5> QED
          BY <3>1, <5>1, <5>2
      <4>3. /\ Cardinality(Named(e)') <= Cardinality(Named(e) \cup {m})
            /\ Cardinality(Named(e)') \in Nat
        BY <4>1, <4>2, FS_Subset, FS_CardinalityType
      <4>4. events'[e].linked = events[e].linked + 1
        BY <1>4, <2>2, <3>3, StoreTypes
      <4> QED
        BY <1>2, <3>1, <4>2, <4>3, <4>4
    <3> QED
      BY <3>2, <3>3
  <2> QED
    BY <2>3, <2>4 DEF MailsInv
<1> QED
  BY <1>1, <1>3, <1>4 DEF Creates

(* A message that is sent is no longer in the queue.                        *)
LEMMA HandleMails ==
  ASSUME FulfillmentConstants, FulfillmentTypeOK, MailsInv, NEW m \in queue,
         HandleStatusChanged(m)
  PROVE  MailsInv'
<1>1. queue' = queue \ {m} /\ events' = events
  BY DEF HandleStatusChanged
<1>2. m.event \in Event
  BY DEF FulfillmentTypeOK, Message
<1>3. IsFiniteSet(queue')
  BY <1>1, FS_RemoveElement DEF MailsInv
<1>4. ASSUME NEW e \in Event
      PROVE  (mails[e] + Cardinality(Named(e)) <= events[e].linked)'
  <2>1. /\ IsFiniteSet(Named(e)) /\ Cardinality(Named(e)) \in Nat
        /\ mails[e] + Cardinality(Named(e)) <= events[e].linked
        /\ mails[e] \in Nat /\ events[e].linked \in Nat
    BY NamedCounts, Numbers
  <2>2. Named(e)' = Named(e) \ {m}
    BY <1>1 DEF Named
  <2>3. /\ Cardinality(Named(e)') \in Nat
        /\ Cardinality(Named(e)') <= Cardinality(Named(e))
        /\ m \in Named(e) => Cardinality(Named(e)') = Cardinality(Named(e)) - 1
    <3>1. PICK N : N = Named(e)
      OBVIOUS
    <3>2. /\ IsFiniteSet(N \ {m})
          /\ Cardinality(N \ {m}) = IF m \in N THEN Cardinality(N) - 1
                                     ELSE Cardinality(N)
      BY <2>1, <3>1, FS_RemoveElement
    <3>3. Cardinality(N \ {m}) \in Nat
      BY <3>2, FS_CardinalityType
    <3> QED
      BY <2>1, <2>2, <3>1, <3>2, <3>3
  <2>4. \/ mails'[e] = mails[e]
        \/ m \in Named(e) /\ mails'[e] = mails[e] + 1
    BY <1>2 DEF HandleStatusChanged, FulfillmentTypeOK, Named
  <2> QED
    BY <1>1, <2>1, <2>3, <2>4
<1> QED
  BY <1>3, <1>4 DEF MailsInv

-----------------------------------------------------------------------------
(* What is stored was reported.                                             *)

LEMMA EventsSame ==
  ASSUME events' = events
  PROVE  /\ Have' = Have /\ GetFulfillmentEvents' = GetFulfillmentEvents
         /\ Summary' = Summary
  BY DEF Have, Stored, GetFulfillmentEvents, Summary

LEMMA SetsOfEvents ==
  Have \subseteq Event /\ GetFulfillmentEvents \subseteq Event
  BY DEF Have, GetFulfillmentEvents

LEMMA LinkedIsStored ==
  ASSUME FulfillmentConstants, FulfillmentTypeOK
  PROVE  GetFulfillmentEvents \subseteq Have
<1> SUFFICES ASSUME NEW e \in GetFulfillmentEvents PROVE e \in Have
  OBVIOUS
<1>1. e \in Event /\ events[e].linked > 0
  BY DEF GetFulfillmentEvents
<1>2. ~Stored(e) => events[e].linked = 0
  BY <1>1, Numbers
<1> QED
  BY <1>1, <1>2 DEF Have

(* A sync keeps what it holds while the carrier reports and the order's row *)
(* appears.                                                                 *)
LEMMA HoldStays ==
  ASSUME NEW d, Holds(d), carrier \subseteq carrier', key' = key,
         row.exists => row'.exists
  PROVE  Holds(d)'
  BY DEF Holds

LEMMA SyncsHold ==
  ASSUME FulfillmentTypeOK, BaseInv, NEW s \in Syncs, NEW d \in {NoSync} \cup Running,
         sync' = [sync EXCEPT ![s] = d],
         carrier \subseteq carrier', key' = key, row.exists => row'.exists,
         d # NoSync => Holds(d)'
  PROVE  (\A x \in Syncs : sync[x] # NoSync => Holds(sync[x]))'
<1>1. /\ sync'[s] = d
      /\ \A x \in Syncs : x # s => sync'[x] = sync[x]
  BY SyncReplaces
<1> SUFFICES ASSUME NEW x \in Syncs, sync'[x] # NoSync PROVE Holds(sync[x])'
  OBVIOUS
<1>2. CASE x = s
  BY <1>1, <1>2 DEF Holds
<1>3. CASE x # s
  <2>1. PICK c : c = sync[x]
    OBVIOUS
  <2>2. sync'[x] = c /\ c # NoSync /\ Holds(c)
    BY <1>1, <1>3, <2>1 DEF BaseInv
  <2>3. Holds(c)'
    BY <2>2, HoldStays
  <2> QED
    BY <2>2, <2>3 DEF Holds
<1> QED
  BY <1>2, <1>3

(* The only sync under way, when that is what is known.                     *)
LEMMA AloneStays ==
  ASSUME FulfillmentTypeOK, BaseInv, NEW s \in Syncs, NEW d \in {NoSync} \cup Running,
         sync' = [sync EXCEPT ![s] = d], sync[s] # NoSync, syncOverlaps' = syncOverlaps
  PROVE  /\ (syncOverlaps = 0 =>
              \A x, y \in Syncs : sync[x] # NoSync /\ sync[y] # NoSync => x = y)'
         /\ syncOverlaps = 0 => \A x \in Syncs : x # s => sync'[x] = NoSync
<1>1. /\ sync'[s] = d
      /\ \A x \in Syncs : x # s => sync'[x] = sync[x]
  BY SyncReplaces
<1>2. syncOverlaps = 0 => \A x \in Syncs : x # s => sync[x] = NoSync
  BY DEF BaseInv
<1> QED
  BY <1>1, <1>2

LEMMA QuietMoves ==
  ASSUME FulfillmentTypeOK, NEW s \in Syncs, NEW d \in {NoSync} \cup Running,
         sync' = [sync EXCEPT ![s] = d],
         Quiet' => /\ \A x \in Syncs : x # s => sync'[x] = NoSync
                   /\ d = NoSync => AtRest'
                   /\ d # NoSync => OnTheWay(d)'
  PROVE  QuietInv'
<1>1. sync'[s] = d
  BY SyncReplaces
<1> SUFFICES ASSUME Quiet'
             PROVE  /\ (\A x \in Syncs : sync'[x] = NoSync) => AtRest'
                    /\ (\A x \in Syncs : sync[x] # NoSync => OnTheWay(sync[x]))'
  BY DEF QuietInv
<1>2. \A x \in Syncs : sync'[x] # NoSync => x = s /\ d # NoSync
  BY <1>1
<1>3. (\A x \in Syncs : sync'[x] = NoSync) => AtRest'
  BY <1>1
<1>4. ASSUME NEW x \in Syncs, sync'[x] # NoSync
      PROVE  OnTheWay(sync[x])'
  <2>1. sync'[x] = d /\ OnTheWay(d)'
    BY <1>1, <1>2, <1>4
  <2> QED
    BY <2>1 DEF OnTheWay
<1> QED
  BY <1>3, <1>4

(* Nothing moves that the orders and the syncs look at.                     *)
LEMMA RestBase ==
  ASSUME BaseInv, QuietInv,
         UNCHANGED <<key, carrier, unordered, row, events, sync, syncOverlaps, failures>>
  PROVE  BaseInv' /\ QuietInv'
<1>1. /\ Have' = Have /\ GetFulfillmentEvents' = GetFulfillmentEvents
      /\ Summary' = Summary
  BY EventsSame
<1>2. BaseInv'
  BY <1>1 DEF BaseInv, Holds
<1>3. QuietInv'
  BY <1>1 DEF QuietInv, Quiet, AtRest, OnTheWay, UpTo
<1> QED
  BY <1>2, <1>3

(* A report that comes in order comes after all that was reported before.   *)
LEMMA ReportBase ==
  ASSUME FulfillmentConstants, FulfillmentTypeOK, BaseInv, QuietInv, NEW e \in Event, Report(e)
  PROVE  BaseInv' /\ QuietInv'
<1>1. /\ \A x \in carrier : x.at # e.at
      /\ carrier' = carrier \cup {e}
      /\ unordered' = unordered + IF Newest(carrier).at < e.at THEN 0 ELSE 1
      /\ UNCHANGED <<key, row, events, sync, syncOverlaps, failures>>
  BY DEF Report, syncCounts
<1>2. /\ Have' = Have /\ GetFulfillmentEvents' = GetFulfillmentEvents
      /\ Summary' = Summary
  BY <1>1, EventsSame
<1>3. BaseInv'
  <2>1. \A x, y \in carrier' : x.at = y.at => x = y
    BY <1>1 DEF BaseInv
  <2>2. Have' \subseteq carrier'
    BY <1>1, <1>2 DEF BaseInv
  <2>3. (\A s \in Syncs : sync[s] # NoSync => Holds(sync[s]))'
    BY <1>1 DEF BaseInv, Holds
  <2> QED
    BY <1>1, <1>2, <2>1, <2>2, <2>3 DEF BaseInv
<1>4. QuietInv'
  <2> SUFFICES ASSUME Quiet' PROVE QuietInv'
    BY DEF QuietInv
  <2>0. unordered \in Nat /\ carrier \subseteq Event
    BY DEF FulfillmentTypeOK
  <2>1. Quiet /\ Newest(carrier).at < e.at
    BY <1>1, <2>0 DEF Quiet
  <2>2. \A x \in carrier : x.at < e.at
    <3> TAKE x \in carrier
    <3>1. x.at <= Newest(carrier).at /\ Newest(carrier) \in Event \cup {NoEvent}
      BY <2>0, NewestIs
    <3>2. x.at \in Int /\ e.at \in Int /\ Newest(carrier).at \in Int
      BY <2>0, <3>1, EventTimes
    <3> QED
      BY <2>1, <3>1, <3>2
  <2>3. ASSUME NEW E \in SUBSET carrier, UpTo(E, carrier)
        PROVE  UpTo(E, carrier')
    BY <1>1, <2>2, <2>3 DEF UpTo
  <2>4. Have \in SUBSET carrier
    BY DEF BaseInv
  <2>5. AtRest => AtRest'
    BY <1>1, <1>2, <2>3, <2>4 DEF AtRest
  <2>6. ASSUME NEW s \in Syncs, sync'[s] # NoSync
        PROVE  OnTheWay(sync[s])'
    <3>1. PICK d : d = sync[s]
      OBVIOUS
    <3>2. d # NoSync /\ Holds(d) /\ OnTheWay(d) /\ sync'[s] = d
      BY <1>1, <2>1, <2>6, <3>1 DEF BaseInv, QuietInv
    <3>3. d.answer \in SUBSET carrier /\ Have \cup d.todo \in SUBSET carrier
      BY <2>4, <3>2 DEF Holds
    <3>4. /\ UpTo(d.answer, carrier) => UpTo(d.answer, carrier')
          /\ UpTo(Have \cup d.todo, carrier) => UpTo(Have \cup d.todo, carrier')
      BY <2>3, <3>3
    <3>5. OnTheWay(d)'
      BY <1>1, <1>2, <2>5, <3>2, <3>4 DEF OnTheWay
    <3> QED
      BY <3>2, <3>5 DEF OnTheWay
  <2>7. (\A s \in Syncs : sync'[s] = NoSync) => AtRest'
    BY <1>1, <2>1, <2>5 DEF QuietInv
  <2> QED
    BY <2>6, <2>7 DEF QuietInv
<1> QED
  BY <1>3, <1>4

LEMMA OrderBase ==
  ASSUME FulfillmentTypeOK, BaseInv, QuietInv, OrderSynced
  PROVE  BaseInv' /\ QuietInv'
<1>1. /\ row' = [row EXCEPT !.exists = TRUE]
      /\ UNCHANGED <<key, carrier, unordered, events, sync, syncOverlaps, failures>>
  BY DEF OrderSynced, shopifyVars, syncCounts
<1>2. row'.exists /\ row'.latest = row.latest
  BY <1>1 DEF FulfillmentTypeOK
<1>3. /\ Have' = Have /\ GetFulfillmentEvents' = GetFulfillmentEvents
      /\ Summary' = Summary
  BY <1>1, EventsSame
<1>4. BaseInv'
  BY <1>1, <1>2, <1>3 DEF BaseInv, Holds
<1>5. QuietInv'
  BY <1>1, <1>2, <1>3 DEF QuietInv, Quiet, AtRest, OnTheWay, UpTo
<1> QED
  BY <1>4, <1>5

(* A sync that begins while nothing else runs finds what an earlier answer  *)
(* held and what came after it.                                             *)
LEMMA FetchBase ==
  ASSUME FulfillmentConstants, FulfillmentTypeOK, BaseInv, QuietInv, NEW s \in Syncs, Fetch(s)
  PROVE  BaseInv' /\ QuietInv'
<1>1. PICK d \in Running :
         /\ sync[s] = NoSync /\ sync' = [sync EXCEPT ![s] = d]
         /\ d.pc = "load" /\ d.answer = Decoded /\ d.found = row.exists
         /\ d.todo = {} /\ d.latest = NoEvent
  BY FetchMeans
<1>2. /\ UNCHANGED <<key, carrier, unordered, row, events, failures>>
      /\ syncOverlaps' = IF \E x \in Syncs : sync[x] # NoSync
                         THEN syncOverlaps + 1 ELSE syncOverlaps
      /\ syncOverlaps \in Nat
  BY DEF Fetch, shopifyVars, FulfillmentTypeOK
<1>3. /\ Have' = Have /\ GetFulfillmentEvents' = GetFulfillmentEvents
      /\ Summary' = Summary
  BY <1>2, EventsSame
<1>4. /\ sync'[s] = d
      /\ \A x \in Syncs : x # s => sync'[x] = sync[x]
  BY <1>1, SyncReplaces
<1>5. syncOverlaps' = 0 => syncOverlaps = 0 /\ \A x \in Syncs : sync[x] = NoSync
  BY <1>2
<1>6. BaseInv'
  <2>1. Holds(d)'
    BY <1>1, <1>2 DEF Holds, Decoded
  <2>2. (\A x \in Syncs : sync[x] # NoSync => Holds(sync[x]))'
    BY <1>1, <1>2, <2>1, SyncsHold
  <2>3. (syncOverlaps = 0 =>
           \A x, y \in Syncs : sync[x] # NoSync /\ sync[y] # NoSync => x = y)'
    BY <1>4, <1>5
  <2> QED
    BY <1>2, <1>3, <2>2, <2>3 DEF BaseInv
<1>7. ASSUME Quiet'
      PROVE  /\ \A x \in Syncs : x # s => sync'[x] = NoSync
             /\ OnTheWay(d)'
  <2>1. Quiet /\ \A x \in Syncs : sync[x] = NoSync
    BY <1>2, <1>5, <1>7 DEF Quiet
  <2>2. AtRest
    BY <2>1 DEF QuietInv
  <2>3. AtRest'
    BY <1>2, <1>3, <2>2 DEF AtRest
  <2>4. UpTo(Decoded, carrier) /\ Have \subseteq Decoded
    BY DEF UpTo, Decoded, BaseInv
  <2>5. OnTheWay(d)'
    BY <1>1, <1>2, <1>3, <2>3, <2>4 DEF OnTheWay
  <2> QED
    BY <1>4, <2>1, <2>5
<1>8. d # NoSync /\ d \in {NoSync} \cup Running
  BY RunningIsNotIdle
<1>9. QuietInv'
  BY <1>1, <1>7, <1>8, QuietMoves
<1> QED
  BY <1>6, <1>9

(* What the sync found missing came after all that is stored.               *)
LEMMA LoadBase ==
  ASSUME FulfillmentConstants, FulfillmentTypeOK, BaseInv, QuietInv, NEW s \in Syncs,
         LoadExisting(s)
  PROVE  BaseInv' /\ QuietInv'
<1>1. PICK d \in Running :
         /\ sync[s] \in Running /\ sync[s].pc = "load"
         /\ sync' = [sync EXCEPT ![s] = d]
         /\ d.pc = "create" /\ d.answer = sync[s].answer
         /\ d.found = sync[s].found /\ d.latest = sync[s].latest
         /\ d.todo = {e \in sync[s].answer : ~Stored(e)}
  BY LoadMeans
<1>2. UNCHANGED <<key, carrier, unordered, row, events, syncOverlaps, failures>>
  BY DEF LoadExisting, shopifyVars, syncCounts
<1>3. /\ Have' = Have /\ GetFulfillmentEvents' = GetFulfillmentEvents
      /\ Summary' = Summary
  BY <1>2, EventsSame
<1>4. sync[s] # NoSync /\ d # NoSync /\ d \in {NoSync} \cup Running
  BY <1>1, RunningIsNotIdle
<1>5. PICK c : c = sync[s]
  OBVIOUS
<1>6. /\ Holds(c) /\ c.latest = NoEvent /\ c.answer \subseteq carrier
      /\ carrier \subseteq Event
  BY <1>1, <1>4, <1>5 DEF BaseInv, Holds, FulfillmentTypeOK
<1>7. d.todo = c.answer \ Have /\ d.todo \subseteq Event
  BY <1>1, <1>5, <1>6 DEF Have
<1>8. BaseInv'
  <2>1. Holds(d)'
    BY <1>1, <1>2, <1>5, <1>6, <1>7 DEF Holds
  <2>2. (\A x \in Syncs : sync[x] # NoSync => Holds(sync[x]))'
    BY <1>1, <1>2, <1>4, <2>1, SyncsHold
  <2>3. (syncOverlaps = 0 =>
           \A x, y \in Syncs : sync[x] # NoSync /\ sync[y] # NoSync => x = y)'
    BY <1>1, <1>2, <1>4, AloneStays
  <2> QED
    BY <1>2, <1>3, <2>2, <2>3 DEF BaseInv
<1>9. ASSUME Quiet'
      PROVE  /\ \A x \in Syncs : x # s => sync'[x] = NoSync
             /\ OnTheWay(d)'
  <2>1. Quiet
    BY <1>2, <1>9 DEF Quiet
  <2>2. OnTheWay(c)
    BY <1>4, <1>5, <2>1 DEF QuietInv
  <2>3. /\ UpTo(Have, carrier) /\ row.latest = Summary
        /\ UpTo(c.answer, carrier) /\ Have \subseteq c.answer
    BY <1>1, <1>5, <2>2 DEF OnTheWay, AtRest
  <2>4. \A x \in Syncs : x # s => sync'[x] = NoSync
    BY <1>1, <1>2, <1>4, <2>1, AloneStays DEF Quiet
  <2>5. d.todo \cap Have = {} /\ Have \cup d.todo = c.answer
    BY <1>7, <2>3
  <2>6. \A e \in d.todo : row.latest.at < e.at
    <3> TAKE e \in d.todo
    <3>1. e \in Event /\ e \in carrier \ Have /\ e.at \in Int /\ e.at > 0
      BY <1>6, <1>7, EventTimes
    <3>2. CASE Summary = NoEvent
      BY <2>3, <3>1, <3>2, EventTimes
    <3>3. CASE Summary # NoEvent
      <4>1. Summary \in GetFulfillmentEvents
        BY <3>3, NewestIs, SetsOfEvents DEF Summary
      <4>2. Summary \in Have
        BY <4>1, LinkedIsStored
      <4> QED
        BY <2>3, <3>1, <4>2 DEF UpTo
    <3> QED
      BY <3>2, <3>3
  <2>7. OnTheWay(d)'
    BY <1>1, <1>2, <1>3, <1>5, <1>6, <2>3, <2>5, <2>6 DEF OnTheWay
  <2> QED
    BY <2>4, <2>7
<1>10. QuietInv'
  BY <1>1, <1>4, <1>9, QuietMoves
<1> QED
  BY <1>8, <1>10

(* One more event is stored; the newest so far moves with it when it is     *)
(* stored under the order.                                                  *)
LEMMA CreateBase ==
  ASSUME FulfillmentConstants, FulfillmentTypeOK, BaseInv, QuietInv, NEW s \in Syncs,
         NEW e \in sync[s].todo, CreateEvent(s, e)
  PROVE  BaseInv' /\ QuietInv'
<1>1. PICK d \in Running : Creates(s, e, d)
  BY CreateMeans
<1>2. /\ sync[s] \in Running /\ sync[s].pc = "create" /\ e \in Event
      /\ sync' = [sync EXCEPT ![s] = d] /\ d.pc = "create"
      /\ d.answer = sync[s].answer /\ d.found = sync[s].found
      /\ d.todo = sync[s].todo \ {e}
  BY <1>1 DEF Creates
<1>3. UNCHANGED <<key, carrier, unordered, row, syncOverlaps>>
  BY DEF CreateEvent, shopifyVars, syncCounts
<1>4. sync[s] # NoSync /\ d # NoSync /\ d \in {NoSync} \cup Running
  BY <1>2, RunningIsNotIdle
<1>5. PICK c : c = sync[s]
  OBVIOUS
<1>6. Holds(c) /\ carrier \subseteq Event
  BY <1>2, <1>4, <1>5 DEF BaseInv, FulfillmentTypeOK
<1>7. e \in carrier /\ key = "edges"
  BY <1>5, <1>6 DEF Holds
<1>8. Holds(d)'
  BY <1>2, <1>3, <1>5, <1>6 DEF Holds
<1>9. /\ (\A x \in Syncs : sync[x] # NoSync => Holds(sync[x]))'
      /\ (syncOverlaps = 0 =>
            \A x, y \in Syncs : sync[x] # NoSync /\ sync[y] # NoSync => x = y)'
      /\ syncOverlaps = 0 => \A x \in Syncs : x # s => sync'[x] = NoSync
  <2>1. (\A x \in Syncs : sync[x] # NoSync => Holds(sync[x]))'
    BY <1>2, <1>3, <1>4, <1>8, SyncsHold
  <2> QED
    BY <1>2, <1>3, <1>4, <2>1, AloneStays
<1>10. CASE events' = events /\ failures' = failures + 1
  <2>1. /\ Have' = Have /\ GetFulfillmentEvents' = GetFulfillmentEvents
    BY <1>10, EventsSame
  <2>2. BaseInv'
    BY <1>3, <1>9, <2>1 DEF BaseInv
  <2>3. ~Quiet'
    BY <1>10 DEF Quiet, FulfillmentTypeOK
  <2> QED
    BY <2>2, <2>3 DEF QuietInv
<1>11. CASE /\ d.latest = Newest({c.latest, e}) /\ failures' = failures
            /\ StoresOne(s, e)
  <2>1. /\ \A x \in Event : x # e => events'[x] = events[x]
        /\ c.found => events'[e].linked = events[e].linked + 1
        /\ ~c.found => events'[e].linked = events[e].linked
        /\ events'[e].linked + events'[e].loose > 0
        /\ events[e].linked \in Nat
    BY <1>2, <1>5, <1>11, StoreTypes
  <2>2. Have' = Have \cup {e}
    BY <1>2, <2>1 DEF Have, Stored
  <2>3. c.found => GetFulfillmentEvents' = GetFulfillmentEvents \cup {e}
    BY <1>2, <2>1 DEF GetFulfillmentEvents
  <2>4. ~c.found => GetFulfillmentEvents' = GetFulfillmentEvents
    BY <1>2, <2>1 DEF GetFulfillmentEvents
  <2>5. c.found => row.exists
    BY <1>6 DEF Holds
  <2>6. BaseInv'
    BY <1>3, <1>7, <1>9, <2>2, <2>3, <2>4, <2>5 DEF BaseInv
  <2>7. ASSUME Quiet'
        PROVE  /\ \A x \in Syncs : x # s => sync'[x] = NoSync
               /\ OnTheWay(d)'
    <3>1. Quiet
      BY <1>3, <1>11, <2>7 DEF Quiet
    <3>2. OnTheWay(c)
      BY <1>4, <1>5, <3>1 DEF QuietInv
    <3>3. /\ c.todo \cap Have = {} /\ UpTo(Have \cup c.todo, carrier)
          /\ \A x \in c.todo : row.latest.at < x.at
          /\ Summary = IF c.found /\ c.latest # NoEvent THEN c.latest ELSE row.latest
      BY <1>2, <1>5, <3>2 DEF OnTheWay
    <3>4. e \in c.todo /\ e \notin Have
      BY <1>5, <3>3
    <3>5. d.todo \cap Have' = {} /\ Have' \cup d.todo = Have \cup c.todo
      BY <1>2, <1>5, <2>2, <3>3, <3>4
    <3>6. \A x \in d.todo : row.latest.at < x.at
      BY <1>2, <1>5, <3>3
    <3>7. Summary' = IF d.found /\ d.latest # NoEvent THEN d.latest ELSE row.latest
      <4>1. CASE ~c.found
        BY <1>2, <1>5, <2>4, <3>3, <4>1 DEF Summary
      <4>2. CASE c.found
        <5>1. /\ GetFulfillmentEvents \in SUBSET Event
              /\ GetFulfillmentEvents \subseteq Have /\ Have \subseteq carrier
          BY SetsOfEvents, LinkedIsStored DEF BaseInv
        <5>2. /\ \A x \in GetFulfillmentEvents : x.at # e.at
              /\ \A x, y \in GetFulfillmentEvents : x.at = y.at => x = y
          BY <1>7, <3>4, <5>1 DEF BaseInv
        <5>3. Summary' = IF Summary.at < e.at THEN e ELSE Summary
          BY <1>2, <2>3, <4>2, <5>1, <5>2, NewestWithOne DEF Summary
        <5>4. /\ e # NoEvent /\ e.at \in Int /\ e.at > 0 /\ NoEvent.at = 0
          BY <1>2, EventTimes
        <5>5. CASE c.latest = NoEvent
          <6>1. Summary' = e
            BY <3>3, <3>4, <5>3, <5>5
          <6>2. {c.latest, e} \in SUBSET (Event \cup {NoEvent})
            BY <1>2, <5>5
          <6>3. \A x \in {c.latest, e} : x # e => x.at < e.at
            BY <5>4, <5>5
          <6>4. d.latest = e
            BY <1>11, <6>2, <6>3, NewestAlone
          <6> QED
            BY <1>2, <1>5, <4>2, <5>4, <6>1, <6>4
        <5>6. CASE c.latest # NoEvent
          <6>1. Summary = c.latest
            BY <3>3, <4>2, <5>6
          <6>2. c.latest \in Event
            BY <1>2, <1>5, <5>6 DEF Running
          <6>3. c.latest.at # e.at
            <7>1. Summary \in GetFulfillmentEvents
              BY <5>1, <5>6, <6>1, NewestIs DEF Summary
            <7> QED
              BY <5>2, <6>1, <7>1
          <6>4. {c.latest, e} = {c.latest} \cup {e}
            OBVIOUS
          <6>5. Newest({c.latest}) = c.latest
            BY <6>2, NewestAlone
          <6>6. d.latest = IF c.latest.at < e.at THEN e ELSE c.latest
            BY <1>2, <1>11, <6>2, <6>3, <6>4, <6>5, NewestWithOne
          <6>7. d.latest # NoEvent
            BY <5>4, <5>6, <6>6
          <6> QED
            BY <1>2, <1>5, <4>2, <5>3, <6>1, <6>6, <6>7
        <5> QED
          BY <5>5, <5>6
      <4> QED
        BY <4>1, <4>2
    <3>8. OnTheWay(d)'
      BY <1>2, <1>3, <3>3, <3>5, <3>6, <3>7 DEF OnTheWay
    <3> QED
      BY <1>9, <3>1, <3>8 DEF Quiet
  <2>8. QuietInv'
    BY <1>2, <1>4, <2>7, QuietMoves
  <2> QED
    BY <2>6, <2>8
<1> QED
  BY <1>1, <1>5, <1>10, <1>11 DEF Creates

(* The order's row takes over what the sync has seen to be the newest.      *)
LEMMA UpdateBase ==
  ASSUME FulfillmentConstants, FulfillmentTypeOK, BaseInv, QuietInv, NEW s \in Syncs,
         UpdateOrder(s)
  PROVE  BaseInv' /\ QuietInv'
<1>1. /\ sync[s].pc = "create" /\ sync[s].todo = {}
      /\ sync' = [sync EXCEPT ![s] = NoSync]
      /\ UNCHANGED <<key, carrier, unordered, events, syncOverlaps>>
  BY DEF UpdateOrder, shopifyVars, syncCounts
<1>2. PICK c : c = sync[s]
  OBVIOUS
<1>3. c \in Running /\ c # NoSync /\ c.pc = "create" /\ c.todo = {}
  BY <1>1, <1>2, WhoRuns, RunningIsNotIdle
<1>4. Holds(c)
  BY <1>2, <1>3 DEF BaseInv
<1>5. /\ Have' = Have /\ GetFulfillmentEvents' = GetFulfillmentEvents
      /\ Summary' = Summary
  BY <1>1, EventsSame
<1>6. /\ row'.exists = row.exists
      /\ row.latest = NoEvent /\ ~row.exists => row'.latest = NoEvent
      /\ \/ /\ failures' = failures
            /\ row'.latest = IF c.found /\ c.latest # NoEvent THEN c.latest ELSE row.latest
         \/ failures' = failures + 1
  <2>1. c.found => row.exists
    BY <1>4 DEF Holds
  <2> QED
    BY <1>2, <2>1 DEF UpdateOrder, FulfillmentTypeOK
<1>7. BaseInv'
  <2>1. (\A x \in Syncs : sync[x] # NoSync => Holds(sync[x]))'
    BY <1>1, <1>6, SyncsHold
  <2>2. (syncOverlaps = 0 =>
           \A x, y \in Syncs : sync[x] # NoSync /\ sync[y] # NoSync => x = y)'
    BY <1>1, <1>2, <1>3, AloneStays
  <2> QED
    BY <1>1, <1>5, <1>6, <2>1, <2>2 DEF BaseInv
<1>8. ASSUME Quiet'
      PROVE  /\ \A x \in Syncs : x # s => sync'[x] = NoSync
             /\ AtRest'
  <2>1. failures \in Nat
    BY DEF FulfillmentTypeOK
  <2>2. failures' = failures /\ Quiet
    BY <1>1, <1>6, <1>8, <2>1 DEF Quiet
  <2>3. OnTheWay(c)
    BY <1>2, <1>3, <2>2 DEF QuietInv
  <2>4. /\ UpTo(Have, carrier)
        /\ Summary = IF c.found /\ c.latest # NoEvent THEN c.latest ELSE row.latest
    <3>1. Have \cup c.todo = Have
      BY <1>3
    <3> QED
      BY <1>3, <2>3, <3>1 DEF OnTheWay
  <2>5. row'.latest = Summary
    BY <1>6, <2>1, <2>2, <2>4
  <2>6. AtRest'
    BY <1>1, <1>5, <2>4, <2>5 DEF AtRest
  <2> QED
    BY <1>1, <1>2, <1>3, <2>2, <2>6, AloneStays DEF Quiet
<1>9. QuietInv'
  BY <1>1, <1>8, QuietMoves
<1> QED
  BY <1>7, <1>9

-----------------------------------------------------------------------------

LEMMA FulfillmentInitSatisfies == ASSUME FulfillmentConstants, FulfillmentInit PROVE FulfillmentInv
<1>1. /\ FulfillmentTypeOK /\ \A e \in Event : events[e] = [linked |-> 0, loose |-> 0]
      /\ \A s \in Syncs : sync[s] = NoSync
  BY DEF FulfillmentInit, FulfillmentTypeOK, FulfillmentConstants
<1>2. /\ \A e \in Event : ~Stored(e) /\ events[e].linked = 0
  BY <1>1 DEF Stored
<1>3. Have = {} /\ GetFulfillmentEvents = {}
  BY <1>2 DEF Have, GetFulfillmentEvents
<1>4. RowsInv
  <2> SUFFICES ASSUME NEW e \in Event PROVE Due(e) <= 1 + syncOverlaps
    BY DEF RowsInv
  <2>1. Waiting(e) = {}
    BY <1>1 DEF Waiting, NoSync
  <2>2. Due(e) = 0
    BY <1>2, <2>1, FS_EmptySet DEF Due
  <2> QED
    BY <2>2 DEF FulfillmentInit
<1>5. MailsInv
  <2>1. queue = {} /\ \A e \in Event : mails[e] = 0
    BY DEF FulfillmentInit
  <2>2. \A e \in Event : Named(e) = {}
    BY <2>1 DEF Named
  <2> QED
    BY <1>2, <2>1, <2>2, FS_EmptySet DEF MailsInv
<1>6. BaseInv
  BY <1>1, <1>3 DEF BaseInv, FulfillmentInit
<1>7. Summary = NoEvent
  BY <1>3 DEF Summary, Newest
<1>8. QuietInv
  BY <1>1, <1>3, <1>7 DEF QuietInv, AtRest, UpTo, FulfillmentInit
<1> QED
  BY <1>1, <1>4, <1>5, <1>6, <1>8 DEF FulfillmentInv

LEMMA FulfillmentNextKeeps == ASSUME FulfillmentConstants, FulfillmentInv, [FulfillmentNext]_fulfillmentVars PROVE FulfillmentInv'
<1>0. FulfillmentTypeOK /\ RowsInv /\ MailsInv /\ BaseInv /\ QuietInv
  BY DEF FulfillmentInv
<1>1. CASE UNCHANGED fulfillmentVars
  <2>1. UNCHANGED <<key, carrier, unordered, row, events, sync, syncsBegun, syncOverlaps,
                    failures, queue, mails>>
    BY <1>1 DEF fulfillmentVars
  <2>2. FulfillmentTypeOK'
    BY <1>0, <2>1 DEF FulfillmentTypeOK
  <2> QED
    BY <1>0, <2>1, <2>2, RestRows, RestMails, RestBase DEF FulfillmentInv
<1>2. ASSUME FulfillmentNext PROVE FulfillmentTypeOK'
  BY <1>0, <1>2, TypesStay
<1>3. CASE \E e \in Event : Report(e)
  <2>1. PICK e \in Event : Report(e)
    BY <1>3
  <2>2. UNCHANGED <<events, sync, syncOverlaps, queue, mails>>
    BY <2>1 DEF Report, syncCounts
  <2> QED
    BY <1>0, <1>2, <1>3, <2>1, <2>2, RestRows, RestMails, ReportBase DEF FulfillmentInv, FulfillmentNext
<1>4. CASE OrderSynced
  <2>1. UNCHANGED <<events, sync, syncOverlaps, queue, mails>>
    BY <1>4 DEF OrderSynced, syncCounts
  <2> QED
    BY <1>0, <1>2, <1>4, <2>1, RestRows, RestMails, OrderBase DEF FulfillmentInv, FulfillmentNext
<1>5. ASSUME NEW s \in Syncs, HandleFulfillmentCreate(s) \/ Sync(s) \/ Poll(s)
      PROVE  FulfillmentInv'
  <2>1. Fetch(s)
    BY <1>5 DEF HandleFulfillmentCreate, Sync, Poll
  <2>2. UNCHANGED <<events, queue, mails>>
    BY <2>1 DEF Fetch
  <2>3. FulfillmentTypeOK'
    BY <1>2, <1>5 DEF FulfillmentNext
  <2> QED
    BY <1>0, <2>1, <2>2, <2>3, FetchRows, RestMails, FetchBase DEF FulfillmentInv
<1>6. ASSUME NEW s \in Syncs, LoadExisting(s) PROVE FulfillmentInv'
  <2>1. UNCHANGED <<events, queue, mails>>
    BY <1>6 DEF LoadExisting
  <2>2. FulfillmentTypeOK'
    BY <1>2, <1>6 DEF FulfillmentNext
  <2> QED
    BY <1>0, <1>6, <2>1, <2>2, LoadRows, RestMails, LoadBase DEF FulfillmentInv
<1>7. ASSUME NEW s \in Syncs, NEW e \in sync[s].todo, CreateEvent(s, e) PROVE FulfillmentInv'
  <2>1. FulfillmentTypeOK'
    BY <1>2, <1>7 DEF FulfillmentNext
  <2> QED
    BY <1>0, <1>7, <2>1, CreateRows, CreateMails, CreateBase DEF FulfillmentInv
<1>8. ASSUME NEW s \in Syncs, UpdateOrder(s) PROVE FulfillmentInv'
  <2>1. UNCHANGED <<events, queue, mails>>
    BY <1>8 DEF UpdateOrder
  <2>2. FulfillmentTypeOK'
    BY <1>2, <1>8 DEF FulfillmentNext
  <2> QED
    BY <1>0, <1>8, <2>1, <2>2, UpdateRows, RestMails, UpdateBase DEF FulfillmentInv
<1>9. ASSUME NEW m \in queue, HandleStatusChanged(m) PROVE FulfillmentInv'
  <2>1. UNCHANGED <<key, carrier, unordered, row, events, sync, syncOverlaps, failures>>
    BY <1>9 DEF HandleStatusChanged, shopifyVars, syncCounts
  <2>2. FulfillmentTypeOK'
    BY <1>2, <1>9 DEF FulfillmentNext
  <2> QED
    BY <1>0, <1>9, <2>1, <2>2, RestRows, HandleMails, RestBase DEF FulfillmentInv
<1> QED
  BY <1>1, <1>3, <1>4, <1>5, <1>6, <1>7, <1>8, <1>9 DEF FulfillmentNext

(* What the invariant says of the order that the shop and the chat show.    *)
LEMMA InvariantIsSound ==
  ASSUME FulfillmentConstants, FulfillmentInv
  PROVE  FulfillmentSound
<1>0. FulfillmentTypeOK /\ RowsInv /\ MailsInv /\ QuietInv
  BY DEF FulfillmentInv
<1>1. RowsBounded
  <2> SUFFICES ASSUME NEW e \in Event PROVE Count(e) <= 1 + syncOverlaps
    BY DEF RowsBounded, Count
  <2>1. Due(e) <= 1 + syncOverlaps
    BY <1>0 DEF RowsInv
  <2> QED
    BY <1>0, <2>1, Numbers DEF Due
<1>2. MailsBounded
  <2> SUFFICES ASSUME NEW e \in Event PROVE mails[e] <= events[e].linked
    BY DEF MailsBounded
  <2> QED
    BY <1>0, NamedCounts, Numbers
<1>3. SummaryAgrees
  <2>1. unordered \in Nat /\ failures \in Nat /\ syncOverlaps \in Nat
    BY <1>0 DEF FulfillmentTypeOK
  <2>2. CASE Quiet /\ \A s \in Syncs : sync[s] = NoSync
    BY <1>0, <2>2 DEF QuietInv, AtRest, SummaryAgrees
  <2>3. CASE ~Quiet \/ \E s \in Syncs : sync[s] # NoSync
    BY <2>1, <2>3 DEF Quiet, SummaryAgrees
  <2> QED
    BY <2>2, <2>3
<1> QED
  BY <1>1, <1>2, <1>3 DEF FulfillmentSound

(* Types: what the syncs of fulfillment_tracker.go fetch, hold and store    *)
(* keeps its shape, for any set of statuses and any number of syncs.        *)
THEOREM FulfillmentTypes == FulfillmentConstants => (FulfillmentSpec => []FulfillmentTypeOK)
<1> SUFFICES ASSUME FulfillmentConstants PROVE FulfillmentSpec => []FulfillmentTypeOK
  OBVIOUS
<1>1. FulfillmentInit => FulfillmentInv
  BY FulfillmentInitSatisfies
<1>2. FulfillmentInv /\ [FulfillmentNext]_fulfillmentVars => FulfillmentInv'
  BY FulfillmentNextKeeps
<1>3. FulfillmentInv => FulfillmentTypeOK
  BY DEF FulfillmentInv
<1> QED
  BY <1>1, <1>2, <1>3, PTL DEF FulfillmentSpec

(* However the webhook, the dashboard and the poll start their syncs, an    *)
(* event is stored again only by syncs that overlapped; the customer is     *)
(* told of it at most as often as it was stored under the order; and the    *)
(* chat and the dashboard tell the same newest event unless something came  *)
(* out of order, failed, overlapped or is under way (fulfillment_tracker.go,*)
(* fulfillment_notifier.go).                                                *)
THEOREM FulfillmentIsSound == FulfillmentConstants => (FulfillmentSpec => []FulfillmentSound)
<1> SUFFICES ASSUME FulfillmentConstants PROVE FulfillmentSpec => []FulfillmentSound
  OBVIOUS
<1>1. FulfillmentInit => FulfillmentInv
  BY FulfillmentInitSatisfies
<1>2. FulfillmentInv /\ [FulfillmentNext]_fulfillmentVars => FulfillmentInv'
  BY FulfillmentNextKeeps
<1>3. FulfillmentInv => FulfillmentSound
  BY InvariantIsSound
<1> QED
  BY <1>1, <1>2, <1>3, PTL DEF FulfillmentSpec
=============================================================================
