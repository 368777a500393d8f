------------------------------ MODULE Returns ------------------------------
(***************************************************************************)
(* One return of a shop: its row, the requests of the dashboard that read  *)
(* the row, decide, and write it again by primary key (returns.go), and    *)
(* the labels bought from ShipEngine (shipengine.go).                      *)
(*                                                                         *)
(* A write asks for the id alone, so what a handler read may be stale when *)
(* it writes; the result of a write is never looked at.                    *)
(***************************************************************************)
EXTENDS Naturals, FiniteSets

CONSTANTS Requests,     \* slots of concurrent requests
          MaxRequests   \* bound: requests that pass their guard

ReturnsConstants == IsFiniteSet(Requests) /\ MaxRequests \in Nat

VARIABLES
    ret,        \* the row: [status, label, amount]; status "none": no row
    shipEngine, \* a ShipEngine client is configured (fixed at start)
    req,        \* req[r]: what a request does, and what it has read
    begun,      \* requests that passed their guard
    overlaps,   \* requests that began while another was active
    losses,     \* answers of ShipEngine and writes of rows that were lost
    overwrites, \* writes over a status other than the one the writer read
    bought,     \* labels ShipEngine has sold
    refunds     \* times the row was set to refunded

rowVars == <<ret, overwrites, refunds>>
returnCounts == <<begun, overlaps>>
returnsVars == <<ret, shipEngine, req, begun, overlaps, losses, overwrites, bought, refunds>>

Statuses == {"pending", "approved", "label_issued", "customer_shipped", "received",
             "inspecting", "refunded", "exchanged", "rejected"}

\* validStatusTransitions
ValidNext == [pending |-> {"approved", "rejected"},
              approved |-> {"label_issued", "rejected"},
              label_issued |-> {"customer_shipped", "rejected"},
              customer_shipped |-> {"received"},
              received |-> {"inspecting"},
              inspecting |-> {"refunded", "exchanged", "rejected"},
              refunded |-> {}, exchanged |-> {}, rejected |-> {}]

\* The part of 100 dollars that a reason gives back (calculateRefundAmount).
RefundAmount(reason) ==
    CASE reason = "size" -> 90 [] reason = "changed_mind" -> 85 [] OTHER -> 100

Reasons == {"wrong_item", "size", "changed_mind"}

\* What a request asks for, and a request that has passed its guard.
Ops == [kind: {"approve"}, to: {"approved"}]
          \cup [kind: {"label"}, to: {"label_issued"}]
          \cup [kind: {"received"}, to: {"received"}]
          \cup [kind: {"status"}, to: Statuses]
          \cup [kind: {"refund"}, to: {"refunded"}, reason: Reasons]
NoRequest == [pc |-> "idle"]
Busy == [pc: {"write", "buy", "store"}, op: Ops, seen: Statuses,
         label: BOOLEAN, url: BOOLEAN]

\* Seeded bug: the refund handler refuses nothing but a rejected return.
AcceptsLateRefund(op, row) ==
    CASE op.kind = "label" -> row.status \in {"approved", "pending"} /\ ~row.label
      [] op.kind = "refund" -> row.status \notin {"pending", "rejected"}
      [] OTHER -> op.to \in ValidNext[row.status]
\* What each handler asks of the row it has loaded.
Accepts(op, row) ==
    CASE op.kind = "label" -> row.status \in {"approved", "pending"} /\ ~row.label
      [] op.kind = "refund" -> row.status \in {"inspecting", "received"}
      [] OTHER -> op.to \in ValidNext[row.status]

Active == {r \in Requests : req[r] # NoRequest}

ReturnsInit == /\ ret = [status |-> "none", label |-> FALSE, amount |-> 0]
               /\ shipEngine \in BOOLEAN
               /\ req = [r \in Requests |-> NoRequest]
               /\ begun = 0 /\ overlaps = 0 /\ losses = 0 /\ overwrites = 0
               /\ bought = 0 /\ refunds = 0

Create == /\ ret.status = "none"
          /\ ret' = [ret EXCEPT !.status = "pending"]
          /\ UNCHANGED <<shipEngine, req, returnCounts, losses, overwrites, bought, refunds>>

\* A request loads the row and passes its guard. One that is refused changes
\* nothing; so does a label that the row already has.
Load(r, op) ==
    /\ ret.status # "none" /\ req[r] = NoRequest /\ begun < MaxRequests
    /\ Accepts(op, ret)
    /\ req' = [req EXCEPT ![r] =
                 [pc |-> IF op.kind # "label" THEN "write"
                         ELSE IF shipEngine THEN "buy" ELSE "store",
                  op |-> op, seen |-> ret.status, label |-> ret.label, url |-> TRUE]]
    /\ begun' = begun + 1
    /\ overlaps' = IF Active = {} THEN overlaps ELSE overlaps + 1
    /\ UNCHANGED <<rowVars, shipEngine, losses, bought>>

\* The handlers, each up to its first write.
Approve(r) == Load(r, [kind |-> "approve", to |-> "approved"])
GenerateLabel(r) == Load(r, [kind |-> "label", to |-> "label_issued"])
MarkReceived(r) == Load(r, [kind |-> "received", to |-> "received"])
UpdateStatus(r) == \E s \in Statuses : Load(r, [kind |-> "status", to |-> s])
RefundReturn(r) ==
    \E reason \in Reasons : Load(r, [kind |-> "refund", to |-> "refunded", reason |-> reason])

\* UPDATE returns SET ... WHERE id = ?: it may fail, and nobody notices.
WriteRow(r, row) ==
    \/ /\ ret' = row
       /\ overwrites' = IF ret.status = req[r].seen THEN overwrites ELSE overwrites + 1
       /\ refunds' = IF row.status = "refunded" THEN refunds + 1 ELSE refunds
       /\ losses' = losses
    \/ losses' = losses + 1 /\ UNCHANGED rowVars

\* The new status, of MarkReceived and UpdateStatus; Approve goes on to buy a
\* label when ShipEngine is configured and the row it loaded had none.
SetStatus(r) ==
    /\ req[r].pc = "write" /\ req[r].op.kind # "refund"
    /\ WriteRow(r, [ret EXCEPT !.status = req[r].op.to])
    /\ req' = [req EXCEPT ![r] =
                 IF @.op.kind = "approve" /\ shipEngine /\ ~@.label
                 THEN [@ EXCEPT !.pc = "buy", !.seen = "approved"] ELSE NoRequest]
    /\ UNCHANGED <<shipEngine, returnCounts, bought>>

Refund(r) ==
    /\ req[r].pc = "write" /\ req[r].op.kind = "refund"
    /\ \E amount \in {RefundAmount(req[r].op.reason), 50} :   \* computed, or asked for
         WriteRow(r, [ret EXCEPT !.status = "refunded", !.amount = amount])
    /\ req' = [req EXCEPT ![r] = NoRequest]
    /\ UNCHANGED <<shipEngine, returnCounts, bought>>

\* ShipEngineClient.CreateLabel: a label, with or without its PDF; a refusal;
\* or a label whose answer does not arrive. Only the first is stored.
CreateLabel(r) ==
    /\ req[r].pc = "buy"
    /\ \/ \E pdf \in BOOLEAN : /\ bought' = bought + 1 /\ losses' = losses
                               /\ req' = [req EXCEPT ![r] = [@ EXCEPT !.pc = "store", !.url = pdf]]
       \/ req' = [req EXCEPT ![r] = NoRequest] /\ UNCHANGED <<bought, losses>>
       \/ req' = [req EXCEPT ![r] = NoRequest] /\ bought' = bought + 1 /\ losses' = losses + 1
    /\ UNCHANGED <<rowVars, shipEngine, returnCounts>>

\* The label and label_issued, in one update; without ShipEngine a made-up label.
StoreLabel(r) ==
    /\ req[r].pc = "store"
    /\ WriteRow(r, [ret EXCEPT !.status = "label_issued", !.label = req[r].url])
    /\ req' = [req EXCEPT ![r] = NoRequest]
    /\ UNCHANGED <<shipEngine, returnCounts, bought>>

ReturnsNext == \/ Create
               \/ \E r \in Requests : \/ Approve(r) \/ GenerateLabel(r) \/ MarkReceived(r)
                                     \/ UpdateStatus(r) \/ RefundReturn(r)
                                     \/ SetStatus(r) \/ Refund(r) \/ CreateLabel(r) \/ StoreLabel(r)

ReturnsSpec == ReturnsInit /\ [][ReturnsNext]_returnsVars

ReturnsTypeOK ==
    /\ ret \in [status: Statuses \cup {"none"}, label: BOOLEAN, amount: {0, 50, 85, 90, 100}]
    /\ shipEngine \in BOOLEAN
    /\ req \in [Requests -> {NoRequest} \cup Busy]
    /\ begun \in 0..MaxRequests /\ overlaps \in 0..begun
    /\ losses \in Nat /\ overwrites \in Nat /\ bought \in Nat /\ refunds \in Nat

\* A return is refunded again only after a request wrote over a status it had
\* not read: each refund but the first costs one such overwrite.
RefundsBounded == refunds <= 1 + overwrites

\* A label is bought again only by a request that overlapped another one, or
\* after an answer of ShipEngine or a write of the row was lost.
LabelsBounded == bought <= 1 + overlaps + losses

\* Money leaves the shop twice for one return only through a race or a loss.
PaidOnce == RefundsBounded /\ LabelsBounded
=============================================================================
