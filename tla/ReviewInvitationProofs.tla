----------------------- MODULE ReviewInvitationProofs -----------------------
(***************************************************************************)
(* Review invitations are safe for any number of webhooks, orders,         *)
(* engines, senders, retries and faults.                                   *)
(***************************************************************************)
EXTENDS ReviewInvitation, FiniteSetTheorems, TLAPS

(* Rows get the next free id, so the ids in use are an initial segment.     *)
RowsInv == \E n \in 0 .. MaxInvitations : Stored = 1 .. n

(* Whoever has a row in hand has a row that was stored.                     *)
HandsInv ==
    /\ \A s \in Sender : sender[s].pc # "idle" => sender[s].i \in Stored
    /\ \A e \in Engine : converter[e] # None => converter[e] \in Stored

(* The runs that may still mail invitation i, and those that have mailed it *)
(* and not marked it.                                                       *)
At(i, pc) == {s \in Sender : sender[s].i = i /\ sender[s].pc = pc}

Fits(i) ==
    /\ status[i] = "none" => mails[i] = 0
    /\ status[i] = "pending" => mails[i] <= Cardinality(At(i, "mark")) + faults
    /\ mails[i] + Cardinality(At(i, "mail")) <= Cardinality(Sender) + faults

MailInv == \A i \in Invitation : Fits(i)

(* Every row and every waiting event of an order is paid for.               *)
Of(o) == {i \in Stored : order[i] = o}
Known(o) == {d \in seen : OrderOf[d] = o}

InviteInv ==
    /\ IsFiniteSet(seen)
    /\ \A o \in Order :
          Cardinality(Of(o)) + fulfilled[o] <= Cardinality(Known(o)) + faults

IInv == TypeOK /\ reviews <= written
           /\ RowsInv /\ HandsInv /\ MailInv /\ InviteInv

-----------------------------------------------------------------------------
(* Types.                                                                   *)

Places == [pc : {"idle", "mail", "mark"}, i : Invitation \union {None},
           of : {"task", "resend", "late"}]

LEMMA FaultType ==
  ASSUME TypeOK, Fault
  PROVE  faults' \in 0 .. MaxFaults /\ faults' = faults + 1
  BY BoundsAssumption DEF TypeOK, Fault

(* asynq puts a task back, or archives it.                                  *)
LEMMA RetryType ==
  ASSUME TypeOK, NEW i \in Invitation \union {None}, Retry(i)
  PROVE  /\ task' \in [Invitation -> {"none", "due", "running"}]
         /\ retries' \in [Invitation -> 0 .. MaxRetries]
<1>1. CASE retries[i] < MaxRetries /\ i \in Invitation
  BY <1>1, BoundsAssumption DEF TypeOK, Retry
<1>2. CASE ~(retries[i] < MaxRetries)
  BY <1>2, BoundsAssumption DEF TypeOK, Retry
<1>3. CASE i \notin Invitation
  <2>1. task' = task \/ task' \in [Invitation -> {"none", "due", "running"}]
    BY <1>3 DEF TypeOK, Retry
  <2>2. retries' = [retries EXCEPT ![i] = @ + 1] \/ retries' = retries
    BY DEF Retry
  <2>3. [retries EXCEPT ![i] = @ + 1] = retries
    BY <1>3 DEF TypeOK
  <2> QED BY <2>1, <2>2, <2>3 DEF TypeOK
<1> QED BY <1>1, <1>2, <1>3

LEMMA OneMoreType ==
  ASSUME NEW f \in [Invitation -> Nat], NEW i
  PROVE  [f EXCEPT ![i] = @ + 1] \in [Invitation -> Nat]
<1>1. ASSUME NEW j \in Invitation
      PROVE  [f EXCEPT ![i] = @ + 1][j] \in Nat
  BY f[j] \in Nat
<1> QED BY <1>1

LEMMA RunReturnsType ==
  ASSUME TypeOK, NEW s \in Sender, Succeed(s) \/ Fail(s)
  PROVE  /\ sender' \in [Sender -> Places]
         /\ sender' = [sender EXCEPT ![s] = FreeSender]
         /\ task' \in [Invitation -> {"none", "due", "running"}]
         /\ retries' \in [Invitation -> 0 .. MaxRetries]
<1>0. sender[s] \in Places
  BY DEF TypeOK, Places
<1>1. sender' = [sender EXCEPT ![s] = FreeSender]
  BY DEF Succeed, Fail
<1>2. FreeSender \in Places
  BY DEF FreeSender, Places
<1>3. sender' \in [Sender -> Places]
  BY <1>1, <1>2 DEF TypeOK, Places
<1>4. CASE Succeed(s)
  BY <1>1, <1>3, <1>4 DEF TypeOK, Succeed
<1>5. CASE Fail(s) /\ sender[s].of = "task"
  <2>1. Retry(sender[s].i) /\ sender[s].i \in Invitation \union {None}
    BY <1>0, <1>5 DEF Fail, Places
  <2> QED BY <1>1, <1>3, <2>1, RetryType
<1>6. CASE Fail(s) /\ sender[s].of # "task"
  BY <1>1, <1>3, <1>6 DEF TypeOK, Fail
<1> QED BY <1>4, <1>5, <1>6

LEMMA WebhookType ==
  ASSUME TypeOK, reviews <= written, NEW d \in Webhook,
         Handle(d) \/ HandleUnchecked(d) \/ HandleFails(d)
  PROVE  TypeOK' /\ reviews' <= written'
<1>0. OrderOf[d] \in Order
  BY WebhookAssumption
<1>1. CASE Handle(d)
  BY <1>0, <1>1, BoundsAssumption
  DEF Handle, Delivery, Publish, TypeOK, rows, sending, prefs
<1>2. CASE HandleUnchecked(d)
  BY <1>0, <1>2, FaultType, BoundsAssumption
  DEF HandleUnchecked, Delivery, Publish, TypeOK, rows, sending, prefs
<1>3. CASE HandleFails(d)
  BY <1>0, <1>3, FaultType, BoundsAssumption
  DEF HandleFails, Delivery, TypeOK, rows, bus, sending, prefs
<1> QED BY <1>1, <1>2, <1>3

LEMMA OutsideType ==
  ASSUME TypeOK, reviews <= written, NEW wish \in BOOLEAN,
         SyncReview \/ UpdatePrefs(wish)
  PROVE  TypeOK' /\ reviews' <= written'
<1>1. CASE SyncReview
  BY <1>1, BoundsAssumption DEF SyncReview, TypeOK, webhooks, rows, sending, prefs
<1>2. CASE UpdatePrefs(wish)
  BY <1>2 DEF UpdatePrefs, TypeOK, webhooks, rows, bus, sending
<1> QED BY <1>1, <1>2

LEMMA CreateType ==
  ASSUME TypeOK, reviews <= written, RowsInv, NEW e \in Engine, NEW o \in Order,
         CreateInvitation(e, o) \/ CreateInvitationFails(e, o)
  PROVE  TypeOK' /\ reviews' <= written'
<1>1. CASE CreateInvitation(e, o)
  <2> DEFINE i == Cardinality(Stored) + 1
  <2>1. fulfilled' \in [Order -> Nat]
    BY <1>1 DEF CreateInvitation, TakeFulfilled, TypeOK
  <2>2. CASE invites
    <3>1. i \in Invitation
      <4>1. PICK n \in 0 .. MaxInvitations : Stored = 1 .. n
        BY DEF RowsInv
      <4>2. Cardinality(Stored) = n
        BY <4>1, FS_Interval
      <4> QED BY <1>1, <2>2, <4>2 DEF CreateInvitation, Invitation
    <3> HIDE DEF i
    <3>2. /\ status' = [status EXCEPT ![i] = "pending"]
          /\ order' = [order EXCEPT ![i] = o]
          /\ inviter' = [inviter EXCEPT ![e] = i]
      BY <1>1, <2>2 DEF CreateInvitation, i
    <3> QED BY <1>1, <2>1, <3>1, <3>2
        DEF CreateInvitation, TakeFulfilled, TypeOK, webhooks, sending, prefs
  <2>3. CASE ~invites
    BY <1>1, <2>1, <2>3
    DEF CreateInvitation, TakeFulfilled, TypeOK, webhooks, rows, sending, prefs
  <2> QED BY <2>2, <2>3
<1>2. CASE CreateInvitationFails(e, o)
  BY <1>2, FaultType
  DEF CreateInvitationFails, TakeFulfilled, TypeOK, webhooks, rows, sending, prefs
<1> QED BY <1>1, <1>2

LEMMA EnqueueType ==
  ASSUME TypeOK, reviews <= written, NEW e \in Engine,
         EnqueueAt(e) \/ EnqueueAtFails(e)
  PROVE  TypeOK' /\ reviews' <= written'
<1>1. CASE EnqueueAt(e)
  BY <1>1 DEF EnqueueAt, TypeOK, webhooks, bus, rows, prefs
<1>2. CASE EnqueueAtFails(e)
  BY <1>2, FaultType DEF EnqueueAtFails, TypeOK, webhooks, bus, rows, sending, prefs
<1> QED BY <1>1, <1>2

LEMMA ExecuteType ==
  ASSUME TypeOK, reviews <= written, NEW s \in Sender, NEW i \in Invitation,
         RunTask(s, i) \/ Resend(s, i)
  PROVE  TypeOK' /\ reviews' <= written'
<1>1. ASSUME NEW of \in {"task", "resend"}, Execute(s, i, of)
      PROVE  TypeOK' /\ reviews' <= written'
  <2>1. task' \in [Invitation -> {"none", "due", "running"}]
    BY <1>1 DEF Execute, TypeOK
  <2>2. sender' = sender \/ sender' = [sender EXCEPT ![s] = [pc |-> "mail", i |-> i, of |-> of]]
    BY <1>1 DEF Execute
  <2>3. [pc |-> "mail", i |-> i, of |-> of] \in Places
    BY <1>1 DEF Places
  <2>4. sender' \in [Sender -> Places]
    BY <2>2, <2>3 DEF TypeOK, Places
  <2> QED BY <1>1, <2>1, <2>4
      DEF Execute, TypeOK, Places, webhooks, bus, rows, prefs
<1> QED BY <1>1 DEF RunTask, Resend

LEMMA RunTaskFailsType ==
  ASSUME TypeOK, reviews <= written, NEW i \in Invitation, RunTaskFails(i)
  PROVE  TypeOK' /\ reviews' <= written'
<1>1. Retry(i) /\ Fault
  BY DEF RunTaskFails
<1> QED BY <1>1, RetryType, FaultType
    DEF RunTaskFails, TypeOK, webhooks, bus, rows, prefs

LEMMA SendType ==
  ASSUME TypeOK, reviews <= written, NEW s \in Sender,
         \/ SendToCustomer(s) \/ SendToCustomerFails(s)
         \/ MarkSent(s) \/ MarkSentFails(s) \/ TimeOut(s)
  PROVE  TypeOK' /\ reviews' <= written'
<1>0. sender[s] \in Places
  BY DEF TypeOK, Places
<1>1. CASE SendToCustomer(s)
  <2>1. [sender[s] EXCEPT !.pc = "mark"] \in Places
    BY <1>0 DEF Places
  <2>2. sender' = [sender EXCEPT ![s] = [sender[s] EXCEPT !.pc = "mark"]]
    BY <1>1 DEF SendToCustomer
  <2>3. sender' \in [Sender -> Places]
    BY <2>1, <2>2 DEF TypeOK, Places
  <2>4. mails' \in [Invitation -> Nat]
    BY <1>1, OneMoreType DEF SendToCustomer, TypeOK
  <2> QED BY <1>1, <2>3, <2>4
      DEF SendToCustomer, TypeOK, Places, webhooks, bus, rows, prefs
<1>2. CASE SendToCustomerFails(s)
  <2>1. mails' \in [Invitation -> Nat]
    <3>1. mails \in [Invitation -> Nat]
      BY DEF TypeOK
    <3>2. [mails EXCEPT ![sender[s].i] = @ + 1] \in [Invitation -> Nat]
      BY <3>1, OneMoreType
    <3> QED BY <1>2, <3>1, <3>2 DEF SendToCustomerFails
  <2>2. Fail(s) /\ Fault
    BY <1>2 DEF SendToCustomerFails, Fail
  <2> QED BY <1>2, <2>1, <2>2, FaultType, RunReturnsType
      DEF SendToCustomerFails, TypeOK, Places, webhooks, bus, rows, prefs
<1>3. CASE MarkSent(s)
  <2>1. status' \in [Invitation -> {"none", "pending", "sent", "converted"}]
    BY <1>3 DEF MarkSent, TypeOK
  <2>2. Succeed(s)
    BY <1>3 DEF MarkSent
  <2> QED BY <1>3, <2>1, <2>2, RunReturnsType
      DEF MarkSent, TypeOK, Places, webhooks, bus, prefs
<1>4. CASE MarkSentFails(s)
  <2>1. Fail(s) /\ Fault
    BY <1>4 DEF MarkSentFails, Fail
  <2> QED BY <1>4, <2>1, FaultType, RunReturnsType
      DEF MarkSentFails, TypeOK, Places, webhooks, bus, rows, prefs
<1>5. CASE TimeOut(s)
  <2>1. [sender[s] EXCEPT !.of = "late"] \in Places
    BY <1>0 DEF Places
  <2>2. sender' = [sender EXCEPT ![s] = [sender[s] EXCEPT !.of = "late"]]
    BY <1>5 DEF TimeOut
  <2>3. sender' \in [Sender -> Places]
    BY <2>1, <2>2 DEF TypeOK, Places
  <2>4. Fault /\ Retry(sender[s].i) /\ sender[s].i \in Invitation \union {None}
    BY <1>0, <1>5 DEF TimeOut, Places
  <2> QED BY <1>5, <2>3, <2>4, RetryType, FaultType
      DEF TimeOut, TypeOK, Places, webhooks, bus, rows, prefs
<1> QED BY <1>1, <1>2, <1>3, <1>4, <1>5

LEMMA AttributeType ==
  ASSUME TypeOK, reviews <= written, NEW e \in Engine,
         \/ FindInvitation(e) \/ FindInvitationFails(e)
         \/ Convert(e) \/ ConvertFails(e)
  PROVE  TypeOK' /\ reviews' <= written'
<1>1. CASE FindInvitation(e)
  <2>1. converter' \in [Engine -> Invitation \union {None}]
    BY <1>1 DEF FindInvitation, Open, TypeOK
  <2> QED BY <1>1, <2>1, BoundsAssumption
      DEF FindInvitation, TakeReview, TypeOK, webhooks, rows, sending, prefs
<1>2. CASE FindInvitationFails(e)
  BY <1>2, FaultType, BoundsAssumption
  DEF FindInvitationFails, TakeReview, TypeOK, webhooks, rows, sending, prefs
<1>3. CASE Convert(e)
  BY <1>3 DEF Convert, TypeOK, webhooks, bus, sending, prefs
<1>4. CASE ConvertFails(e)
  BY <1>4, FaultType DEF ConvertFails, TypeOK, webhooks, bus, rows, sending, prefs
<1> QED BY <1>1, <1>2, <1>3, <1>4

LEMMA TypeStep ==
  ASSUME TypeOK, reviews <= written, RowsInv, [Next]_vars
  PROVE  TypeOK' /\ reviews' <= written'
<1>1. CASE Environment
  BY <1>1, WebhookType, OutsideType DEF Environment
<1>2. CASE Invite
  BY <1>2, CreateType, EnqueueType DEF Invite
<1>3. CASE Send
  BY <1>3, ExecuteType, RunTaskFailsType, SendType DEF Send
<1>4. CASE Attribute
  BY <1>4, AttributeType DEF Attribute
<1>5. CASE UNCHANGED vars
  BY <1>5 DEF TypeOK, vars, webhooks, bus, rows, sending, prefs
<1> QED BY <1>1, <1>2, <1>3, <1>4, <1>5 DEF Next

-----------------------------------------------------------------------------
(* Rows.                                                                    *)

(* A new row takes an id that no row has.                                   *)
LEMMA RowIsNew ==
  ASSUME TypeOK, RowsInv, NEW e \in Engine, NEW o \in Order,
         CreateInvitation(e, o), invites
  PROVE  \E i \in Invitation \ Stored :
            /\ status' = [status EXCEPT ![i] = "pending"]
            /\ order' = [order EXCEPT ![i] = o]
            /\ Stored' = Stored \union {i}
            /\ RowsInv'
<1>1. PICK n \in 0 .. MaxInvitations : Stored = 1 .. n
  BY DEF RowsInv
<1>2. Cardinality(Stored) = n
  BY <1>1, FS_Interval
<1>3. /\ n + 1 <= MaxInvitations
      /\ status' = [status EXCEPT ![n + 1] = "pending"]
      /\ order' = [order EXCEPT ![n + 1] = o]
  BY <1>2 DEF CreateInvitation
<1>4. n + 1 \in Invitation \ Stored
  BY <1>1, <1>3 DEF Invitation
<1>5. Stored' = Stored \union {n + 1}
  BY <1>3, <1>4 DEF Stored, TypeOK
<1>6. Stored' = 1 .. n + 1 /\ n + 1 \in 0 .. MaxInvitations
  BY <1>1, <1>3, <1>5
<1>7. RowsInv'
  BY <1>6 DEF RowsInv
<1> QED BY <1>3, <1>4, <1>5, <1>7

(* A mark and a conversion are of a row that exists.                        *)
LEMMA RowsChange ==
  ASSUME TypeOK, NEW i \in Stored, NEW new \in {"sent", "converted"},
         status' = [status EXCEPT ![i] = new]
  PROVE  /\ Stored' = Stored /\ (RowsInv => RowsInv')
         /\ status'[i] = new
         /\ \A j \in Invitation \ {i} : status'[j] = status[j]
<1>1. i \in Invitation /\ status[i] # "none"
  BY DEF Stored
<1>2. Stored' = Stored
  BY <1>1 DEF Stored, TypeOK
<1> QED BY <1>1, <1>2 DEF RowsInv, TypeOK

(* Everything else leaves the rows alone.                                   *)
RowsKept ==
    \/ UNCHANGED rows
    \/ \E s \in Sender : MarkSent(s)
    \/ \E e \in Engine : Convert(e)
    \/ invites /\ \E e \in Engine, o \in Order : CreateInvitation(e, o)

LEMMA RowsStep ==
  ASSUME [Next]_vars
  PROVE  RowsKept
<1>1. CASE Environment
  BY <1>1 DEF Environment, RowsKept, Handle, HandleUnchecked, HandleFails,
              SyncReview, UpdatePrefs
<1>2. CASE Invite
  BY <1>2 DEF Invite, RowsKept, CreateInvitation, CreateInvitationFails,
              EnqueueAt, EnqueueAtFails
<1>3. CASE Send
  BY <1>3 DEF Send, RowsKept, RunTask, Resend, Execute, RunTaskFails,
              SendToCustomer, SendToCustomerFails, MarkSentFails, TimeOut
<1>4. CASE Attribute
  BY <1>4 DEF Attribute, RowsKept, FindInvitation, FindInvitationFails,
              TakeReview, ConvertFails
<1> QED BY <1>1, <1>2, <1>3, <1>4 DEF Next, RowsKept, vars

(* No row goes away or becomes pending again.                               *)
LEMMA RowsStay ==
  ASSUME TypeOK, RowsInv, HandsInv, [Next]_vars
  PROVE  /\ RowsInv'
         /\ Stored \subseteq Stored'
         /\ \A i \in Invitation :
               \/ status'[i] = status[i]
               \/ status'[i] \in {"sent", "converted"} /\ i \in Stored
               \/ status[i] = "none" /\ status'[i] = "pending"
<1>1. CASE UNCHANGED rows
  BY <1>1 DEF rows, RowsInv, Stored
<1>2. ASSUME NEW s \in Sender, MarkSent(s)
      PROVE  /\ Stored' = Stored /\ RowsInv' /\ sender[s].i \in Stored
             /\ status'[sender[s].i] = "sent"
             /\ \A j \in Invitation \ {sender[s].i} : status'[j] = status[j]
  <2>1. sender[s].i \in Stored /\ status' = [status EXCEPT ![sender[s].i] = "sent"]
    BY <1>2 DEF MarkSent, HandsInv
  <2> QED BY <2>1, RowsChange
<1>3. ASSUME NEW e \in Engine, Convert(e)
      PROVE  /\ Stored' = Stored /\ RowsInv' /\ converter[e] \in Stored
             /\ status'[converter[e]] = "converted"
             /\ \A j \in Invitation \ {converter[e]} : status'[j] = status[j]
  <2>1. converter[e] \in Stored /\ status' = [status EXCEPT ![converter[e]] = "converted"]
    BY <1>3 DEF Convert, HandsInv
  <2> QED BY <2>1, RowsChange
<1>4. ASSUME NEW e \in Engine, NEW o \in Order, CreateInvitation(e, o), invites
      PROVE  /\ Stored \subseteq Stored' /\ RowsInv'
             /\ \A j \in Invitation : \/ status'[j] = status[j]
                                      \/ status[j] = "none" /\ status'[j] = "pending"
  <2>1. PICK i \in Invitation \ Stored :
            /\ status' = [status EXCEPT ![i] = "pending"]
            /\ Stored' = Stored \union {i}
            /\ RowsInv'
    BY <1>4, RowIsNew
  <2>2. status[i] = "none"
    BY DEF Stored
  <2> QED BY <2>1, <2>2 DEF TypeOK
<1> QED BY <1>1, <1>2, <1>3, <1>4, RowsStep DEF RowsKept

(* What is in hand was found in the table.                                  *)
LEMMA HandsStep ==
  ASSUME TypeOK, RowsInv, HandsInv, [Next]_vars
  PROVE  HandsInv'
<1>1. Stored \subseteq Stored'
  BY RowsStay
<1>2. ASSUME NEW s \in Sender, sender'[s].pc # "idle"
      PROVE  sender'[s].i \in Stored
  <2>1. CASE Send
    <3>1. ASSUME NEW t \in Sender, NEW i \in Invitation, RunTask(t, i) \/ Resend(t, i)
          PROVE  sender'[s].i \in Stored
      <4>1. \/ sender' = sender
            \/ \E of : /\ sender' = [sender EXCEPT ![t] = [pc |-> "mail", i |-> i, of |-> of]]
                       /\ status[i] = "pending"
        BY <3>1 DEF RunTask, Resend, Execute
      <4> QED BY <1>2, <4>1 DEF HandsInv, TypeOK, Stored
    <3>2. ASSUME NEW t \in Sender,
                 \/ SendToCustomerFails(t) \/ MarkSent(t) \/ MarkSentFails(t)
          PROVE  sender'[s].i \in Stored
      <4>1. sender' = [sender EXCEPT ![t] = FreeSender]
        BY <3>2 DEF SendToCustomerFails, MarkSent, MarkSentFails, Succeed, Fail
      <4> QED BY <1>2, <4>1 DEF HandsInv, TypeOK, FreeSender
    <3>3. ASSUME NEW t \in Sender, SendToCustomer(t) \/ TimeOut(t)
          PROVE  sender'[s].i \in Stored
      <4>1. sender[t].pc # "idle" /\ sender'[s].i = sender[s].i
        BY <3>3 DEF SendToCustomer, TimeOut, TypeOK
      <4>2. s # t => sender'[s] = sender[s]
        BY <3>3 DEF SendToCustomer, TimeOut, TypeOK
      <4> QED BY <1>2, <4>1, <4>2 DEF HandsInv
    <3>4. ASSUME NEW i \in Invitation, RunTaskFails(i)
          PROVE  sender'[s].i \in Stored
      BY <1>2, <3>4 DEF RunTaskFails, HandsInv
    <3> QED BY <2>1, <3>1, <3>2, <3>3, <3>4 DEF Send
  <2>2. CASE ~Send
    <3>1. sender' = sender
      BY <2>2 DEF Next, Environment, Handle, HandleUnchecked, HandleFails, SyncReview,
                  UpdatePrefs, Invite, CreateInvitation, CreateInvitationFails,
                  TakeFulfilled, EnqueueAt, EnqueueAtFails, Attribute, FindInvitation,
                  FindInvitationFails, TakeReview, Convert, ConvertFails, sending, vars
    <3> QED BY <1>2, <3>1 DEF HandsInv
  <2> QED BY <2>1, <2>2
<1>3. ASSUME NEW e \in Engine, converter'[e] # None
      PROVE  converter'[e] \in Stored
  <2>1. CASE Attribute
    <3>1. ASSUME NEW f \in Engine, FindInvitation(f)
          PROVE  converter'[e] \in Stored
      BY <1>3, <3>1 DEF FindInvitation, HandsInv, TypeOK, Open, Stored
    <3>2. ASSUME NEW f \in Engine,
                 FindInvitationFails(f) \/ Convert(f) \/ ConvertFails(f)
          PROVE  converter'[e] \in Stored
      BY <1>3, <3>2 DEF FindInvitationFails, Convert, ConvertFails, HandsInv, TypeOK
    <3> QED BY <2>1, <3>1, <3>2 DEF Attribute
  <2>2. CASE ~Attribute
    <3>1. converter' = converter
      BY <2>2 DEF Next, Environment, Handle, HandleUnchecked, HandleFails, SyncReview,
                  UpdatePrefs, Invite, CreateInvitation, CreateInvitationFails,
                  TakeFulfilled, EnqueueAt, EnqueueAtFails, Send, RunTask, Resend,
                  Execute, RunTaskFails, SendToCustomer, SendToCustomerFails, MarkSent,
                  MarkSentFails, TimeOut, vars
    <3> QED BY <1>3, <3>1 DEF HandsInv
  <2> QED BY <2>1, <2>2
<1> QED BY <1>1, <1>2, <1>3 DEF HandsInv

-----------------------------------------------------------------------------
(* Messages.                                                                *)

LEMMA RunsCount ==
  ASSUME NEW S \in SUBSET Sender
  PROVE  /\ Cardinality(S) \in Nat /\ Cardinality(Sender) \in Nat
         /\ Cardinality(S) <= Cardinality(Sender)
         /\ \A s \in Sender : Cardinality(S \union {s}) =
               IF s \in S THEN Cardinality(S) ELSE Cardinality(S) + 1
         /\ \A s \in Sender : Cardinality(S \ {s}) =
               IF s \in S THEN Cardinality(S) - 1 ELSE Cardinality(S)
<1>1. IsFiniteSet(S) /\ Cardinality(S) <= Cardinality(Sender)
  BY SenderAssumption, FS_Subset
<1>2. Cardinality(S) \in Nat /\ Cardinality(Sender) \in Nat
  BY <1>1, SenderAssumption, FS_CardinalityType
<1> QED BY <1>1, <1>2, FS_AddElement, FS_RemoveElement

LEMMA AtCount ==
  ASSUME NEW i, NEW pc, NEW s \in Sender
  PROVE  /\ Cardinality(At(i, pc)) \in Nat /\ Cardinality(Sender) \in Nat
         /\ Cardinality(At(i, pc) \union {s}) =
               IF s \in At(i, pc) THEN Cardinality(At(i, pc))
                                 ELSE Cardinality(At(i, pc)) + 1
         /\ Cardinality(At(i, pc) \ {s}) =
               IF s \in At(i, pc) THEN Cardinality(At(i, pc)) - 1
                                 ELSE Cardinality(At(i, pc))
<1>1. At(i, pc) \in SUBSET Sender
  BY DEF At
<1> QED BY <1>1, RunsCount

(* A run is at one step of one invitation.                                  *)
LEMMA AtMoves ==
  ASSUME TypeOK, NEW s \in Sender, NEW place \in Places,
         sender' = [sender EXCEPT ![s] = place], NEW i
  PROVE  /\ At(i, "mail")' = IF place.i = i /\ place.pc = "mail"
                             THEN At(i, "mail") \union {s} ELSE At(i, "mail") \ {s}
         /\ At(i, "mark")' = IF place.i = i /\ place.pc = "mark"
                             THEN At(i, "mark") \union {s} ELSE At(i, "mark") \ {s}
<1>1. \A t \in Sender : sender'[t] = IF t = s THEN place ELSE sender[t]
  BY DEF TypeOK
<1> QED BY <1>1 DEF At

LEMMA AtLeaves ==
  ASSUME TypeOK, NEW s \in Sender, NEW place \in Places,
         sender' = [sender EXCEPT ![s] = place], NEW i, place.i # i
  PROVE  At(i, "mail")' = At(i, "mail") \ {s} /\ At(i, "mark")' = At(i, "mark") \ {s}
  BY AtMoves

(* What starts, ends or mails nothing changes no count.                     *)
LEMMA MailsQuiet ==
  ASSUME TypeOK, RowsInv, HandsInv, MailInv, [Next]_vars,
         UNCHANGED <<sender, mails>>, faults' \in {faults, faults + 1}
  PROVE  MailInv'
<1> SUFFICES ASSUME NEW i \in Invitation
             PROVE  Fits(i)'
  BY DEF MailInv
<1>1. At(i, "mark")' = At(i, "mark") /\ At(i, "mail")' = At(i, "mail")
  BY DEF At
<1>2. Cardinality(At(i, "mark")) \in Nat /\ Cardinality(At(i, "mail")) \in Nat
      /\ Cardinality(Sender) \in Nat
  BY RunsCount DEF At
<1>3. \/ status'[i] = status[i]
      \/ status'[i] \in {"sent", "converted"}
      \/ status[i] = "none" /\ status'[i] = "pending"
  BY RowsStay
<1>4. faults \in Nat /\ mails[i] \in Nat /\ Fits(i)
  BY BoundsAssumption DEF TypeOK, MailInv
<1> QED BY <1>1, <1>2, <1>3, <1>4 DEF Fits

(* A run begins with a pending row, whose messages are those of runs that   *)
(* have yet to mark it or have failed.                                      *)
LEMMA BeginFits ==
  ASSUME TypeOK, MailInv, NEW s \in Sender, NEW i \in Invitation,
         NEW of \in {"task", "resend"},
         Execute(s, i, of), sender' # sender
  PROVE  MailInv'
<1> DEFINE place == [pc |-> "mail", i |-> i, of |-> of]
<1>1. /\ status[i] = "pending" /\ sender[s].pc = "idle"
      /\ sender' = [sender EXCEPT ![s] = place]
      /\ UNCHANGED <<status, mails, faults>>
  BY DEF Execute, rows
<1>2. place \in Places
  BY DEF Places
<1> SUFFICES ASSUME NEW j \in Invitation
             PROVE  Fits(j)'
  BY DEF MailInv
<1>3. At(j, "mark")' = At(j, "mark") \ {s} /\ s \notin At(j, "mark")
      /\ s \notin At(j, "mail")
  <2>1. s \notin At(j, "mark") /\ s \notin At(j, "mail")
    BY <1>1 DEF At
  <2> QED BY <1>1, <1>2, <2>1, AtMoves
<1>4. Cardinality(At(j, "mark")') = Cardinality(At(j, "mark"))
  BY <1>3, RunsCount DEF At
<1>5. CASE j # i
  <2>1. Cardinality(At(j, "mail")') = Cardinality(At(j, "mail"))
    BY <1>1, <1>2, <1>3, <1>5, AtMoves, RunsCount DEF At
  <2> QED BY <1>1, <1>4, <2>1 DEF Fits, MailInv
<1>6. CASE j = i
  <2> DEFINE M == At(i, "mail") \union {s}
  <2>1. At(i, "mail")' = M
    BY <1>1, <1>2, AtMoves
  <2>2. IsFiniteSet(M) /\ IsFiniteSet(At(i, "mark")) /\ M \intersect At(i, "mark") = {}
    BY <1>3, <1>6, SenderAssumption, FS_Subset DEF At
  <2>3. Cardinality(M \union At(i, "mark"))
          = Cardinality(M) + Cardinality(At(i, "mark"))
    <3>1. Cardinality(M \union At(i, "mark")) = Cardinality(M)
            + Cardinality(At(i, "mark")) - Cardinality(M \intersect At(i, "mark"))
      BY <2>2, FS_Union
    <3>2. Cardinality(M \intersect At(i, "mark")) = 0
      BY <2>2, FS_EmptySet
    <3>3. Cardinality(M) \in Nat /\ Cardinality(At(i, "mark")) \in Nat
      BY <2>2, FS_CardinalityType
    <3> HIDE DEF M
    <3> QED BY <3>1, <3>2, <3>3
  <2>4. Cardinality(M \union At(i, "mark")) <= Cardinality(Sender)
    BY RunsCount DEF At
  <2>5. mails[i] <= Cardinality(At(i, "mark")) + faults
    BY <1>1 DEF Fits, MailInv
  <2>6. mails[i] \in Nat /\ faults \in Nat /\ Cardinality(M) \in Nat
        /\ Cardinality(At(i, "mark")) \in Nat /\ Cardinality(Sender) \in Nat
    BY BoundsAssumption, RunsCount DEF TypeOK, At
  <2> HIDE DEF M
  <2>7. mails[i] + Cardinality(M) <= Cardinality(Sender) + faults
    BY <2>3, <2>4, <2>5, <2>6
  <2> QED BY <1>1, <1>4, <1>6, <2>1, <2>5, <2>7 DEF Fits
<1> QED BY <1>5, <1>6

(* A message moves its run from "mail" to "mark".                           *)
LEMMA SendFits ==
  ASSUME TypeOK, HandsInv, MailInv, NEW s \in Sender, SendToCustomer(s)
  PROVE  MailInv'
<1> DEFINE place == [sender[s] EXCEPT !.pc = "mark"]
<1>1. /\ sender[s].pc = "mail"
      /\ sender' = [sender EXCEPT ![s] = place]
      /\ mails' = [mails EXCEPT ![sender[s].i] = @ + 1]
      /\ UNCHANGED <<status, faults>>
  BY DEF SendToCustomer, rows
<1>2. place \in Places /\ place.i = sender[s].i /\ place.pc = "mark"
  BY DEF Places, TypeOK
<1> HIDE DEF place
<1>3. sender[s].i \in Invitation /\ status[sender[s].i] # "none"
  BY <1>1 DEF HandsInv, Stored
<1> SUFFICES ASSUME NEW j \in Invitation
             PROVE  Fits(j)'
  BY DEF MailInv
<1>4. mails[j] \in Nat /\ faults \in Nat /\ Fits(j)
  BY BoundsAssumption DEF TypeOK, MailInv
<1>5. At(j, "mail")' = At(j, "mail") \ {s} /\ s \notin At(j, "mark")
  <2>1. At(j, "mail")' = At(j, "mail") \ {s}
    BY <1>1, <1>2, AtMoves
  <2> QED BY <1>1, <2>1 DEF At
<1>6. CASE j = sender[s].i
  <2>1. s \in At(j, "mail") /\ At(j, "mark")' = At(j, "mark") \union {s}
    <3>1. s \in At(j, "mail")
      BY <1>1, <1>6 DEF At
    <3>2. At(j, "mark")' = At(j, "mark") \union {s}
      BY <1>1, <1>2, <1>6, AtMoves
    <3> QED BY <3>1, <3>2
  <2>2. /\ Cardinality(At(j, "mail")') = Cardinality(At(j, "mail")) - 1
        /\ Cardinality(At(j, "mark")') = Cardinality(At(j, "mark")) + 1
        /\ Cardinality(At(j, "mail")) \in Nat /\ Cardinality(At(j, "mark")) \in Nat
        /\ Cardinality(Sender) \in Nat
    BY <1>5, <2>1, AtCount
  <2>3. mails'[j] = mails[j] + 1
    BY <1>1, <1>6 DEF TypeOK
  <2> QED BY <1>1, <1>3, <1>4, <1>6, <2>2, <2>3 DEF Fits
<1>7. CASE j # sender[s].i
  <2>1. s \notin At(j, "mail") /\ At(j, "mark")' = At(j, "mark") \ {s}
    <3>1. s \notin At(j, "mail")
      BY <1>7 DEF At
    <3>2. place.i # j
      BY <1>2, <1>7
    <3>3. At(j, "mark")' = At(j, "mark") \ {s}
      BY <1>1, <1>2, <3>2, AtLeaves
    <3> QED BY <3>1, <3>3
  <2>2. /\ Cardinality(At(j, "mail")') = Cardinality(At(j, "mail"))
        /\ Cardinality(At(j, "mark")') = Cardinality(At(j, "mark"))
    BY <1>5, <2>1, AtCount
  <2>3. mails'[j] = mails[j]
    BY <1>1, <1>7 DEF TypeOK
  <2> QED BY <1>1, <1>4, <2>2, <2>3 DEF Fits
<1> QED BY <1>6, <1>7

(* A run that fails is paid for by its fault, one that marks ends the       *)
(* pending row.                                                             *)
LEMMA EndFits ==
  ASSUME TypeOK, HandsInv, MailInv, NEW s \in Sender,
         SendToCustomerFails(s) \/ MarkSent(s) \/ MarkSentFails(s)
  PROVE  MailInv'
<1>1. sender[s].pc # "idle" /\ sender' = [sender EXCEPT ![s] = FreeSender]
  BY DEF SendToCustomerFails, MarkSent, MarkSentFails, Succeed, Fail
<1>2. FreeSender \in Places /\ FreeSender.pc = "idle"
  BY DEF FreeSender, Places
<1>3. sender[s].i \in Invitation /\ status[sender[s].i] # "none"
  BY <1>1 DEF HandsInv, Stored
<1> SUFFICES ASSUME NEW j \in Invitation
             PROVE  Fits(j)'
  BY DEF MailInv
<1>4. mails[j] \in Nat /\ faults \in Nat /\ Fits(j)
  BY BoundsAssumption DEF TypeOK, MailInv
<1>5. At(j, "mail")' = At(j, "mail") \ {s} /\ At(j, "mark")' = At(j, "mark") \ {s}
  <2>1. At(j, "mail")' = At(j, "mail") \ {s}
    BY <1>1, <1>2, AtMoves
  <2>2. At(j, "mark")' = At(j, "mark") \ {s}
    BY <1>1, <1>2, AtMoves
  <2> QED BY <2>1, <2>2
<1>6. /\ Cardinality(At(j, "mail")') = IF s \in At(j, "mail")
             THEN Cardinality(At(j, "mail")) - 1 ELSE Cardinality(At(j, "mail"))
      /\ Cardinality(At(j, "mark")') = IF s \in At(j, "mark")
             THEN Cardinality(At(j, "mark")) - 1 ELSE Cardinality(At(j, "mark"))
      /\ Cardinality(At(j, "mail")) \in Nat /\ Cardinality(At(j, "mark")) \in Nat
      /\ Cardinality(Sender) \in Nat
  BY <1>5, AtCount
<1>7. CASE SendToCustomerFails(s)
  <2>1. sender[s].pc = "mail" /\ status' = status /\ faults' = faults + 1
    BY <1>7 DEF SendToCustomerFails, Fail, Fault, rows
  <2>2. \/ mails'[j] = mails[j]
        \/ j = sender[s].i /\ mails'[j] = mails[j] + 1
    BY <1>3, <1>7 DEF SendToCustomerFails, TypeOK
  <2>3. s \notin At(j, "mark") /\ (j = sender[s].i => s \in At(j, "mail"))
    BY <2>1 DEF At
  <2> QED BY <1>3, <1>4, <1>6, <2>1, <2>2, <2>3 DEF Fits
<1>8. CASE MarkSent(s)
  <2>1. /\ sender[s].pc = "mark" /\ UNCHANGED <<mails, faults>>
        /\ status' = [status EXCEPT ![sender[s].i] = "sent"]
    BY <1>8 DEF MarkSent
  <2>2. CASE j = sender[s].i
    <3>1. status'[j] = "sent" /\ s \notin At(j, "mail")
      BY <2>1, <2>2 DEF TypeOK, At
    <3> QED BY <1>4, <1>6, <2>1, <3>1 DEF Fits
  <2>3. CASE j # sender[s].i
    <3>1. status'[j] = status[j] /\ s \notin At(j, "mail") /\ s \notin At(j, "mark")
      BY <2>1, <2>3 DEF TypeOK, At
    <3> QED BY <1>4, <1>6, <2>1, <3>1 DEF Fits
  <2> QED BY <2>2, <2>3
<1>9. CASE MarkSentFails(s)
  <2>1. sender[s].pc = "mark" /\ UNCHANGED <<mails, status>> /\ faults' = faults + 1
    BY <1>9 DEF MarkSentFails, Fail, Fault, rows
  <2>2. s \notin At(j, "mail")
    BY <2>1 DEF At
  <2> QED BY <1>4, <1>6, <2>1, <2>2 DEF Fits
<1> QED BY <1>7, <1>8, <1>9

(* A run that has timed out stays where it is.                              *)
LEMMA TimeOutFits ==
  ASSUME TypeOK, MailInv, NEW s \in Sender, TimeOut(s)
  PROVE  MailInv'
<1>1. /\ sender' = [sender EXCEPT ![s].of = "late"]
      /\ UNCHANGED <<mails, status>> /\ faults' = faults + 1
  BY DEF TimeOut, Fault, rows
<1> SUFFICES ASSUME NEW j \in Invitation
             PROVE  Fits(j)'
  BY DEF MailInv
<1>2. \A t \in Sender : sender'[t].i = sender[t].i /\ sender'[t].pc = sender[t].pc
  BY <1>1 DEF TypeOK
<1>3. At(j, "mail")' = At(j, "mail") /\ At(j, "mark")' = At(j, "mark")
  BY <1>2 DEF At
<1>4. Cardinality(At(j, "mail")) \in Nat /\ Cardinality(At(j, "mark")) \in Nat
      /\ Cardinality(Sender) \in Nat
  BY RunsCount DEF At
<1>5. mails[j] \in Nat /\ faults \in Nat /\ Fits(j)
  BY BoundsAssumption DEF TypeOK, MailInv
<1> QED BY <1>1, <1>3, <1>4, <1>5 DEF Fits

LEMMA MailsStep ==
  ASSUME TypeOK, RowsInv, HandsInv, MailInv, [Next]_vars
  PROVE  MailInv'
<1>1. CASE UNCHANGED <<sender, mails>> /\ faults' \in {faults, faults + 1}
  BY <1>1, MailsQuiet
<1>2. CASE Send /\ ~(UNCHANGED <<sender, mails>> /\ faults' \in {faults, faults + 1})
  <2>1. ASSUME NEW s \in Sender, NEW i \in Invitation, RunTask(s, i) \/ Resend(s, i)
        PROVE  MailInv'
    <3>1. Execute(s, i, "task") \/ Execute(s, i, "resend")
      BY <2>1 DEF RunTask, Resend
    <3>2. UNCHANGED <<mails, faults>>
      BY <3>1 DEF Execute
    <3> QED BY <1>2, <3>1, <3>2, BeginFits
  <2>2. ASSUME NEW i \in Invitation, RunTaskFails(i)
        PROVE  MailInv'
    BY <1>2, <2>2 DEF RunTaskFails, Fault
  <2> QED BY <1>2, <2>1, <2>2, SendFits, EndFits, TimeOutFits DEF Send
<1>3. CASE ~Send
  <2>1. UNCHANGED <<sender, mails>> /\ faults' \in {faults, faults + 1}
    BY <1>3 DEF Next, Environment, Handle, HandleUnchecked, HandleFails, SyncReview,
                UpdatePrefs, Invite, CreateInvitation, CreateInvitationFails,
                TakeFulfilled, EnqueueAt, EnqueueAtFails, Attribute, FindInvitation,
                FindInvitationFails, TakeReview, Convert, ConvertFails, Fault,
                sending, vars
  <2> QED BY <2>1, MailsQuiet
<1> QED BY <1>1, <1>2, <1>3

-----------------------------------------------------------------------------
(* Conversions.                                                             *)

(* Whoever still has the converted row in hand is a run that read it while  *)
(* it was pending, and no run begins with it.                               *)
LEMMA ConversionStep ==
  ASSUME TypeOK, RowsInv, HandsInv, [Next]_vars
  PROVE  ConvertedStays
<1> SUFFICES ASSUME NEW i \in Invitation, status[i] = "converted", ~Sending(i)
             PROVE  status'[i] = "converted" /\ ~Sending(i)'
  BY DEF ConvertedStays
<1>1. ASSUME NEW s \in Sender, NEW j \in Invitation, RunTask(s, j) \/ Resend(s, j)
      PROVE  status'[i] = "converted" /\ ~Sending(i)'
  <2>1. /\ status' = status
        /\ \/ sender' = sender
           \/ \E of : /\ sender' = [sender EXCEPT ![s] = [pc |-> "mail", i |-> j, of |-> of]]
                      /\ status[j] = "pending"
    BY <1>1 DEF RunTask, Resend, Execute, rows
  <2> QED BY <2>1 DEF Sending, TypeOK
<1>2. ASSUME NEW s \in Sender,
             \/ SendToCustomer(s) \/ SendToCustomerFails(s)
             \/ MarkSent(s) \/ MarkSentFails(s) \/ TimeOut(s)
      PROVE  status'[i] = "converted" /\ ~Sending(i)'
  <2>1. sender[s].pc # "idle"
    BY <1>2 DEF SendToCustomer, SendToCustomerFails, MarkSent, MarkSentFails, TimeOut
  <2>2. sender[s].i # i
    BY <2>1 DEF Sending
  <2>3. status'[i] = status[i]
    BY <1>2, <2>2 DEF SendToCustomer, SendToCustomerFails, MarkSent, MarkSentFails,
                      TimeOut, rows, TypeOK
  <2>4. \A t \in Sender : t # s => sender'[t] = sender[t]
    BY <1>2 DEF SendToCustomer, SendToCustomerFails, MarkSent, MarkSentFails,
                TimeOut, Succeed, Fail, TypeOK
  <2>5. sender'[s].pc # "idle" => sender'[s].i # i
    <3>1. CASE SendToCustomer(s) \/ TimeOut(s)
      BY <2>2, <3>1 DEF SendToCustomer, TimeOut, TypeOK
    <3>2. CASE SendToCustomerFails(s) \/ MarkSent(s) \/ MarkSentFails(s)
      BY <3>2 DEF SendToCustomerFails, MarkSent, MarkSentFails, Succeed, Fail,
                  FreeSender, TypeOK
    <3> QED BY <1>2, <3>1, <3>2
  <2> QED BY <2>3, <2>4, <2>5 DEF Sending
<1>3. ASSUME NEW j \in Invitation, RunTaskFails(j)
      PROVE  status'[i] = "converted" /\ ~Sending(i)'
  <2>1. status'[i] = status[i] /\ sender' = sender
    BY <1>3 DEF RunTaskFails, rows
  <2>2. ~Sending(i)'
    BY <2>1 DEF Sending
  <2> QED BY <2>1, <2>2
<1>4. CASE ~Send
  <2>1. sender' = sender
    BY <1>4 DEF Next, Environment, Handle, HandleUnchecked, HandleFails, SyncReview,
                UpdatePrefs, Invite, CreateInvitation, CreateInvitationFails,
                TakeFulfilled, EnqueueAt, EnqueueAtFails, Attribute, FindInvitation,
                FindInvitationFails, TakeReview, Convert, ConvertFails, sending, vars
  <2>2. ~Sending(i)'
    BY <2>1 DEF Sending
  <2>3. CASE UNCHANGED rows
    BY <2>2, <2>3 DEF rows
  <2>4. ASSUME NEW e \in Engine, Convert(e)
        PROVE  status'[i] = "converted"
    BY <2>4 DEF Convert, TypeOK
  <2>5. ASSUME NEW e \in Engine, NEW o \in Order, CreateInvitation(e, o), invites
        PROVE  status'[i] = "converted"
    <3>1. i \in Stored
      BY DEF Stored
    <3> QED BY <2>5, <3>1, RowIsNew DEF TypeOK
  <2>6. ~\E s \in Sender : MarkSent(s)
    BY <1>4 DEF Send
  <2> QED BY <2>2, <2>3, <2>4, <2>5, <2>6, RowsStep DEF RowsKept
<1> QED BY <1>1, <1>2, <1>3, <1>4 DEF Send

-----------------------------------------------------------------------------
(* Invitations.                                                             *)

LEMMA OfCount ==
  ASSUME RowsInv, NEW o
  PROVE  IsFiniteSet(Of(o)) /\ Cardinality(Of(o)) \in Nat
<1>1. PICK n \in 0 .. MaxInvitations : Stored = 1 .. n
  BY DEF RowsInv
<1>2. IsFiniteSet(Stored)
  BY <1>1, FS_Interval, BoundsAssumption
<1> QED BY <1>2, FS_Subset, FS_CardinalityType DEF Of

LEMMA KnownCount ==
  ASSUME IsFiniteSet(seen), NEW o
  PROVE  IsFiniteSet(Known(o)) /\ Cardinality(Known(o)) \in Nat
  BY FS_Subset, FS_CardinalityType DEF Known

(* What changes neither the rows nor the events is no more than a fault.    *)
LEMMA InvitesQuiet ==
  ASSUME TypeOK, RowsInv, InviteInv, UNCHANGED <<Stored, order, fulfilled, seen>>,
         faults' \in {faults, faults + 1}
  PROVE  InviteInv'
<1>1. seen' = seen /\ fulfilled' = fulfilled
  OBVIOUS
<1>2. ASSUME NEW o \in Order
      PROVE  (Cardinality(Of(o)) + fulfilled[o] <= Cardinality(Known(o)) + faults)'
  <2>1. Of(o)' = Of(o) /\ Known(o)' = Known(o)
    BY DEF Of, Known
  <2>2. /\ Cardinality(Of(o)) \in Nat /\ Cardinality(Known(o)) \in Nat
        /\ fulfilled[o] \in Nat /\ faults \in Nat
        /\ Cardinality(Of(o)) + fulfilled[o] <= Cardinality(Known(o)) + faults
    BY OfCount, KnownCount, BoundsAssumption DEF InviteInv, TypeOK
  <2> QED BY <1>1, <2>1, <2>2
<1> QED BY <1>1, <1>2 DEF InviteInv

(* A webhook that is handled is new, or its SETNX has failed.               *)
LEMMA WebhookPays ==
  ASSUME TypeOK, RowsInv, InviteInv, NEW d \in Webhook,
         Handle(d) \/ HandleUnchecked(d) \/ HandleFails(d)
  PROVE  InviteInv'
<1>1. OrderOf[d] \in Order
  BY WebhookAssumption
<1>2. UNCHANGED <<status, order>>
  BY DEF Handle, HandleUnchecked, HandleFails, rows
<1>3. /\ seen' \in {seen, seen \union {d}}
      /\ faults' \in {faults, faults + 1}
      /\ \/ fulfilled' = fulfilled
         \/ /\ fulfilled' = [fulfilled EXCEPT ![OrderOf[d]] = @ + 1]
            /\ (d \notin seen /\ seen' = seen \union {d}) \/ faults' = faults + 1
  BY DEF Handle, HandleUnchecked, HandleFails, Publish, Fault, bus
<1>4. IsFiniteSet(seen')
  BY <1>3, FS_AddElement DEF InviteInv
<1>5. ASSUME NEW o \in Order
      PROVE  (Cardinality(Of(o)) + fulfilled[o] <= Cardinality(Known(o)) + faults)'
  <2>1. Of(o)' = Of(o)
    BY <1>2 DEF Of, Stored
  <2>2. /\ Cardinality(Of(o)) \in Nat /\ Cardinality(Known(o)) \in Nat
        /\ fulfilled[o] \in Nat /\ faults \in Nat
        /\ Cardinality(Of(o)) + fulfilled[o] <= Cardinality(Known(o)) + faults
    BY OfCount, KnownCount, BoundsAssumption DEF InviteInv, TypeOK
  <2>3. Known(o)' = IF seen' = seen \/ o # OrderOf[d] THEN Known(o)
                                                     ELSE Known(o) \union {d}
    BY <1>3 DEF Known
  <2>4. /\ Cardinality(Known(o)') \in Nat
        /\ Cardinality(Known(o)') >= Cardinality(Known(o))
        /\ d \notin seen /\ seen' # seen /\ o = OrderOf[d] =>
              Cardinality(Known(o)') = Cardinality(Known(o)) + 1
    <3>1. IsFiniteSet(Known(o)) /\ (d \notin seen => d \notin Known(o))
      BY KnownCount DEF InviteInv, Known
    <3>2. Cardinality(Known(o) \union {d}) =
            IF d \in Known(o) THEN Cardinality(Known(o)) ELSE Cardinality(Known(o)) + 1
      BY <3>1, FS_AddElement
    <3>3. CASE seen' = seen \/ o # OrderOf[d]
      BY <2>2, <2>3, <3>3
    <3>4. CASE ~(seen' = seen \/ o # OrderOf[d])
      BY <2>2, <2>3, <3>1, <3>2, <3>4
    <3> QED BY <3>3, <3>4
  <2>5. fulfilled'[o] = fulfilled[o] \/
            /\ o = OrderOf[d] /\ fulfilled'[o] = fulfilled[o] + 1
            /\ (d \notin seen /\ seen' = seen \union {d}) \/ faults' = faults + 1
    BY <1>3 DEF TypeOK
  <2> QED BY <1>3, <2>1, <2>2, <2>4, <2>5
<1> QED BY <1>4, <1>5 DEF InviteInv

(* A row is stored for an event that is taken.                              *)
LEMMA CreatePays ==
  ASSUME TypeOK, RowsInv, InviteInv, NEW e \in Engine, NEW o \in Order,
         CreateInvitation(e, o) \/ CreateInvitationFails(e, o)
  PROVE  InviteInv'
<1>1. /\ fulfilled' = [fulfilled EXCEPT ![o] = @ - 1] /\ fulfilled[o] > 0
      /\ seen' = seen /\ faults' \in {faults, faults + 1}
  BY DEF CreateInvitation, CreateInvitationFails, TakeFulfilled, Fault, webhooks
<1>2. ASSUME NEW p \in Order
      PROVE  (Cardinality(Of(p)) + fulfilled[p] <= Cardinality(Known(p)) + faults)'
  <2>1. Known(p)' = Known(p)
    BY <1>1 DEF Known
  <2>2. /\ Cardinality(Of(p)) \in Nat /\ Cardinality(Known(p)) \in Nat
        /\ fulfilled[p] \in Nat /\ faults \in Nat
        /\ Cardinality(Of(p)) + fulfilled[p] <= Cardinality(Known(p)) + faults
    BY OfCount, KnownCount, BoundsAssumption DEF InviteInv, TypeOK
  <2>3. /\ Cardinality(Of(p)') \in Nat
        /\ Cardinality(Of(p)') <= IF p = o THEN Cardinality(Of(p)) + 1
                                           ELSE Cardinality(Of(p))
    <3>1. CASE UNCHANGED rows
      <4>1. Of(p)' = Of(p)
        BY <3>1 DEF rows, Of, Stored
      <4> QED BY <2>2, <4>1
    <3>2. CASE ~UNCHANGED rows
      <4>1. CreateInvitation(e, o) /\ invites
        BY <3>2 DEF CreateInvitation, CreateInvitationFails
      <4>2. PICK i \in Invitation \ Stored :
                order' = [order EXCEPT ![i] = o] /\ Stored' = Stored \union {i}
        BY <4>1, RowIsNew
      <4>3. Of(p)' = IF p = o THEN Of(p) \union {i} ELSE Of(p)
        BY <4>2 DEF Of, Stored, TypeOK
      <4>4. i \notin Of(p) /\ IsFiniteSet(Of(p))
        BY OfCount DEF Of
      <4>5. /\ Cardinality(Of(p) \union {i}) \in Nat
            /\ Cardinality(Of(p) \union {i}) = Cardinality(Of(p)) + 1
        <5>1. Cardinality(Of(p) \union {i}) = Cardinality(Of(p)) + 1
          BY <4>4, FS_AddElement
        <5> QED BY <2>2, <5>1
      <4> QED BY <2>2, <4>3, <4>5
    <3> QED BY <3>1, <3>2
  <2>4. fulfilled'[p] = IF p = o THEN fulfilled[p] - 1 ELSE fulfilled[p]
    BY <1>1 DEF TypeOK
  <2> QED BY <1>1, <2>1, <2>2, <2>3, <2>4
<1> QED BY <1>1, <1>2 DEF InviteInv

LEMMA InvitesStep ==
  ASSUME TypeOK, RowsInv, HandsInv, InviteInv, [Next]_vars
  PROVE  InviteInv'
<1>1. CASE \E d \in Webhook : Handle(d) \/ HandleUnchecked(d) \/ HandleFails(d)
  BY <1>1, WebhookPays
<1>2. CASE \E e \in Engine, o \in Order :
             CreateInvitation(e, o) \/ CreateInvitationFails(e, o)
  BY <1>2, CreatePays
<1>3. CASE \/ SyncReview \/ \E wish \in BOOLEAN : UpdatePrefs(wish)
           \/ \E e \in Engine : EnqueueAt(e) \/ EnqueueAtFails(e)
           \/ Send \/ Attribute \/ UNCHANGED vars
  <2>1. UNCHANGED <<order, fulfilled, seen>> /\ faults' \in {faults, faults + 1}
    BY <1>3 DEF SyncReview, UpdatePrefs, EnqueueAt, EnqueueAtFails, Send, RunTask,
                Resend, Execute, RunTaskFails, SendToCustomer, SendToCustomerFails,
                MarkSent, MarkSentFails, TimeOut, Fail, Attribute, FindInvitation,
                FindInvitationFails, TakeReview, Convert, ConvertFails, Fault,
                webhooks, rows, bus, vars
  <2>2. Stored' = Stored
    <3>1. CASE UNCHANGED rows
      BY <3>1 DEF rows, Stored
    <3>2. ASSUME NEW s \in Sender, MarkSent(s)
          PROVE  Stored' = Stored
      <4>1. sender[s].i \in Stored /\ status' = [status EXCEPT ![sender[s].i] = "sent"]
        BY <3>2 DEF MarkSent, HandsInv
      <4> QED BY <4>1, RowsChange
    <3>3. ASSUME NEW e \in Engine, Convert(e)
          PROVE  Stored' = Stored
      <4>1. /\ converter[e] \in Stored
            /\ status' = [status EXCEPT ![converter[e]] = "converted"]
        BY <3>3 DEF Convert, HandsInv
      <4> QED BY <4>1, RowsChange
    <3>4. ASSUME NEW e \in Engine, NEW o \in Order, CreateInvitation(e, o)
          PROVE  Stored' = Stored
      <4>1. fulfilled' # fulfilled
        BY <3>4 DEF CreateInvitation, TakeFulfilled, TypeOK
      <4> QED BY <2>1, <4>1
    <3> QED BY <3>1, <3>2, <3>3, <3>4, RowsStep DEF RowsKept
  <2> QED BY <2>1, <2>2, InvitesQuiet
<1> QED BY <1>1, <1>2, <1>3 DEF Next, Environment, Invite

-----------------------------------------------------------------------------

LEMMA Starts ==
  ASSUME Init
  PROVE  IInv
<1>1. TypeOK /\ reviews <= written
  BY BoundsAssumption DEF Init, TypeOK, FreeSender
<1>2. Stored = {}
  BY DEF Init, Stored
<1>3. RowsInv
  <2>1. Stored = 1 .. 0 /\ 0 \in 0 .. MaxInvitations
    BY <1>2, BoundsAssumption
  <2> QED BY <2>1 DEF RowsInv
<1>4. HandsInv
  BY DEF Init, HandsInv, FreeSender
<1>5. MailInv
  <2> SUFFICES ASSUME NEW i \in Invitation
               PROVE  Fits(i)
    BY DEF MailInv
  <2>1. At(i, "mail") = {}
    BY DEF Init, At, FreeSender
  <2>2. Cardinality(At(i, "mail")) = 0 /\ Cardinality(Sender) \in Nat
    BY <2>1, FS_EmptySet, FS_CardinalityType, SenderAssumption
  <2> QED BY <2>2 DEF Init, Fits
<1>6. InviteInv
  <2>1. ASSUME NEW o \in Order
        PROVE  Cardinality(Of(o)) + fulfilled[o] <= Cardinality(Known(o)) + faults
    <3>1. Of(o) = {} /\ Known(o) = {}
      BY <1>2 DEF Init, Of, Known
    <3> QED BY <3>1, FS_EmptySet DEF Init
  <2> QED BY <2>1, FS_EmptySet DEF Init, InviteInv
<1> QED BY <1>1, <1>3, <1>4, <1>5, <1>6 DEF IInv

LEMMA Preserves ==
  ASSUME IInv, [Next]_vars
  PROVE  IInv' /\ ConvertedStays
  BY TypeStep, RowsStay, HandsStep, MailsStep, InvitesStep, ConversionStep DEF IInv

(* Webhooks, rows, runs and counts keep their types, whatever is delivered  *)
(* twice, times out or fails (review_inviter.go, webhook.go).               *)
THEOREM TypeCorrect == Spec => []TypeOK
<1>1. Init => IInv
  BY Starts
<1>2. IInv /\ [Next]_vars => IInv'
  BY Preserves
<1>3. IInv => TypeOK
  BY DEF IInv
<1> QED BY <1>1, <1>2, <1>3, PTL DEF Spec

LEMMA Implies ==
  ASSUME IInv
  PROVE  TypeOK /\ InvitationsBounded /\ MailsBounded
<1>1. InvitationsBounded
  BY DEF IInv, InviteInv, InvitationsBounded, Of, Known
<1>2. ASSUME NEW i \in Invitation
      PROVE  mails[i] <= Cardinality(Sender) + faults
  <2>1. At(i, "mail") \in SUBSET Sender
    BY DEF At
  <2>2. /\ Cardinality(At(i, "mail")) \in Nat /\ Cardinality(Sender) \in Nat
        /\ mails[i] \in Nat /\ faults \in Nat
    BY <2>1, RunsCount, BoundsAssumption DEF IInv, TypeOK
  <2>3. mails[i] + Cardinality(At(i, "mail")) <= Cardinality(Sender) + faults
    BY DEF IInv, MailInv, Fits
  <2> QED BY <2>2, <2>3
<1> QED BY <1>1, <1>2 DEF IInv, MailsBounded

(* Redelivered webhooks, overlapping runs and resends invite an order no    *)
(* more often than its webhooks and the faults account for, mail it no more *)
(* often than runs overlap or fail, and undo no conversion (ExecuteTask and *)
(* HandleEvent of review_inviter.go, review_invitation_attributor.go).      *)
THEOREM InvitationsAreSafe == Spec => InvitationsSafe
<1>1. Init => IInv
  BY Starts
<1>2. IInv /\ [Next]_vars => IInv' /\ ConvertedStays
  BY Preserves
<1>3. IInv => TypeOK /\ InvitationsBounded /\ MailsBounded
  BY Implies
<1>4. IInv' => (TypeOK /\ InvitationsBounded /\ MailsBounded)'
  BY <1>3, PTL
<1> QED BY <1>1, <1>2, <1>4, PTL DEF Spec, InvitationsSafe
=============================================================================
