------------------------- MODULE CartRecoveryProofs -------------------------
(***************************************************************************)
(* Marketing: the recovery of abandoned carts is safe for any number of    *)
(* workers, campaigns, checkouts, orders and faults, and the flows of a    *)
(* shop for any number of executions.                                      *)
(***************************************************************************)
EXTENDS CartRecovery, MarketingFlow, FiniteSetTheorems, TLAPS

(* A worker that has a checkout in hand has a campaign and a checkout, and  *)
(* the code it is about to mail is saved.                                   *)
Working == {"code", "email", "record", "mark"}

ScanInv ==
    \A w \in Worker :
       /\ scan[w].pc \in Working \union {"list"} => scan[w].k \in Campaign
       /\ scan[w].pc \in Working => scan[w].c \in Checkout
       /\ scan[w].pc = "email" /\ scan[w].n # 0 =>
             scan[w].n <= codes[scan[w].c][scan[w].k]

(* The workers that may still mail checkout c for campaign k, and those     *)
(* that have mailed it and not written their send row.                      *)
At(c, k, steps) ==
    {w \in Worker : scan[w].c = c /\ scan[w].k = k /\ scan[w].pc \in steps}
Mailing(c, k) == At(c, k, {"code", "email"})
Recording(c, k) == At(c, k, {"record"})

Fits(c, k) ==
    /\ rows[c][k] = {} =>
          emails[c][k] <= Cardinality(Recording(c, k)) + faults
    /\ emails[c][k] + Cardinality(Mailing(c, k))
          <= Cardinality(Worker) + faults

EmailInv == \A c \in Checkout, k \in Campaign : Fits(c, k)

(* A used code belongs to the order that has it in hand or was credited.    *)
Owns(o, code) == \/ order[o].pc = "used" /\ order[o].code = code
                 \/ <<o, code>> \in credited

OrderInv ==
    /\ \A o \in Order : order[o].pc = "used" => order[o].code \in Code
    /\ \A o \in Order, code \in Code : Owns(o, code) => code \in used
    /\ \A o, p \in Order, code \in Code :
          Owns(o, code) /\ Owns(p, code) => o = p

IInv == CartTypeOK /\ ScanInv /\ EmailInv /\ OrderInv
           /\ MailedCodesAreSaved /\ RecoveredByCode

-----------------------------------------------------------------------------
(* How a worker moves.                                                      *)

(* Replacing the scan of one worker touches no other one.                   *)
LEMMA ScanReplaces ==
  ASSUME CartTypeOK, NEW w \in Worker, NEW d \in Scans,
         scan' = [scan EXCEPT ![w] = d]
  PROVE  /\ scan' \in [Worker -> Scans]
         /\ scan'[w] = d
         /\ \A v \in Worker : v # w => scan'[v] = scan[v]
  BY DEF CartTypeOK

(* A worker that only goes on to another step keeps what it has in hand.    *)
LEMMA StepReplaces ==
  ASSUME CartTypeOK, NEW w \in Worker, NEW where \in Step,
         scan' = [scan EXCEPT ![w].pc = where]
  PROVE  /\ scan' \in [Worker -> Scans]
         /\ scan'[w].pc = where /\ scan'[w].k = scan[w].k
         /\ scan'[w].c = scan[w].c /\ scan'[w].n = scan[w].n
         /\ \A v \in Worker : v # w => scan'[v] = scan[v]
  BY DEF CartTypeOK, Scans

(* Between checkouts a worker moves without anything in hand.               *)
LEMMA RoamMoves ==
  ASSUME CartTypeOK, ScanInv, NEW w \in Worker,
         \/ StartScan(w) \/ QueryCheckouts(w) \/ EndScan(w) \/ EndList(w)
         \/ SkipCheckout(w)
  PROVE  /\ scan' \in [Worker -> Scans]
         /\ scan[w].pc \notin Working /\ scan'[w].pc \notin Working
         /\ scan'[w].pc = "list" => scan'[w].k \in Campaign
         /\ \A v \in Worker : v # w => scan'[v] = scan[v]
         /\ UNCHANGED <<active, tables, order, history>>
<1>0. scan[w] \in Scans
  BY DEF CartTypeOK
<1>1. CASE StartScan(w)
  <2> DEFINE d == [Idle EXCEPT !.pc = "scan", !.campaigns = active]
  <2>1. d \in Scans /\ d.pc = "scan"
    BY DEF Idle, Scans, Step, CartTypeOK
  <2>2. scan' = [scan EXCEPT ![w] = d]
    BY <1>1 DEF StartScan
  <2> HIDE DEF d
  <2> QED BY <1>1, <2>1, <2>2, ScanReplaces DEF StartScan, Working
<1>2. CASE QueryCheckouts(w)
  <2> DEFINE d(k) == [scan[w] EXCEPT !.pc = "list", !.k = k,
                        !.list = Eligible(k),
                        !.campaigns = scan[w].campaigns \ {k}]
  <2>1. PICK k \in Campaign : scan' = [scan EXCEPT ![w] = d(k)]
    BY <1>0, <1>2 DEF QueryCheckouts, Scans
  <2>2. Eligible(k) \in SUBSET Checkout
    BY DEF Eligible, DueFor
  <2>3. d(k) \in Scans /\ d(k).pc = "list" /\ d(k).k = k
    BY <1>0, <2>2 DEF Scans, Step
  <2> HIDE DEF d
  <2> QED BY <1>2, <2>1, <2>3, ScanReplaces DEF QueryCheckouts, Working
<1>3. CASE EndScan(w)
  <2>1. Idle \in Scans /\ Idle.pc = "idle"
    BY DEF Idle, Scans, Step
  <2>2. scan' = [scan EXCEPT ![w] = Idle] /\ scan[w].pc = "scan"
    BY <1>3 DEF EndScan
  <2> QED BY <1>3, <2>1, <2>2, ScanReplaces DEF EndScan, Working
<1>4. CASE EndList(w)
  BY <1>4, StepReplaces DEF EndList, Working, Step
<1>5. CASE SkipCheckout(w)
  <2> DEFINE d(c) == [scan[w] EXCEPT !.list = scan[w].list \ {c}]
  <2>1. PICK c \in scan[w].list : scan' = [scan EXCEPT ![w] = d(c)]
    BY <1>0, <1>5 DEF SkipCheckout, CartTypeOK, Scans
  <2>2. d(c) \in Scans /\ d(c).pc = "list" /\ d(c).k = scan[w].k
    BY <1>0, <1>5 DEF Scans, SkipCheckout
  <2>3. scan[w].k \in Campaign /\ scan[w].pc = "list"
    BY <1>5 DEF ScanInv, SkipCheckout
  <2> HIDE DEF d
  <2> QED BY <1>5, <2>1, <2>2, <2>3, ScanReplaces DEF SkipCheckout, Working
<1> QED BY <1>1, <1>2, <1>3, <1>4, <1>5

(* A worker takes a checkout that has no send row.                          *)
LEMMA TakeMoves ==
  ASSUME CartTypeOK, ScanInv, NEW w \in Worker, TakeCheckout(w)
  PROVE  /\ scan' \in [Worker -> Scans]
         /\ scan[w].pc = "list" /\ scan'[w].pc \in {"code", "email"}
         /\ scan'[w].k \in Campaign /\ scan'[w].c \in Checkout
         /\ scan'[w].n = 0 /\ rows[scan'[w].c][scan'[w].k] = {}
         /\ \A v \in Worker : v # w => scan'[v] = scan[v]
<1> DEFINE where == IF scan[w].k \in Discounted THEN "code" ELSE "email"
           d(c) == [scan[w] EXCEPT !.list = scan[w].list \ {c}, !.c = c,
                                   !.n = 0, !.pc = where]
<1>0. /\ scan[w] \in Scans /\ scan[w].pc = "list" /\ scan[w].k \in Campaign
  BY DEF CartTypeOK, TakeCheckout, ScanInv
<1>1. PICK c \in scan[w].list : /\ scan' = [scan EXCEPT ![w] = d(c)]
                                /\ rows[c][scan[w].k] = {}
  BY DEF TakeCheckout
<1>2. where \in {"code", "email"} /\ c \in Checkout
  BY <1>0 DEF Scans
<1> HIDE DEF where
<1>3. /\ d(c) \in Scans /\ d(c).pc = where /\ d(c).c = c /\ d(c).n = 0
      /\ d(c).k = scan[w].k
  BY <1>0, <1>2 DEF Scans, Step
<1> HIDE DEF d
<1> QED BY <1>0, <1>1, <1>2, <1>3, ScanReplaces

(* Making a code saves it and puts its number in hand.                      *)
LEMMA CodeMoves ==
  ASSUME CartTypeOK, ScanInv, NEW w \in Worker, MakeCode(w)
  PROVE  /\ scan' \in [Worker -> Scans]
         /\ scan[w].pc = "code" /\ scan'[w].pc = "email"
         /\ scan'[w].k = scan[w].k /\ scan'[w].c = scan[w].c
         /\ scan[w].c \in Checkout /\ scan[w].k \in Campaign
         /\ codes' \in [Checkout -> [Campaign -> Nat]]
         /\ scan'[w].n = codes'[scan[w].c][scan[w].k]
         /\ \A c \in Checkout, k \in Campaign : codes[c][k] <= codes'[c][k]
         /\ \A v \in Worker : v # w => scan'[v] = scan[v]
<1>0. /\ scan[w] \in Scans /\ scan[w].pc = "code"
      /\ scan[w].c \in Checkout /\ scan[w].k \in Campaign
  BY DEF CartTypeOK, MakeCode, ScanInv, Working
<1>1. PICK c \in Checkout, k \in Campaign : c = scan[w].c /\ k = scan[w].k
  BY <1>0
<1>2. PICK n \in Nat : n = codes[c][k] + 1
  BY DEF CartTypeOK
<1> DEFINE d == [scan[w] EXCEPT !.pc = "email", !.n = n]
<1>3. /\ d \in Scans /\ d.pc = "email" /\ d.c = c /\ d.k = k /\ d.n = n
  BY <1>0, <1>1 DEF Scans, Step
<1>4. scan' = [scan EXCEPT ![w] = d]
  BY <1>1, <1>2 DEF MakeCode
<1>5. /\ codes' \in [Checkout -> [Campaign -> Nat]]
      /\ codes'[c][k] = n
      /\ \A c1 \in Checkout, k1 \in Campaign : codes[c1][k1] <= codes'[c1][k1]
  BY <1>1, <1>2 DEF MakeCode, CartTypeOK
<1> HIDE DEF d
<1> QED BY <1>0, <1>1, <1>3, <1>4, <1>5, ScanReplaces

(* A worker lets go of its checkout, records it, or dies.                   *)
LEMMA StepMoves ==
  ASSUME CartTypeOK, ScanInv, NEW w \in Worker
  PROVE  /\ MakeCodeFails(w) =>
              scan[w].pc = "code" /\ scan' = [scan EXCEPT ![w].pc = "list"]
         /\ SendEmail(w) =>
              scan[w].pc = "email" /\ scan' = [scan EXCEPT ![w].pc = "record"]
         /\ SendEmailFails(w) =>
              scan[w].pc = "email" /\ scan' = [scan EXCEPT ![w].pc = "list"]
         /\ RecordSend(w) =>
              scan[w].pc = "record" /\ scan' = [scan EXCEPT ![w].pc = "mark"]
         /\ MarkAbandoned(w) =>
              scan[w].pc = "mark" /\ scan' = [scan EXCEPT ![w].pc = "list"]
         /\ WorkerDies(w) => scan' = [scan EXCEPT ![w] = Idle]
  BY DEF MakeCodeFails, SendEmail, SendEmailFails, RecordSend, MarkAbandoned,
         WorkerDies

-----------------------------------------------------------------------------
(* Counting the workers that have a checkout in hand.                       *)

(* Membership of one element at most tells two subsets of a finite set      *)
(* apart: so do their sizes.                                                *)
LEMMA OneApart ==
  ASSUME NEW W, IsFiniteSet(W), NEW S \in SUBSET W, NEW T \in SUBSET W,
         NEW w \in W, \A v \in W : v # w => (v \in S <=> v \in T)
  PROVE  /\ Cardinality(S) \in Nat /\ Cardinality(T) \in Nat
         /\ (w \in S <=> w \in T) => Cardinality(T) = Cardinality(S)
         /\ w \notin S /\ w \in T => Cardinality(T) = Cardinality(S) + 1
         /\ w \in S /\ w \notin T => Cardinality(T) = Cardinality(S) - 1
<1>1. IsFiniteSet(S) /\ IsFiniteSet(T)
  BY FS_Subset
<1>2. Cardinality(S) \in Nat /\ Cardinality(T) \in Nat
  BY <1>1, FS_CardinalityType
<1>3. (w \in S <=> w \in T) => S = T
  OBVIOUS
<1>4. w \notin S /\ w \in T => T = S \union {w}
  OBVIOUS
<1>5. w \in S /\ w \notin T => S = T \union {w}
  OBVIOUS
<1> QED BY <1>1, <1>2, <1>3, <1>4, <1>5, FS_AddElement

(* The step of one worker changes the count of those at some steps with a   *)
(* checkout in hand by what that worker enters and leaves.                  *)
LEMMA AtMoves ==
  ASSUME IsFiniteSet(Worker), NEW w \in Worker, NEW c, NEW k, NEW steps,
         \A v \in Worker : v # w => scan'[v] = scan[v]
  PROVE  LET before == w \in At(c, k, steps)
             after == w \in At(c, k, steps)'
         IN /\ Cardinality(At(c, k, steps)) \in Nat
            /\ Cardinality(At(c, k, steps)') \in Nat
            /\ (before <=> after) =>
                 Cardinality(At(c, k, steps)') = Cardinality(At(c, k, steps))
            /\ ~before /\ after =>
                 Cardinality(At(c, k, steps)') = Cardinality(At(c, k, steps)) + 1
            /\ before /\ ~after =>
                 Cardinality(At(c, k, steps)') = Cardinality(At(c, k, steps)) - 1
<1>1. /\ At(c, k, steps) \in SUBSET Worker
      /\ At(c, k, steps)' \in SUBSET Worker
      /\ \A v \in Worker : v # w => (v \in At(c, k, steps) <=> v \in At(c, k, steps)')
  BY DEF At
<1> QED BY <1>1, OneApart

(* A worker that has neither to mail a checkout nor to record it leaves     *)
(* room for one more among those that have.                                 *)
LEMMA RoomForOne ==
  ASSUME IsFiniteSet(Worker), NEW w \in Worker, NEW c, NEW k,
         w \notin Mailing(c, k), w \notin Recording(c, k)
  PROVE  /\ Cardinality(Mailing(c, k)) \in Nat
         /\ Cardinality(Recording(c, k)) \in Nat
         /\ Cardinality(Worker) \in Nat
         /\ Cardinality(Mailing(c, k)) + Cardinality(Recording(c, k)) + 1
              <= Cardinality(Worker)
<1> DEFINE M == Mailing(c, k)
           R == Recording(c, k)
<1>1. /\ M \in SUBSET Worker /\ R \in SUBSET Worker /\ M \cap R = {}
      /\ w \notin M \union R
  BY DEF Mailing, Recording, At
<1> HIDE DEF M, R
<1>2. IsFiniteSet(M) /\ IsFiniteSet(R) /\ IsFiniteSet(M \union R)
  BY <1>1, FS_Subset, FS_Union
<1>3. Cardinality(M \cap R) = 0
  BY <1>1, FS_EmptySet
<1>4. Cardinality(M \union R) = Cardinality(M) + Cardinality(R)
  <2>1. Cardinality(M \union R)
          = Cardinality(M) + Cardinality(R) - Cardinality(M \cap R)
    BY <1>2, FS_Union
  <2>2. Cardinality(M) \in Nat /\ Cardinality(R) \in Nat
    BY <1>2, FS_CardinalityType
  <2> QED BY <1>3, <2>1, <2>2
<1>5. Cardinality((M \union R) \union {w}) = Cardinality(M \union R) + 1
  BY <1>1, <1>2, FS_AddElement
<1>6. Cardinality((M \union R) \union {w}) <= Cardinality(Worker)
  BY <1>1, FS_Subset
<1> QED BY <1>2, <1>4, <1>5, <1>6, FS_CardinalityType DEF M, R

-----------------------------------------------------------------------------
(* The types, and what a worker has in hand.                                *)

(* Whatever a worker does, it moves to a state of a scan, knows what it has *)
(* in hand, and leaves the other workers where they are.                    *)
LEMMA WorkerMoves ==
  ASSUME CartTypeOK, ScanInv, NEW w \in Worker, Scan(w) \/ WorkerDies(w)
  PROVE  /\ scan' \in [Worker -> Scans]
         /\ \A v \in Worker : v # w => scan'[v] = scan[v]
         /\ scan'[w].pc \in Working \union {"list"} => scan'[w].k \in Campaign
         /\ scan'[w].pc \in Working => scan'[w].c \in Checkout
<1>1. CASE \/ StartScan(w) \/ QueryCheckouts(w) \/ EndScan(w) \/ EndList(w)
           \/ SkipCheckout(w)
  BY <1>1, RoamMoves
<1>2. CASE TakeCheckout(w)
  BY <1>2, TakeMoves
<1>3. CASE MakeCode(w)
  BY <1>3, CodeMoves
<1>4. CASE MakeCodeFails(w) \/ SendEmailFails(w) \/ MarkAbandoned(w)
  BY <1>4, StepMoves, StepReplaces DEF Step, Working, ScanInv
<1>5. CASE SendEmail(w) \/ RecordSend(w)
  BY <1>5, StepMoves, StepReplaces DEF Step, Working, ScanInv
<1>6. CASE WorkerDies(w)
  <2>1. Idle \in Scans /\ Idle.pc = "idle"
    BY DEF Idle, Scans, Step
  <2> QED BY <1>6, <2>1, StepMoves, ScanReplaces DEF Working
<1> QED BY <1>1, <1>2, <1>3, <1>4, <1>5, <1>6 DEF Scan

(* The step of a worker that is about to mail or record has a checkout, a   *)
(* campaign and, when it holds a code, the number of one.                   *)
LEMMA InHand ==
  ASSUME CartTypeOK, ScanInv, NEW w \in Worker, scan[w].pc \in Working
  PROVE  /\ scan[w] \in Scans
         /\ scan[w].c \in Checkout /\ scan[w].k \in Campaign
         /\ scan[w].n \in Nat
  BY DEF CartTypeOK, ScanInv, Working, Scans

(* A message that may have been accepted counts once, and mails the code in *)
(* hand if there is one.                                                    *)
LEMMA AcceptedIs ==
  ASSUME CartTypeOK, NEW s, s.c \in Checkout, s.k \in Campaign, s.n \in Nat,
         Accepted(s)
  PROVE  /\ emails' \in [Checkout -> [Campaign -> Nat]]
         /\ emails'[s.c][s.k] = emails[s.c][s.k] + 1
         /\ \A c \in Checkout, k \in Campaign : 
               ~(c = s.c /\ k = s.k) => emails'[c][k] = emails[c][k]
         /\ mailed' \subseteq Code
         /\ mailed' \subseteq mailed \union {<<s.c, s.k, s.n>>}
         /\ s.n = 0 => mailed' = mailed
  BY DEF CartTypeOK, Accepted, Code

(* Writing a send row leaves a row, or spends a fault.                      *)
LEMMA WriteRowIs ==
  ASSUME CartConstants, CartTypeOK, NEW s, s.c \in Checkout, s.k \in Campaign,
         NEW rowStatus \in {"sent", "failed"}, WriteSend(s, rowStatus)
  PROVE  /\ rows' \in [Checkout -> [Campaign -> SUBSET {"sent", "failed"}]]
         /\ faults' \in 0 .. MaxFaults
         /\ \/ rows'[s.c][s.k] # {} /\ faults' = faults
            \/ rows' = rows /\ faults' = faults + 1
         /\ \A c \in Checkout, k \in Campaign : 
               ~(c = s.c /\ k = s.k) => rows'[c][k] = rows[c][k]
<1>1. CASE /\ rows' = [rows EXCEPT ![s.c][s.k] = @ \union {rowStatus}]
           /\ UNCHANGED faults
  <2>1. PICK c \in Checkout, k \in Campaign : c = s.c /\ k = s.k
    OBVIOUS
  <2> DEFINE new == rows[c][k] \union {rowStatus}
  <2>2. rows[c] \in [Campaign -> SUBSET {"sent", "failed"}]
    BY DEF CartTypeOK
  <2>3. new \in SUBSET {"sent", "failed"} /\ new # {}
    BY <2>2
  <2>4. rows' = [rows EXCEPT ![c] = [rows[c] EXCEPT ![k] = new]]
    BY <1>1, <2>1 DEF CartTypeOK
  <2> HIDE DEF new
  <2>5. /\ rows' \in [Checkout -> [Campaign -> SUBSET {"sent", "failed"}]]
        /\ rows'[c][k] = new
    BY <2>2, <2>3, <2>4 DEF CartTypeOK
  <2>6. \A c1 \in Checkout, k1 \in Campaign : 
          ~(c1 = c /\ k1 = k) => rows'[c1][k1] = rows[c1][k1]
    BY <2>2, <2>4 DEF CartTypeOK
  <2>7. faults' = faults /\ faults' \in 0 .. MaxFaults
    BY <1>1 DEF CartTypeOK
  <2> QED BY <2>1, <2>3, <2>5, <2>6, <2>7
<1>2. CASE faults < MaxFaults /\ faults' = faults + 1 /\ UNCHANGED rows
  BY <1>2 DEF CartTypeOK, CartConstants
<1> QED BY <1>1, <1>2 DEF WriteSend

(* The first state has the types.                                           *)
LEMMA TypeInit ==
  ASSUME CartConstants, CartInit
  PROVE  CartTypeOK
<1>1. Idle \in Scans
  BY DEF Idle, Scans, Step
<1> QED BY <1>1 DEF CartInit, CartTypeOK, CartConstants, Status, Attributions

(* Every step keeps the types.                                              *)
LEMMA TypeStep ==
  ASSUME CartConstants, CartTypeOK, ScanInv, OrderInv, [CartNext]_cartVars
  PROVE  CartTypeOK'
<1>1. ASSUME NEW c \in Checkout, CheckoutCreate(c) \/ CheckoutUpdate(c)
      PROVE  CartTypeOK'
  <2>1. \E s \in {"open", "ordered"} : Upsert(c, s)
    BY <1>1 DEF CheckoutCreate, CheckoutUpdate
  <2> QED BY <2>1 DEF Upsert, CartTypeOK, Status, history
<1>2. ASSUME NEW c \in Checkout, NEW k \in Campaign, DelayPasses(c, k)
      PROVE  CartTypeOK'
  BY <1>2 DEF DelayPasses, CartTypeOK, history
<1>3. ASSUME NEW k \in Campaign, SwitchCampaign(k)
      PROVE  CartTypeOK'
  BY <1>3 DEF SwitchCampaign, CartTypeOK, tables, history
<1>4. ASSUME NEW w \in Worker, Scan(w) \/ WorkerDies(w)
      PROVE  CartTypeOK'
  <2>1. scan' \in [Worker -> Scans]
    BY <1>4, WorkerMoves
  <2>2. CASE \/ StartScan(w) \/ QueryCheckouts(w) \/ EndScan(w) \/ EndList(w)
             \/ SkipCheckout(w)
    BY <2>1, <2>2, RoamMoves DEF CartTypeOK, tables, history
  <2>3. CASE TakeCheckout(w) \/ MakeCodeFails(w)
    BY <2>1, <2>3 DEF TakeCheckout, MakeCodeFails, CartTypeOK, tables, history
  <2>4. CASE MakeCode(w)
    BY <2>1, <2>4, CodeMoves DEF MakeCode, CartTypeOK, history
  <2>5. CASE SendEmail(w)
    <3>1. scan[w].pc \in Working /\ Accepted(scan[w])
      BY <2>5 DEF SendEmail, Working
    <3> QED BY <2>1, <2>5, <3>1, InHand, AcceptedIs DEF SendEmail, CartTypeOK, tables
  <2>6. CASE SendEmailFails(w)
    <3>1. /\ scan[w].pc \in Working /\ WriteSend(scan[w], "failed")
          /\ Accepted(scan[w]) \/ UNCHANGED <<emails, mailed>>
      BY <2>6 DEF SendEmailFails, Working
    <3>2. /\ rows' \in [Checkout -> [Campaign -> SUBSET {"sent", "failed"}]]
          /\ faults' \in 0 .. MaxFaults
      BY <3>1, InHand, WriteRowIs
    <3>3. /\ emails' \in [Checkout -> [Campaign -> Nat]]
          /\ mailed' \subseteq Code
      BY <3>1, InHand, AcceptedIs DEF CartTypeOK
    <3> QED BY <2>1, <2>6, <3>2, <3>3 DEF SendEmailFails, CartTypeOK
  <2>7. CASE RecordSend(w)
    <3>1. scan[w].pc \in Working /\ WriteSend(scan[w], "sent")
      BY <2>7 DEF RecordSend, Working
    <3> QED BY <2>1, <2>7, <3>1, InHand, WriteRowIs DEF RecordSend, CartTypeOK
  <2>8. CASE MarkAbandoned(w)
    <3>1. scan[w].pc \in Working
      BY <2>8 DEF MarkAbandoned, Working
    <3>2. scan[w].c \in Checkout
      BY <3>1, InHand
    <3>3. status' \in [Checkout -> Status]
      BY <2>8, <3>2 DEF MarkAbandoned, CartTypeOK, Status
    <3> QED BY <2>1, <2>8, <3>3 DEF MarkAbandoned, CartTypeOK, history
  <2>9. CASE WorkerDies(w)
    BY <2>1, <2>9 DEF WorkerDies, CartTypeOK, tables, CartConstants
  <2> QED BY <1>4, <2>2, <2>3, <2>4, <2>5, <2>6, <2>7, <2>8, <2>9 DEF Scan
<1>5. ASSUME NEW o \in Order, NEW code \in mailed, UseCode(o, code)
      PROVE  CartTypeOK'
  <2>1. code \in Code /\ order[o] \in Attributions
    BY DEF CartTypeOK
  <2>2. [pc |-> "used", code |-> code] \in Attributions
    BY <2>1 DEF Attributions
  <2> DEFINE d == [pc |-> "used", code |-> code]
  <2>3. \/ order' = [order EXCEPT ![o] = d]
        \/ order' = [order EXCEPT ![o].pc = "done"]
    BY <1>5 DEF UseCode
  <2> HIDE DEF d
  <2>4. order' \in [Order -> Attributions]
    <3>1. CASE order' = [order EXCEPT ![o] = d]
      BY <2>2, <3>1 DEF CartTypeOK, d
    <3>2. CASE order' = [order EXCEPT ![o].pc = "done"]
      BY <3>2 DEF CartTypeOK, Attributions
    <3> QED BY <2>3, <3>1, <3>2
  <2>5. used' \subseteq Code
    BY <1>5, <2>1 DEF UseCode, CartTypeOK
  <2> QED BY <1>5, <2>4, <2>5 DEF UseCode, CartTypeOK, history
<1>6. ASSUME NEW o \in Order, RecoverCheckout(o)
      PROVE  CartTypeOK'
  <2>1. order[o].code \in Code /\ order[o].code[1] \in Checkout
    BY <1>6 DEF RecoverCheckout, OrderInv, Code
  <2>2. order' \in [Order -> Attributions]
    BY <1>6 DEF RecoverCheckout, CartTypeOK, Attributions
  <2>3. <<o, order[o].code>> \in Order \X Code
    BY <2>1
  <2>4. credited' \subseteq Order \X Code
    BY <1>6, <2>3 DEF RecoverCheckout, CartTypeOK
  <2>5. status' \in [Checkout -> Status]
    BY <1>6, <2>1 DEF RecoverCheckout, CartTypeOK, Status
  <2>6. UNCHANGED <<active, older, due, rows, codes, used, scan, emails, mailed,
                    faults>>
    BY <1>6 DEF RecoverCheckout
  <2> QED BY <2>2, <2>4, <2>5, <2>6 DEF CartTypeOK
<1>7. ASSUME NEW o \in Order, AttributionDies(o)
      PROVE  CartTypeOK'
  <2>1. order' \in [Order -> Attributions]
    BY <1>7 DEF AttributionDies, CartTypeOK, Attributions
  <2>2. faults' \in 0 .. MaxFaults
    BY <1>7 DEF AttributionDies, CartTypeOK, CartConstants
  <2>3. UNCHANGED <<active, tables, scan, emails, mailed, credited>>
    BY <1>7 DEF AttributionDies
  <2> QED BY <2>1, <2>2, <2>3 DEF CartTypeOK, tables
<1>8. CASE UNCHANGED cartVars
  BY <1>8 DEF cartVars, tables, history, CartTypeOK
<1> QED BY <1>1, <1>2, <1>3, <1>4, <1>5, <1>6, <1>7, <1>8 DEF CartNext

(* Codes are never unsaved, and a worker that reaches the mailing of a      *)
(* message has no code in hand or the one it has just saved.                *)
LEMMA CodesGrow ==
  ASSUME CartTypeOK, ScanInv, NEW w \in Worker, Scan(w) \/ WorkerDies(w)
  PROVE  /\ \A c \in Checkout, k \in Campaign : codes[c][k] <= codes'[c][k]
         /\ scan'[w].pc = "email" /\ scan'[w].n # 0 =>
               scan'[w].n <= codes'[scan'[w].c][scan'[w].k]
<1>0. \A c \in Checkout, k \in Campaign : codes[c][k] \in Nat
  BY DEF CartTypeOK
<1>1. CASE \/ StartScan(w) \/ QueryCheckouts(w) \/ EndScan(w) \/ EndList(w)
           \/ SkipCheckout(w)
  BY <1>0, <1>1, RoamMoves DEF Working, tables
<1>2. CASE TakeCheckout(w)
  <2>1. UNCHANGED codes
    BY <1>2 DEF TakeCheckout, tables
  <2> QED BY <1>0, <1>2, <2>1, TakeMoves
<1>3. CASE MakeCode(w)
  BY <1>0, <1>3, CodeMoves
<1>4. CASE \/ MakeCodeFails(w) \/ SendEmail(w) \/ SendEmailFails(w)
           \/ RecordSend(w) \/ MarkAbandoned(w)
  <2>1. UNCHANGED codes
    BY <1>4 DEF MakeCodeFails, SendEmail, SendEmailFails, RecordSend,
                MarkAbandoned, tables
  <2>2. scan'[w].pc \in {"list", "record", "mark"}
    BY <1>4, StepMoves, StepReplaces DEF Step
  <2> QED BY <1>0, <2>1, <2>2
<1>5. CASE WorkerDies(w)
  <2>1. UNCHANGED codes /\ scan' = [scan EXCEPT ![w] = Idle]
    BY <1>5 DEF WorkerDies, tables
  <2>2. scan'[w].pc = "idle"
    BY <2>1 DEF CartTypeOK, Idle
  <2> QED BY <1>0, <2>1, <2>2
<1> QED BY <1>1, <1>2, <1>3, <1>4, <1>5 DEF Scan

(* The steps of others leave the scans, the codes, the send rows and the    *)
(* messages alone, and only the death of an attribution spends a fault.     *)
LEMMA OthersLeave ==
  ASSUME CartTypeOK,
         \/ \E c \in Checkout : CheckoutCreate(c) \/ CheckoutUpdate(c)
         \/ \E c \in Checkout, k \in Campaign : DelayPasses(c, k)
         \/ \E k \in Campaign : SwitchCampaign(k)
         \/ \E o \in Order : \/ \E code \in mailed : UseCode(o, code)
                             \/ RecoverCheckout(o) \/ AttributionDies(o)
         \/ UNCHANGED cartVars
  PROVE  /\ UNCHANGED <<scan, codes, rows, emails, mailed>>
         /\ faults' \in {faults, faults + 1}
<1>1. CASE \E c \in Checkout : CheckoutCreate(c) \/ CheckoutUpdate(c)
  BY <1>1 DEF CheckoutCreate, CheckoutUpdate, Upsert, history
<1>2. CASE \E c \in Checkout, k \in Campaign : DelayPasses(c, k)
  BY <1>2 DEF DelayPasses, history
<1>3. CASE \E k \in Campaign : SwitchCampaign(k)
  BY <1>3 DEF SwitchCampaign, tables, history
<1>4. ASSUME NEW o \in Order, \/ \E code \in mailed : UseCode(o, code)
                              \/ RecoverCheckout(o) \/ AttributionDies(o)
      PROVE  /\ UNCHANGED <<scan, codes, rows, emails, mailed>>
             /\ faults' \in {faults, faults + 1}
  BY <1>4 DEF UseCode, RecoverCheckout, AttributionDies, tables, history
<1>5. CASE UNCHANGED cartVars
  BY <1>5 DEF cartVars, tables, history
<1> QED BY <1>1, <1>2, <1>3, <1>4, <1>5

(* Every step keeps what the workers have in hand.                          *)
LEMMA ScanStep ==
  ASSUME CartTypeOK, ScanInv, [CartNext]_cartVars
  PROVE  ScanInv'
<1>1. ASSUME NEW w \in Worker, Scan(w) \/ WorkerDies(w)
      PROVE  ScanInv'
  <2>1. ASSUME NEW v \in Worker, v # w
        PROVE  /\ scan'[v].pc \in Working \union {"list"} => scan'[v].k \in Campaign
               /\ scan'[v].pc \in Working => scan'[v].c \in Checkout
               /\ scan'[v].pc = "email" /\ scan'[v].n # 0 =>
                     scan'[v].n <= codes'[scan'[v].c][scan'[v].k]
    <3>1. scan'[v] = scan[v]
      BY <1>1, <2>1, WorkerMoves
    <3>2. ASSUME scan[v].pc = "email", scan[v].n # 0
          PROVE  scan[v].n <= codes'[scan[v].c][scan[v].k]
      <4>1. scan[v].pc \in Working
        BY <3>2 DEF Working
      <4>2. PICK c \in Checkout, k \in Campaign : c = scan[v].c /\ k = scan[v].k
        BY <4>1, InHand
      <4>3. scan[v].n \in Nat /\ scan[v].n <= codes[c][k] /\ codes[c][k] \in Nat
        BY <3>2, <4>1, <4>2, InHand DEF ScanInv, CartTypeOK
      <4>4. codes[c][k] <= codes'[c][k]
        BY <1>1, CodesGrow
      <4>5. codes'[c][k] \in Nat
        <5>1. \/ UNCHANGED codes
              \/ codes' \in [Checkout -> [Campaign -> Nat]]
          BY <1>1, RoamMoves, CodeMoves
             DEF Scan, TakeCheckout, MakeCodeFails, SendEmail, SendEmailFails,
                 RecordSend, MarkAbandoned, WorkerDies, tables
        <5> QED BY <4>3, <5>1
      <4> QED BY <4>2, <4>3, <4>4, <4>5
    <3> QED BY <3>1, <3>2 DEF ScanInv
  <2>2. /\ scan'[w].pc \in Working \union {"list"} => scan'[w].k \in Campaign
        /\ scan'[w].pc \in Working => scan'[w].c \in Checkout
        /\ scan'[w].pc = "email" /\ scan'[w].n # 0 =>
              scan'[w].n <= codes'[scan'[w].c][scan'[w].k]
    BY <1>1, WorkerMoves, CodesGrow
  <2> QED BY <2>1, <2>2 DEF ScanInv, Working
<1>2. CASE UNCHANGED <<scan, codes>>
  BY <1>2 DEF ScanInv
<1> QED BY <1>1, <1>2, OthersLeave DEF CartNext

-----------------------------------------------------------------------------
(* The messages of a campaign to a checkout.                                *)

(* The two counts of a checkout and a campaign before and after the step of *)
(* a worker w.                                                              *)
LEMMA Counts ==
  ASSUME CartConstants, CartTypeOK, CartTypeOK', NEW w \in Worker,
         \A v \in Worker : v # w => scan'[v] = scan[v],
         NEW c \in Checkout, NEW k \in Campaign
  PROVE  /\ Cardinality(Worker) \in Nat
         /\ emails[c][k] \in Nat /\ emails'[c][k] \in Nat
         /\ faults \in Nat /\ faults' \in Nat
         /\ Cardinality(Mailing(c, k)) \in Nat
         /\ Cardinality(Mailing(c, k)') \in Nat
         /\ Cardinality(Recording(c, k)) \in Nat
         /\ Cardinality(Recording(c, k)') \in Nat
         /\ w \in Mailing(c, k) <=>
               scan[w].c = c /\ scan[w].k = k /\ scan[w].pc \in {"code", "email"}
         /\ w \in Mailing(c, k)' <=>
               /\ scan'[w].c = c /\ scan'[w].k = k
               /\ scan'[w].pc \in {"code", "email"}
         /\ w \in Recording(c, k) <=>
               scan[w].c = c /\ scan[w].k = k /\ scan[w].pc = "record"
         /\ w \in Recording(c, k)' <=>
               scan'[w].c = c /\ scan'[w].k = k /\ scan'[w].pc = "record"
         /\ (w \in Mailing(c, k) <=> w \in Mailing(c, k)') =>
               Cardinality(Mailing(c, k)') = Cardinality(Mailing(c, k))
         /\ w \notin Mailing(c, k) /\ w \in Mailing(c, k)' =>
               Cardinality(Mailing(c, k)') = Cardinality(Mailing(c, k)) + 1
         /\ w \in Mailing(c, k) /\ w \notin Mailing(c, k)' =>
               Cardinality(Mailing(c, k)') = Cardinality(Mailing(c, k)) - 1
         /\ (w \in Recording(c, k) <=> w \in Recording(c, k)') =>
               Cardinality(Recording(c, k)') = Cardinality(Recording(c, k))
         /\ w \notin Recording(c, k) /\ w \in Recording(c, k)' =>
               Cardinality(Recording(c, k)') = Cardinality(Recording(c, k)) + 1
         /\ w \in Recording(c, k) /\ w \notin Recording(c, k)' =>
               Cardinality(Recording(c, k)') = Cardinality(Recording(c, k)) - 1
<1>1. IsFiniteSet(Worker) /\ Cardinality(Worker) \in Nat
  BY FS_CardinalityType DEF CartConstants
<1>2. /\ emails[c][k] \in Nat /\ emails'[c][k] \in Nat
      /\ faults \in Nat /\ faults' \in Nat
  BY DEF CartTypeOK, CartConstants
<1>3. /\ w \in Mailing(c, k) <=>
            scan[w].c = c /\ scan[w].k = k /\ scan[w].pc \in {"code", "email"}
      /\ w \in Mailing(c, k)' <=>
            /\ scan'[w].c = c /\ scan'[w].k = k
            /\ scan'[w].pc \in {"code", "email"}
      /\ w \in Recording(c, k) <=>
            scan[w].c = c /\ scan[w].k = k /\ scan[w].pc = "record"
      /\ w \in Recording(c, k)' <=>
            scan'[w].c = c /\ scan'[w].k = k /\ scan'[w].pc = "record"
  BY DEF Mailing, Recording, At
<1>4. /\ Cardinality(Mailing(c, k)) \in Nat
      /\ Cardinality(Mailing(c, k)') \in Nat
      /\ (w \in Mailing(c, k) <=> w \in Mailing(c, k)') =>
            Cardinality(Mailing(c, k)') = Cardinality(Mailing(c, k))
      /\ w \notin Mailing(c, k) /\ w \in Mailing(c, k)' =>
            Cardinality(Mailing(c, k)') = Cardinality(Mailing(c, k)) + 1
      /\ w \in Mailing(c, k) /\ w \notin Mailing(c, k)' =>
            Cardinality(Mailing(c, k)') = Cardinality(Mailing(c, k)) - 1
  BY <1>1, AtMoves DEF Mailing
<1>5. /\ Cardinality(Recording(c, k)) \in Nat
      /\ Cardinality(Recording(c, k)') \in Nat
      /\ (w \in Recording(c, k) <=> w \in Recording(c, k)') =>
            Cardinality(Recording(c, k)') = Cardinality(Recording(c, k))
      /\ w \notin Recording(c, k) /\ w \in Recording(c, k)' =>
            Cardinality(Recording(c, k)') = Cardinality(Recording(c, k)) + 1
      /\ w \in Recording(c, k) /\ w \notin Recording(c, k)' =>
            Cardinality(Recording(c, k)') = Cardinality(Recording(c, k)) - 1
  BY <1>1, AtMoves DEF Recording
<1> QED BY <1>1, <1>2, <1>3, <1>4, <1>5

(* The step of a worker keeps the bound on the messages: taking a checkout  *)
(* uses the room that the missing send row leaves, mailing it moves the     *)
(* worker to those that must record, and recording leaves a row or a fault. *)
LEMMA WorkerFits ==
  ASSUME CartConstants, CartTypeOK, CartTypeOK', ScanInv, NEW w \in Worker,
         Scan(w) \/ WorkerDies(w), NEW c \in Checkout, NEW k \in Campaign,
         Fits(c, k)
  PROVE  Fits(c, k)'
<1>0. \A v \in Worker : v # w => scan'[v] = scan[v]
  BY WorkerMoves
<1>1. CASE \/ StartScan(w) \/ QueryCheckouts(w) \/ EndScan(w) \/ EndList(w)
           \/ SkipCheckout(w) \/ MarkAbandoned(w)
  <2>1. UNCHANGED <<rows, emails, faults>>
    BY <1>1 DEF StartScan, QueryCheckouts, EndScan, EndList, SkipCheckout,
                MarkAbandoned, tables, history
  <2>2. /\ scan[w].pc \notin {"code", "email", "record"}
        /\ scan'[w].pc \notin {"code", "email", "record"}
    BY <1>1, RoamMoves, StepMoves, StepReplaces DEF Working, Step
  <2> QED BY <1>0, <2>1, <2>2, Counts DEF Fits
<1>2. CASE TakeCheckout(w)
  <2>1. UNCHANGED <<rows, emails, faults>>
    BY <1>2 DEF TakeCheckout, tables, history
  <2>2. /\ scan[w].pc = "list" /\ scan'[w].pc \in {"code", "email"}
        /\ rows[scan'[w].c][scan'[w].k] = {}
    BY <1>2, TakeMoves
  <2>3. w \notin Mailing(c, k) /\ w \notin Recording(c, k)
    BY <2>2 DEF Mailing, Recording, At
  <2>4. Cardinality(Mailing(c, k)) + Cardinality(Recording(c, k)) + 1
          <= Cardinality(Worker)
    BY <2>3, RoomForOne DEF CartConstants
  <2>5. Cardinality(Recording(c, k)') = Cardinality(Recording(c, k))
    BY <1>0, <2>2, Counts
  <2>6. CASE scan'[w].c = c /\ scan'[w].k = k
    <3>1. Cardinality(Mailing(c, k)') = Cardinality(Mailing(c, k)) + 1
      BY <1>0, <2>2, <2>6, Counts
    <3> QED BY <1>0, <2>1, <2>2, <2>4, <2>5, <2>6, <3>1, Counts DEF Fits
  <2>7. CASE ~(scan'[w].c = c /\ scan'[w].k = k)
    <3>1. Cardinality(Mailing(c, k)') = Cardinality(Mailing(c, k))
      BY <1>0, <2>2, <2>7, Counts
    <3> QED BY <2>1, <2>5, <3>1 DEF Fits
  <2> QED BY <2>6, <2>7
<1>3. CASE MakeCode(w)
  <2>1. UNCHANGED <<rows, emails, faults>>
    BY <1>3 DEF MakeCode, history
  <2>2. /\ scan[w].pc = "code" /\ scan'[w].pc = "email"
        /\ scan'[w].k = scan[w].k /\ scan'[w].c = scan[w].c
    BY <1>3, CodeMoves
  <2> QED BY <1>0, <2>1, <2>2, Counts DEF Fits
<1>4. CASE MakeCodeFails(w)
  <2>1. UNCHANGED <<rows, emails, faults>>
    BY <1>4 DEF MakeCodeFails, tables, history
  <2>2. scan[w].pc = "code" /\ scan'[w].pc = "list"
    BY <1>4, StepMoves, StepReplaces DEF Step
  <2> QED BY <1>0, <2>1, <2>2, Counts DEF Fits
<1>5. CASE SendEmail(w)
  <2>1. UNCHANGED <<rows, faults>> /\ Accepted(scan[w])
    BY <1>5 DEF SendEmail, tables
  <2>2. /\ scan[w].pc = "email" /\ scan'[w].pc = "record"
        /\ scan'[w].k = scan[w].k /\ scan'[w].c = scan[w].c
    BY <1>5, StepMoves, StepReplaces DEF Step
  <2>3. /\ emails'[scan[w].c][scan[w].k] = emails[scan[w].c][scan[w].k] + 1
        /\ ~(c = scan[w].c /\ k = scan[w].k) => emails'[c][k] = emails[c][k]
    BY <2>1, <2>2, InHand, AcceptedIs DEF Working
  <2> QED BY <1>0, <2>1, <2>2, <2>3, Counts DEF Fits
<1>6. CASE SendEmailFails(w)
  <2>1. /\ WriteSend(scan[w], "failed")
        /\ Accepted(scan[w]) \/ UNCHANGED <<emails, mailed>>
    BY <1>6 DEF SendEmailFails
  <2>2. scan[w].pc = "email" /\ scan'[w].pc = "list"
    BY <1>6, StepMoves, StepReplaces DEF Step
  <2>3. /\ emails'[c][k] \in {emails[c][k], emails[c][k] + 1}
        /\ ~(c = scan[w].c /\ k = scan[w].k) => emails'[c][k] = emails[c][k]
    BY <2>1, <2>2, InHand, AcceptedIs DEF Working
  <2>4. /\ \/ rows'[scan[w].c][scan[w].k] # {} /\ faults' = faults
           \/ rows' = rows /\ faults' = faults + 1
        /\ ~(c = scan[w].c /\ k = scan[w].k) => rows'[c][k] = rows[c][k]
    BY <2>1, <2>2, InHand, WriteRowIs DEF Working
  <2> QED BY <1>0, <2>2, <2>3, <2>4, Counts DEF Fits
<1>7. CASE RecordSend(w)
  <2>1. WriteSend(scan[w], "sent") /\ UNCHANGED emails
    BY <1>7 DEF RecordSend
  <2>2. /\ scan[w].pc = "record" /\ scan'[w].pc = "mark"
    BY <1>7, StepMoves, StepReplaces DEF Step
  <2>4. /\ \/ rows'[scan[w].c][scan[w].k] # {} /\ faults' = faults
           \/ rows' = rows /\ faults' = faults + 1
        /\ ~(c = scan[w].c /\ k = scan[w].k) => rows'[c][k] = rows[c][k]
    BY <2>1, <2>2, InHand, WriteRowIs DEF Working
  <2> QED BY <1>0, <2>1, <2>2, <2>4, Counts DEF Fits
<1>8. CASE WorkerDies(w)
  <2>1. UNCHANGED <<rows, emails>> /\ faults' = faults + 1
    BY <1>8 DEF WorkerDies, tables
  <2>2. scan'[w].pc = "idle"
    BY <1>8, StepMoves DEF CartTypeOK, Idle
  <2> QED BY <1>0, <2>1, <2>2, Counts DEF Fits
<1> QED BY <1>1, <1>2, <1>3, <1>4, <1>5, <1>6, <1>7, <1>8 DEF Scan

(* Every step keeps the bound.                                              *)
LEMMA EmailStep ==
  ASSUME CartConstants, CartTypeOK, CartTypeOK', ScanInv, EmailInv, [CartNext]_cartVars
  PROVE  EmailInv'
<1>1. ASSUME NEW w \in Worker, Scan(w) \/ WorkerDies(w)
      PROVE  EmailInv'
  BY <1>1, WorkerFits DEF EmailInv
<1>2. CASE UNCHANGED <<scan, rows, emails>> /\ faults' \in {faults, faults + 1}
  <2>1. ASSUME NEW c \in Checkout, NEW k \in Campaign
        PROVE  Fits(c, k)'
    <3>1. /\ Mailing(c, k) \in SUBSET Worker /\ Recording(c, k) \in SUBSET Worker
          /\ IsFiniteSet(Worker)
      BY DEF Mailing, Recording, At, CartConstants
    <3>2. /\ Cardinality(Mailing(c, k)) \in Nat
          /\ Cardinality(Recording(c, k)) \in Nat
          /\ Cardinality(Worker) \in Nat
      BY <3>1, FS_Subset, FS_CardinalityType
    <3>3. Mailing(c, k)' = Mailing(c, k) /\ Recording(c, k)' = Recording(c, k)
      BY <1>2 DEF Mailing, Recording, At
    <3>4. emails[c][k] \in Nat /\ faults \in Nat
      BY DEF CartTypeOK, CartConstants
    <3>5. Fits(c, k)
      BY DEF EmailInv
    <3> QED BY <1>2, <3>2, <3>3, <3>4, <3>5 DEF Fits
  <2> QED BY <2>1 DEF EmailInv
<1> QED BY <1>1, <1>2, OthersLeave DEF CartNext

-----------------------------------------------------------------------------
(* The codes and the orders that use them.                                  *)

(* Workers leave the orders alone, and never take a recovery back.          *)
LEMMA WorkerLeavesOrders ==
  ASSUME CartTypeOK, ScanInv, NEW w \in Worker, Scan(w) \/ WorkerDies(w)
  PROVE  /\ UNCHANGED <<order, used, credited>>
         /\ \A c \in Checkout : status'[c] = "recovered" <=> status[c] = "recovered"
<1>1. CASE MarkAbandoned(w)
  <2>1. scan[w].c \in Checkout
    BY <1>1, InHand DEF MarkAbandoned, Working
  <2> QED BY <1>1, <2>1 DEF MarkAbandoned, CartTypeOK, history
<1>2. CASE ~MarkAbandoned(w)
  BY <1>2 DEF Scan, StartScan, QueryCheckouts, EndScan, EndList, SkipCheckout,
              TakeCheckout, MakeCode, MakeCodeFails, SendEmail, SendEmailFails,
              RecordSend, WorkerDies, tables, history
<1> QED BY <1>1, <1>2

(* Every step keeps the mailed codes among the saved ones.                  *)
LEMMA MailedStep ==
  ASSUME CartTypeOK, CartTypeOK', ScanInv, MailedCodesAreSaved, [CartNext]_cartVars
  PROVE  MailedCodesAreSaved'
<1>1. ASSUME NEW w \in Worker, Scan(w) \/ WorkerDies(w)
      PROVE  MailedCodesAreSaved'
  <2>1. Saved \subseteq Saved'
    <3>1. ASSUME NEW code \in Saved
          PROVE  code \in Saved'
      <4>1. PICK c \in Checkout, k \in Campaign, n \in Nat \ {0} :
              code = <<c, k, n>> /\ n <= codes[c][k]
        BY DEF Saved, Code
      <4>2. codes[c][k] <= codes'[c][k]
        BY <1>1, CodesGrow
      <4>3. codes[c][k] \in Nat /\ codes'[c][k] \in Nat
        BY DEF CartTypeOK
      <4> QED BY <4>1, <4>2, <4>3 DEF Saved, Code
    <3> QED BY <3>1
  <2>2. CASE UNCHANGED mailed
    BY <2>1, <2>2 DEF MailedCodesAreSaved
  <2>3. CASE SendEmail(w) \/ SendEmailFails(w)
    <3>1. /\ Accepted(scan[w]) \/ UNCHANGED mailed
          /\ scan[w].pc = "email"
      BY <2>3 DEF SendEmail, SendEmailFails
    <3>2. scan[w].pc \in Working
      BY <3>1 DEF Working
    <3>3. ASSUME Accepted(scan[w]), scan[w].n # 0
          PROVE  <<scan[w].c, scan[w].k, scan[w].n>> \in Saved
      BY <3>1, <3>2, <3>3, InHand DEF ScanInv, Saved, Code
    <3>4. CASE Accepted(scan[w])
      BY <2>1, <3>2, <3>3, <3>4, InHand, AcceptedIs DEF MailedCodesAreSaved
    <3> QED BY <2>2, <3>1, <3>4
  <2>4. UNCHANGED mailed \/ SendEmail(w) \/ SendEmailFails(w)
    BY <1>1 DEF Scan, StartScan, QueryCheckouts, EndScan, EndList, SkipCheckout,
                TakeCheckout, MakeCode, MakeCodeFails, RecordSend, MarkAbandoned,
                WorkerDies, history
  <2> QED BY <2>2, <2>3, <2>4
<1>2. CASE UNCHANGED <<codes, mailed>>
  BY <1>2 DEF MailedCodesAreSaved, Saved
<1> QED BY <1>1, <1>2, OthersLeave DEF CartNext

(* A recovery is never taken back, and takes a used code of the checkout.   *)
LEMMA RecoveryStep ==
  ASSUME CartTypeOK, ScanInv, OrderInv, RecoveredByCode, [CartNext]_cartVars
  PROVE  RecoveredByCode' /\ RecoveredStays
<1> DEFINE Kept == /\ used \subseteq used'
                   /\ \A c \in Checkout :
                        status'[c] = "recovered" <=> status[c] = "recovered"
<1>1. Kept => RecoveredByCode' /\ RecoveredStays
  BY DEF RecoveredByCode, RecoveredStays
<1>2. ASSUME NEW w \in Worker, Scan(w) \/ WorkerDies(w)
      PROVE  Kept
  BY <1>2, WorkerLeavesOrders
<1>3. ASSUME NEW c \in Checkout, CheckoutCreate(c) \/ CheckoutUpdate(c)
      PROVE  Kept
  <2>1. PICK s \in {"open", "ordered"} : Upsert(c, s)
    BY <1>3 DEF CheckoutCreate, CheckoutUpdate
  <2> QED BY <2>1 DEF Upsert, CartTypeOK
<1>4. ASSUME NEW o \in Order, RecoverCheckout(o)
      PROVE  RecoveredByCode' /\ RecoveredStays
  <2>1. PICK code \in used : code = order[o].code /\ code \in Code
    BY <1>4 DEF RecoverCheckout, OrderInv, Owns
  <2>2. PICK c \in Checkout : c = code[1]
    BY <2>1 DEF Code
  <2>3. status' = [status EXCEPT ![c] = "recovered"] /\ UNCHANGED used
    BY <1>4, <2>1, <2>2 DEF RecoverCheckout
  <2>4. \A d \in Checkout :
          status'[d] = IF d = c THEN "recovered" ELSE status[d]
    BY <2>3 DEF CartTypeOK
  <2>5. RecoveredStays
    BY <2>4 DEF RecoveredStays
  <2>6. used' = used /\ code \in used' /\ code[1] = c
    BY <2>1, <2>2, <2>3
  <2>7. ASSUME NEW d \in Checkout, status'[d] = "recovered"
        PROVE  \E own \in used' : own[1] = d
    <3>1. CASE d = c
      BY <2>6, <3>1
    <3>2. CASE d # c
      BY <2>4, <2>6, <2>7, <3>2 DEF RecoveredByCode
    <3> QED BY <3>1, <3>2
  <2>8. RecoveredByCode'
    BY <2>7 DEF RecoveredByCode
  <2> QED BY <2>5, <2>8
<1>5. ASSUME NEW o \in Order, (\E code \in mailed : UseCode(o, code)) \/ AttributionDies(o)
      PROVE  Kept
  BY <1>5 DEF UseCode, AttributionDies, tables
<1>6. CASE UNCHANGED <<status, used>>
  BY <1>1, <1>6
<1>7. CASE \/ \E c \in Checkout, k \in Campaign : DelayPasses(c, k)
           \/ \E k \in Campaign : SwitchCampaign(k)
           \/ UNCHANGED cartVars
  BY <1>6, <1>7 DEF DelayPasses, SwitchCampaign, cartVars, tables
<1> HIDE DEF Kept
<1> QED BY <1>1, <1>2, <1>3, <1>4, <1>5, <1>7 DEF CartNext

(* Every step keeps one owner per used code.                                *)
LEMMA OrderStep ==
  ASSUME CartTypeOK, ScanInv, OrderInv, [CartNext]_cartVars
  PROVE  OrderInv'
<1>1. CASE UNCHANGED <<order, used, credited>>
  BY <1>1 DEF OrderInv, Owns
<1>2. ASSUME NEW w \in Worker, Scan(w) \/ WorkerDies(w)
      PROVE  OrderInv'
  BY <1>1, <1>2, WorkerLeavesOrders
<1>3. CASE \/ \E c \in Checkout : CheckoutCreate(c) \/ CheckoutUpdate(c)
           \/ \E c \in Checkout, k \in Campaign : DelayPasses(c, k)
           \/ \E k \in Campaign : SwitchCampaign(k)
           \/ UNCHANGED cartVars
  BY <1>1, <1>3 DEF CheckoutCreate, CheckoutUpdate, Upsert, DelayPasses,
                    SwitchCampaign, cartVars, tables, history
<1>4. ASSUME NEW o \in Order, NEW mine \in mailed, UseCode(o, mine)
      PROVE  OrderInv'
  <2>0. mine \in Code /\ order[o] \in Attributions /\ UNCHANGED credited
    BY <1>4 DEF CartTypeOK, UseCode, history
  <2>1. CASE mine \in Saved /\ mine \notin used
    <3> DEFINE d == [pc |-> "used", code |-> mine]
    <3>1. order' = [order EXCEPT ![o] = d] /\ used' = used \union {mine}
      BY <1>4, <2>1 DEF UseCode
    <3>2. d.pc = "used" /\ d.code = mine
      OBVIOUS
    <3> HIDE DEF d
    <3>3. order'[o] = d /\ \A p \in Order : p # o => order'[p] = order[p]
      BY <3>1 DEF CartTypeOK
    <3>4. \A p \in Order, code \in Code :
            Owns(p, code)' => Owns(p, code) \/ (p = o /\ code = mine)
      BY <2>0, <3>2, <3>3 DEF Owns
    <3>5. \A p \in Order : ~Owns(p, mine)
      BY <2>0, <2>1 DEF OrderInv
    <3>6. \A p \in Order : order'[p].pc = "used" => order'[p].code \in Code
      BY <2>0, <3>2, <3>3 DEF OrderInv
    <3>7. \A p \in Order, code \in Code : Owns(p, code)' => code \in used'
      BY <3>1, <3>4 DEF OrderInv
    <3>8. \A p, q \in Order, code \in Code :
            Owns(p, code)' /\ Owns(q, code)' => p = q
      BY <3>4, <3>5 DEF OrderInv
    <3> QED BY <3>6, <3>7, <3>8 DEF OrderInv
  <2>2. CASE ~(mine \in Saved /\ mine \notin used)
    <3>1. order' = [order EXCEPT ![o].pc = "done"] /\ UNCHANGED used
      BY <1>4, <2>2 DEF UseCode
    <3>2. /\ order'[o].pc # "used"
          /\ \A p \in Order : p # o => order'[p] = order[p]
      BY <3>1 DEF CartTypeOK, Attributions
    <3> QED BY <2>0, <3>1, <3>2 DEF OrderInv, Owns
  <2> QED BY <2>1, <2>2
<1>5. ASSUME NEW o \in Order, RecoverCheckout(o)
      PROVE  OrderInv'
  <2>1. PICK mine \in Code : mine = order[o].code
    BY <1>5 DEF RecoverCheckout, OrderInv
  <2>2. /\ order[o].pc = "used" /\ order' = [order EXCEPT ![o].pc = "done"]
        /\ credited' = credited \union {<<o, mine>>} /\ UNCHANGED used
    BY <1>5, <2>1 DEF RecoverCheckout
  <2>3. /\ order'[o].pc # "used"
        /\ \A p \in Order : p # o => order'[p] = order[p]
    BY <2>2 DEF CartTypeOK, Attributions
  <2>4. \A p \in Order, code \in Code : Owns(p, code)' => Owns(p, code)
    BY <2>1, <2>2, <2>3 DEF Owns
  <2>5. \A p \in Order : order'[p].pc = "used" => order'[p].code \in Code
    BY <2>3 DEF OrderInv
  <2> QED BY <2>2, <2>4, <2>5 DEF OrderInv
<1>6. ASSUME NEW o \in Order, AttributionDies(o)
      PROVE  OrderInv'
  <2>1. order' = [order EXCEPT ![o].pc = "done"] /\ UNCHANGED <<used, credited>>
    BY <1>6 DEF AttributionDies, tables
  <2>2. /\ order'[o].pc # "used"
        /\ \A p \in Order : p # o => order'[p] = order[p]
    BY <2>1 DEF CartTypeOK, Attributions
  <2> QED BY <2>1, <2>2 DEF OrderInv, Owns
<1> QED BY <1>2, <1>3, <1>4, <1>5, <1>6 DEF CartNext

-----------------------------------------------------------------------------
(* The theorems.                                                            *)

(* The first state satisfies the inductive invariant.                       *)
LEMMA CartStarts ==
  ASSUME CartConstants, CartInit
  PROVE  IInv
<1>1. CartTypeOK
  BY TypeInit
<1>2. ScanInv /\ OrderInv /\ MailedCodesAreSaved /\ RecoveredByCode
  BY DEF CartInit, Idle, ScanInv, Working, OrderInv, Owns, MailedCodesAreSaved,
         RecoveredByCode
<1>3. ASSUME NEW c \in Checkout, NEW k \in Campaign
      PROVE  Fits(c, k)
  <2>1. Mailing(c, k) = {} /\ Recording(c, k) = {}
    BY DEF CartInit, Idle, Mailing, Recording, At
  <2>2. Cardinality(Worker) \in Nat /\ Cardinality({}) = 0
    BY FS_CardinalityType, FS_EmptySet DEF CartConstants
  <2>3. emails[c][k] = 0 /\ faults = 0
    BY DEF CartInit
  <2> QED BY <2>1, <2>2, <2>3 DEF Fits
<1> QED BY <1>1, <1>2, <1>3 DEF IInv, EmailInv

(* Every step keeps the inductive invariant, and every recovery.            *)
LEMMA CartStep ==
  ASSUME CartConstants, IInv, [CartNext]_cartVars
  PROVE  IInv' /\ RecoveredStays
<1>1. CartTypeOK'
  BY TypeStep DEF IInv
<1> QED BY <1>1, ScanStep, EmailStep, OrderStep, MailedStep, RecoveryStep
        DEF IInv

(* What the inductive invariant says of the messages and the credits.       *)
LEMMA CartImplies ==
  ASSUME CartConstants, IInv
  PROVE  CartInvariant
<1>1. EmailsBounded
  <2>1. ASSUME NEW c \in Checkout, NEW k \in Campaign
        PROVE  emails[c][k] <= Cardinality(Worker) + faults
    <3>1. Mailing(c, k) \in SUBSET Worker /\ IsFiniteSet(Worker)
      BY DEF Mailing, At, CartConstants
    <3>2. Cardinality(Mailing(c, k)) \in Nat /\ Cardinality(Worker) \in Nat
      BY <3>1, FS_Subset, FS_CardinalityType
    <3>3. emails[c][k] \in Nat /\ faults \in Nat
      BY DEF IInv, CartTypeOK, CartConstants
    <3>4. Fits(c, k)
      BY DEF IInv, EmailInv
    <3> QED BY <3>2, <3>3, <3>4 DEF Fits
  <2> QED BY <2>1 DEF EmailsBounded
<1>2. OneOrderPerCode
  <2>1. SUFFICES ASSUME NEW o \in Order, NEW p \in Order, NEW code \in Code,
                        <<o, code>> \in credited, <<p, code>> \in credited
                 PROVE  o = p
    BY DEF IInv, CartTypeOK, OneOrderPerCode
  <2> QED BY <2>1 DEF IInv, OrderInv, Owns
<1> QED BY <1>1, <1>2 DEF CartInvariant, IInv

(* The tables, the scans and the attributions keep their types             *)
(* (cart_recovery_exec.go 42-224, cart_recovery_attributor.go 40-130).      *)
THEOREM CartTypes ==
  ASSUME CartConstants
  PROVE  CartSpec => []CartTypeOK
<1>1. CartInit => IInv
  BY CartStarts
<1>2. IInv /\ [CartNext]_cartVars => IInv'
  BY CartStep
<1>3. IInv => CartTypeOK
  BY DEF IInv
<1> QED BY <1>1, <1>2, <1>3, PTL DEF CartSpec

(* However scans overlap, workers die and writes are lost: a campaign mails *)
(* a checkout at most once per worker and fault, every mailed code has its  *)
(* row, one code earns credit for one order, and a recovery takes a used    *)
(* code of the checkout and is never taken back (cart_recovery_exec.go      *)
(* 70-224, cart_recovery_attributor.go 74-92).                              *)
THEOREM CartIsSafe ==
  ASSUME CartConstants
  PROVE  CartSpec => CartSafe
<1>1. CartInit => IInv
  BY CartStarts
<1>2. IInv /\ [CartNext]_cartVars => IInv' /\ RecoveredStays
  BY CartStep
<1>3. IInv => CartInvariant
  BY CartImplies
<1>4. IInv' => CartInvariant'
  BY <1>3, PTL
<1> QED BY <1>1, <1>2, <1>4, PTL DEF CartSpec, CartSafe

(***************************************************************************)
(* A flow that is switched off winds down: what its executions may still   *)
(* send they have read before.                                             *)
(***************************************************************************)
SeedPlace == [pc: {"seed"}, kind: Templates \ {"custom"}]
FlowsPlace == [pc: {"flows"}, key: {"", "dormant"}, entity: {"", "order", "checkout"},
               left: SUBSET Flow]
ActPlace == [pc: {"act"}, flow: Flow, i: Nat \ {0}, key: {"", "dormant"},
             entity: {"", "order", "checkout"}, left: SUBSET Flow]
ExecType == {IdleExec} \cup SeedPlace \cup FlowsPlace \cup ActPlace

FlowsTyped ==
    /\ flows \in [Templates -> Seq({"on", "off"})]
    /\ orderRow \in {"none", "open", "fulfilled"} /\ checkoutRow \in {"none", "open", "ordered"}
    /\ exec \in [Execs -> ExecType] /\ begun \in 0..MaxBegun /\ seeds \in Nat
    /\ afterOff \in [Templates -> Nat] /\ flowFailures \in 0..MaxFlowFailures

\* Slots that are about to create the template.
Seeding(f, t) == {x \in Execs : f[x].pc = "seed" /\ f[x].kind = t}
SeedsInv == \A t \in Templates \ {"custom"} :
    Len(flows[t]) + Cardinality(Seeding(exec, t)) <= 1 + seeds

\* The mails of a kind of flow that its executions may still send, each with the slot
\* and the flow.
Mails(t) == {i \in DOMAIN Actions[t] : Actions[t][i] = ""}
AllMails(t) == (Execs \X (1..Copies)) \X Mails(t)
Reads(r, t, n) == r.pc \in {"flows", "act"} /\ <<t, n>> \in r.left
Acts(r, t, n, i) == r.pc = "act" /\ r.flow = <<t, n>> /\ r.i <= i
ToSend(f, t) == {m \in AllMails(t) : \/ Reads(f[m[1][1]], t, m[1][2])
                                     \/ Acts(f[m[1][1]], t, m[1][2], m[2])}
WindsInv == \A t \in Templates :
    /\ afterOff[t] + Cardinality(ToSend(exec, t)) <= Cardinality(AllMails(t))
    /\ ~AllOff(t) => afterOff[t] = 0
\* A flow is run once by an execution.
OnceInv == \A x \in Execs : exec[x].pc = "act" => exec[x].flow \notin exec[x].left

FlowsInv == FlowsTyped /\ SeedsInv /\ WindsInv /\ OnceInv

LEMMA MailsType ==
    ASSUME FlowsConstants, NEW t \in Templates
    PROVE  /\ Mails(t) \subseteq 1..3 /\ Mails(t) \subseteq Nat \ {0}
           /\ \A i \in DOMAIN Actions[t] : Actions[t][i] = "" => i \in Mails(t)
<1>1. t \in {"welcome", "abandoned_cart", "repurchase", "dormant_wakeup", "logistics_care",
             "custom"}
  BY DEF FlowsConstants, GetTemplates
<1>2. /\ GetTemplates["welcome"].mails = <<"", "", "">>
      /\ GetTemplates["abandoned_cart"].mails = <<"", "", "">>
      /\ GetTemplates["repurchase"].mails = <<"">>
      /\ GetTemplates["dormant_wakeup"].mails = <<"", "">>
      /\ GetTemplates["logistics_care"].mails = <<"SHIPPED", "OUT_FOR_DELIVERY", "DELIVERED">>
      /\ GetTemplates["custom"].mails = <<"SHIPPED", "">>
  BY DEF GetTemplates
<1>3. DOMAIN GetTemplates[t].mails \subseteq 1..3
  <2>1. /\ DOMAIN <<"">> \subseteq 1..3 /\ DOMAIN <<"", "">> \subseteq 1..3
        /\ DOMAIN <<"", "", "">> \subseteq 1..3
        /\ DOMAIN <<"SHIPPED", "OUT_FOR_DELIVERY", "DELIVERED">> \subseteq 1..3
        /\ DOMAIN <<"SHIPPED", "">> \subseteq 1..3
    OBVIOUS
  <2> QED BY <1>1, <1>2, <2>1
<1>4. Actions[t] = GetTemplates[t].mails BY DEF Actions
<1>5. Mails(t) \subseteq DOMAIN Actions[t] BY DEF Mails
<1>6. DOMAIN Actions[t] \subseteq 1..3 BY <1>3, <1>4
<1>7. \A i \in DOMAIN Actions[t] : Actions[t][i] = "" => i \in Mails(t) BY DEF Mails
<1>8. 1..3 \subseteq Nat \ {0} OBVIOUS
<1> QED BY <1>5, <1>6, <1>7, <1>8

LEMMA MailsFinite ==
    ASSUME FlowsConstants, NEW t \in Templates
    PROVE  /\ IsFiniteSet(AllMails(t)) /\ Cardinality(AllMails(t)) \in Nat
           /\ Cardinality(AllMails(t)) = Cardinality(Execs) * Copies * Cardinality(Mails(t))
<1>1. IsFiniteSet(Execs) /\ Copies \in Nat BY DEF FlowsConstants
<1>2. IsFiniteSet(1..Copies) /\ Cardinality(1..Copies) = Copies BY <1>1, FS_Interval
<1>3. IsFiniteSet(Mails(t))
  <2>1. \A n \in Nat : IsFiniteSet(1..n) BY FS_Interval
  <2> QED BY <2>1, MailsType, FS_Subset
<1>4. /\ IsFiniteSet(Execs \X (1..Copies))
      /\ Cardinality(Execs \X (1..Copies)) = Cardinality(Execs) * Cardinality(1..Copies)
  BY <1>1, <1>2, FS_Product
<1>5. /\ IsFiniteSet(AllMails(t))
      /\ Cardinality(AllMails(t)) = Cardinality(Execs \X (1..Copies)) * Cardinality(Mails(t))
  BY <1>3, <1>4, FS_Product DEF AllMails
<1> QED BY <1>2, <1>4, <1>5, FS_CardinalityType

\* Fewer mails to send are no more.
LEMMA FewerToSend ==
    ASSUME FlowsConstants, NEW t \in Templates, NEW f, NEW g, ToSend(g, t) \subseteq ToSend(f, t)
    PROVE  /\ Cardinality(ToSend(f, t)) \in Nat /\ Cardinality(ToSend(g, t)) \in Nat
           /\ Cardinality(ToSend(g, t)) <= Cardinality(ToSend(f, t))
           /\ Cardinality(ToSend(f, t)) <= Cardinality(AllMails(t))
           /\ \A m \in ToSend(f, t) : m \notin ToSend(g, t) =>
                 Cardinality(ToSend(g, t)) + 1 <= Cardinality(ToSend(f, t))
<1>1. ToSend(f, t) \subseteq AllMails(t) BY DEF ToSend
<1>2. IsFiniteSet(ToSend(f, t)) BY <1>1, MailsFinite, FS_Subset
<1>3. IsFiniteSet(ToSend(g, t)) BY <1>2, FS_Subset
<1>4. /\ Cardinality(ToSend(g, t)) <= Cardinality(ToSend(f, t))
      /\ Cardinality(ToSend(f, t)) <= Cardinality(AllMails(t))
      /\ Cardinality(ToSend(f, t)) \in Nat /\ Cardinality(ToSend(g, t)) \in Nat
  BY <1>1, <1>2, <1>3, MailsFinite, FS_Subset, FS_CardinalityType
<1>5. ASSUME NEW m \in ToSend(f, t), m \notin ToSend(g, t)
      PROVE  Cardinality(ToSend(g, t)) + 1 <= Cardinality(ToSend(f, t))
  <2>1. Cardinality(ToSend(g, t) \cup {m}) = Cardinality(ToSend(g, t)) + 1
    BY <1>3, <1>5, FS_AddElement
  <2>2. ToSend(g, t) \cup {m} \subseteq ToSend(f, t) BY <1>5
  <2>3. Cardinality(ToSend(g, t) \cup {m}) <= Cardinality(ToSend(f, t)) BY <1>2, <2>2, FS_Subset
  <2> QED BY <2>1, <2>3
<1> QED BY <1>4, <1>5

LEMMA SeedingFinite ==
    ASSUME FlowsConstants, NEW f, NEW t
    PROVE  IsFiniteSet(Seeding(f, t)) /\ Cardinality(Seeding(f, t)) \in Nat
BY FS_Subset, FS_CardinalityType DEF FlowsConstants, Seeding

LEMMA FlowsInitSatisfies == ASSUME FlowsConstants, FlowsInit PROVE FlowsInv
<1>1. FlowsTyped
  BY DEF FlowsConstants, FlowsInit, FlowsTyped, ExecType
<1>2. SeedsInv
  <2>1. \A t : Seeding(exec, t) = {} BY DEF FlowsInit, IdleExec, Seeding
  <2>2. Cardinality({}) = 0 BY FS_EmptySet
  <2>3. \A t \in Templates : flows[t] = <<>> /\ seeds = 0 BY DEF FlowsInit
  <2>4. Len(<<>>) = 0 OBVIOUS
  <2>5. ASSUME NEW t \in Templates
        PROVE  Len(flows[t]) + Cardinality(Seeding(exec, t)) <= 1 + seeds
    <3>1. Cardinality(Seeding(exec, t)) = 0 BY <2>1, <2>2
    <3> QED BY <2>3, <2>4, <3>1
  <2> QED BY <2>5 DEF SeedsInv
<1>3. WindsInv
  <2>1. \A t \in Templates : ToSend(exec, t) = {}
    BY DEF FlowsInit, IdleExec, ToSend, Reads, Acts, AllMails
  <2>2. \A t \in Templates : AllOff(t) /\ afterOff[t] = 0 BY DEF FlowsInit, AllOff
  <2> QED BY <2>1, <2>2, MailsFinite, FS_EmptySet DEF WindsInv
<1> QED BY <1>1, <1>2, <1>3 DEF FlowsInv, FlowsInit, OnceInv, IdleExec

-----------------------------------------------------------------------------
(* Executions.                                                              *)

\* What a slot may send after a step it could send before.
NoMoreOf(old, new, t) == \A n \in 1..Copies : \A i \in Mails(t) :
    Reads(new, t, n) \/ Acts(new, t, n, i) => Reads(old, t, n) \/ Acts(old, t, n, i)
NoMore(old, new) == \A t \in Templates : NoMoreOf(old, new, t)
Runs(r) == r.pc \in {"idle", "flows", "act"} /\ (r.pc = "act" => r.flow \notin r.left)

Moves(x, e) == /\ exec' = [exec EXCEPT ![x] = e] /\ exec[x].pc # "seed"
               /\ Runs(e) /\ NoMore(exec[x], e)

LEMMA KindToSend ==
    ASSUME FlowsConstants, exec \in [Execs -> ExecType], NEW x \in Execs, NEW e \in ExecType,
           exec' = [exec EXCEPT ![x] = e], NEW t \in Templates, NoMoreOf(exec[x], e, t)
    PROVE  ToSend(exec', t) \subseteq ToSend(exec, t)
<1>1. ASSUME NEW m \in ToSend(exec', t) PROVE m \in ToSend(exec, t)
  <2>1. PICK y \in Execs, n \in 1..Copies, i \in Mails(t) : m = <<<<y, n>>, i>>
    BY DEF ToSend, AllMails
  <2>2. m \in AllMails(t) BY <2>1 DEF AllMails
  <2>3. Reads(exec'[y], t, n) \/ Acts(exec'[y], t, n, i) BY <2>1 DEF ToSend
  <2>4. Reads(exec[y], t, n) \/ Acts(exec[y], t, n, i)
    <3>1. CASE y = x
      <4>1. exec'[x] = e OBVIOUS
      <4> QED BY <2>3, <3>1, <4>1 DEF NoMoreOf
    <3>2. CASE y # x
      <4>1. exec'[y] = exec[y] BY <3>2
      <4> QED BY <2>3, <4>1
    <3> QED BY <3>1, <3>2
  <2> QED BY <2>1, <2>2, <2>4 DEF ToSend
<1> QED BY <1>1

LEMMA SlotToSend ==
    ASSUME FlowsConstants, exec \in [Execs -> ExecType], NEW x \in Execs, NEW e \in ExecType,
           exec' = [exec EXCEPT ![x] = e], NoMore(exec[x], e)
    PROVE  \A t \in Templates : ToSend(exec', t) \subseteq ToSend(exec, t)
<1>1. \A t \in Templates : NoMoreOf(exec[x], e, t) BY DEF NoMore
<1> QED BY <1>1, KindToSend

\* The slot goes on with an execution that was begun.
LEMMA SlotRuns ==
    ASSUME FlowsConstants, FlowsInv, NEW x \in Execs, NEW e \in ExecType,
           exec' = [exec EXCEPT ![x] = e], exec[x].pc # "seed", Runs(e), NoMore(exec[x], e),
           UNCHANGED <<flows, flowDataVars>>, flowFailures' \in 0..MaxFlowFailures
    PROVE  /\ afterOff' = afterOff => FlowsInv'
           /\ FlowsTyped /\ SeedsInv' /\ OnceInv'
           /\ \A t \in Templates : /\ ToSend(exec', t) \subseteq ToSend(exec, t)
                                  /\ AllOff(t)' = AllOff(t)
<1>0. FlowsTyped /\ SeedsInv /\ WindsInv /\ OnceInv BY DEF FlowsInv
<1>1. exec \in [Execs -> ExecType] /\ exec' \in [Execs -> ExecType] /\ exec'[x] = e
      /\ \A y \in Execs \ {x} : exec'[y] = exec[y]
  BY <1>0 DEF FlowsTyped
<1>2. \A t \in Templates : ToSend(exec', t) \subseteq ToSend(exec, t) BY <1>1, SlotToSend
<1>3. SeedsInv'
  <2>1. \A t : Seeding(exec', t) = Seeding(exec, t) BY <1>1 DEF Seeding, Runs
  <2> QED BY <1>0, <2>1 DEF SeedsInv, flowDataVars
<1>4. OnceInv' BY <1>0, <1>1 DEF OnceInv, Runs
<1>5. \A t \in Templates : AllOff(t)' = AllOff(t) BY DEF AllOff
<1>6. ASSUME afterOff' = afterOff PROVE FlowsInv'
  <2>1. FlowsTyped' BY <1>0, <1>1, <1>6 DEF FlowsTyped, flowDataVars, rowVars
  <2>2. ASSUME NEW t \in Templates
        PROVE  /\ afterOff'[t] + Cardinality(ToSend(exec', t)) <= Cardinality(AllMails(t))
               /\ ~AllOff(t)' => afterOff'[t] = 0
    <3>1. /\ Cardinality(ToSend(exec, t)) \in Nat /\ Cardinality(ToSend(exec', t)) \in Nat
          /\ Cardinality(ToSend(exec', t)) <= Cardinality(ToSend(exec, t))
      BY <1>2, FewerToSend
    <3>2. afterOff[t] \in Nat /\ Cardinality(AllMails(t)) \in Nat BY <1>0, MailsFinite DEF FlowsTyped
    <3> QED BY <1>0, <1>5, <1>6, <3>1, <3>2 DEF WindsInv
  <2> QED BY <1>3, <1>4, <2>1, <2>2 DEF FlowsInv, WindsInv
<1> QED BY <1>0, <1>2, <1>3, <1>4, <1>5, <1>6

LEMMA Places ==
    ASSUME NEW r \in ExecType
    PROVE  /\ r.pc = "seed" => r \in SeedPlace
           /\ r.pc = "flows" => r \in FlowsPlace
           /\ r.pc = "act" => r \in ActPlace
           /\ r.pc = "idle" => r = IdleExec
           /\ r.pc \in {"idle", "seed", "flows", "act"}
<1>1. IdleExec.pc = "idle" BY DEF IdleExec
<1>2. \A q \in SeedPlace : q.pc = "seed" BY DEF SeedPlace
<1>3. \A q \in FlowsPlace : q.pc = "flows" BY DEF FlowsPlace
<1>4. \A q \in ActPlace : q.pc = "act" BY DEF ActPlace
<1>5. r = IdleExec \/ r \in SeedPlace \/ r \in FlowsPlace \/ r \in ActPlace BY DEF ExecType
<1> QED BY <1>1, <1>2, <1>3, <1>4, <1>5

LEMMA FlowPairs ==
    ASSUME NEW f \in Flow
    PROVE  f[1] \in Templates /\ f[2] \in 1..Copies /\ f = <<f[1], f[2]>>
BY DEF Flow

LEMMA NextAction ==
    ASSUME NEW r \in ActPlace
    PROVE  LET e == [r EXCEPT !.i = @ + 1]
           IN  /\ e \in ExecType /\ e.pc = "act" /\ e.flow = r.flow /\ e.left = r.left
               /\ e.i = r.i + 1 /\ r.i <= r.i /\ ~(e.i <= r.i)
               /\ \A j \in Nat : e.i <= j => r.i <= j
<1> DEFINE e == [r EXCEPT !.i = r.i + 1]
<1>1. r.i \in Nat \ {0} BY DEF ActPlace
<1>2. r.i + 1 \in Nat \ {0} BY <1>1
<1>3. e \in ActPlace /\ e.pc = "act" /\ e.flow = r.flow /\ e.left = r.left /\ e.i = r.i + 1
  BY <1>2 DEF ActPlace
<1>4. r.i <= r.i /\ ~(r.i + 1 <= r.i) /\ \A j \in Nat : r.i + 1 <= j => r.i <= j BY <1>1
<1> QED BY <1>3, <1>4 DEF ExecType

\* A step that sends a mail takes it from what was to be sent.
LEMMA ActSendsKeeps ==
    ASSUME FlowsConstants, FlowsInv, NEW x \in Execs, ActSends(x) PROVE FlowsInv'
<1>0. FlowsTyped /\ SeedsInv /\ WindsInv /\ OnceInv BY DEF FlowsInv
<1>1. /\ exec[x] \in ActPlace /\ exec[x].pc = "act" /\ exec[x].flow \in Flow
      /\ exec[x].i \in Nat \ {0} /\ exec[x].left \subseteq Flow
      /\ exec[x].i \in DOMAIN Actions[exec[x].flow[1]]
      /\ Actions[exec[x].flow[1]][exec[x].i] = ""
  <2>1. exec[x] \in ActPlace BY <1>0, Places DEF ActSends, FlowsTyped
  <2> QED BY <2>1 DEF ActSends, Matches, ActPlace
<1> DEFINE e == [exec[x] EXCEPT !.i = @ + 1]
<1>2. /\ e \in ExecType /\ e.pc = "act" /\ e.flow = exec[x].flow /\ e.left = exec[x].left
      /\ exec[x].i <= exec[x].i /\ ~(e.i <= exec[x].i)
      /\ \A j \in Nat : e.i <= j => exec[x].i <= j
      /\ exec' = [exec EXCEPT ![x] = e]
  <2>1. exec' = [exec EXCEPT ![x] = e] BY DEF ActSends
  <2> QED BY <1>1, <2>1, NextAction
<1> HIDE DEF e
<1>3. Runs(e) BY <1>0, <1>1, <1>2 DEF Runs, OnceInv
<1>4. NoMore(exec[x], e)
  <2>1. ASSUME NEW t \in Templates, NEW n \in 1..Copies, NEW i \in Mails(t),
               Reads(e, t, n) \/ Acts(e, t, n, i)
        PROVE  Reads(exec[x], t, n) \/ Acts(exec[x], t, n, i)
    <3>1. i \in Nat BY MailsType
    <3>2. e.i <= i => exec[x].i <= i BY <1>1, <1>2, <3>1
    <3> QED BY <1>1, <1>2, <2>1, <3>2 DEF Reads, Acts
  <2> QED BY <2>1 DEF NoMore, NoMoreOf
<1>5. PICK t \in Templates, n \in 1..Copies : exec[x].flow = <<t, n>> BY <1>1, FlowPairs
<1>6. /\ UNCHANGED <<flows, flowDataVars, flowFailures>>
      /\ afterOff' = [afterOff EXCEPT ![t] = IF AllOff(t) THEN afterOff[t] + 1 ELSE 0]
  BY <1>5 DEF ActSends
<1>7. /\ SeedsInv' /\ OnceInv'
      /\ \A u \in Templates : /\ ToSend(exec', u) \subseteq ToSend(exec, u)
                             /\ AllOff(u)' = AllOff(u)
  <2>1. flowFailures' \in 0..MaxFlowFailures /\ exec[x].pc # "seed" BY <1>0, <1>1, <1>6 DEF FlowsTyped
  <2> QED BY <1>2, <1>3, <1>4, <1>6, <2>1, SlotRuns
<1>8. FlowsTyped' BY <1>0, <1>2, <1>6 DEF FlowsTyped, flowDataVars, rowVars
<1>9. Cardinality(ToSend(exec', t)) + 1 <= Cardinality(ToSend(exec, t))
  <2>1. exec[x].i \in Mails(t) /\ Mails(t) \subseteq Nat
    <3>1. exec[x].flow[1] = t BY <1>5
    <3> QED BY <1>1, <3>1, MailsType
  <2>2. <<<<x, n>>, exec[x].i>> \in ToSend(exec, t)
    <3>1. <<<<x, n>>, exec[x].i>> \in AllMails(t) BY <2>1 DEF AllMails
    <3>2. Acts(exec[x], t, n, exec[x].i) BY <1>1, <1>2, <1>5 DEF Acts
    <3> QED BY <3>1, <3>2 DEF ToSend
  <2>3. exec'[x] = e BY <1>0, <1>2 DEF FlowsTyped
  <2>4. <<<<x, n>>, exec[x].i>> \notin ToSend(exec', t)
    <3>1. ~Reads(e, t, n) BY <1>2, <1>3, <1>5 DEF Reads, Runs
    <3>2. ~Acts(e, t, n, exec[x].i) BY <1>2, <2>1 DEF Acts
    <3> QED BY <2>3, <3>1, <3>2 DEF ToSend
  <2> QED BY <1>7, <2>2, <2>4, FewerToSend
<1>10. ASSUME NEW u \in Templates
       PROVE  /\ afterOff'[u] + Cardinality(ToSend(exec', u)) <= Cardinality(AllMails(u))
              /\ ~AllOff(u)' => afterOff'[u] = 0
  <2>1. /\ Cardinality(ToSend(exec, u)) \in Nat /\ Cardinality(ToSend(exec', u)) \in Nat
        /\ Cardinality(ToSend(exec', u)) <= Cardinality(ToSend(exec, u))
    BY <1>7, FewerToSend
  <2>2. /\ afterOff[u] \in Nat /\ Cardinality(AllMails(u)) \in Nat
        /\ afterOff \in [Templates -> Nat]
    BY <1>0, MailsFinite DEF FlowsTyped
  <2>3. /\ afterOff[u] + Cardinality(ToSend(exec, u)) <= Cardinality(AllMails(u))
        /\ ~AllOff(u) => afterOff[u] = 0
    BY <1>0 DEF WindsInv
  <2>4. CASE u = t
    <3>1. afterOff'[u] = IF AllOff(u) THEN afterOff[u] + 1 ELSE 0 BY <1>6, <2>2, <2>4
    <3> QED BY <1>7, <1>9, <2>1, <2>2, <2>3, <2>4, <3>1
  <2>5. CASE u # t BY <1>6, <1>7, <2>1, <2>2, <2>3, <2>5
  <2> QED BY <2>4, <2>5
<1> QED BY <1>7, <1>8, <1>10 DEF FlowsInv, WindsInv

LEMMA ExecutionsKeep ==
    ASSUME FlowsConstants, FlowsInv, NEW x \in Execs,
           \/ \E f \in Flow : ExecuteFlow(x, f)
           \/ ActSkips(x) \/ ActSends(x) \/ ActFails(x) \/ FlowEnds(x) \/ ExecEnds(x)
    PROVE  FlowsInv'
<1>0. FlowsTyped /\ OnceInv BY DEF FlowsInv
<1>1. exec[x] \in ExecType /\ flowFailures \in 0..MaxFlowFailures /\ MaxFlowFailures \in Nat
  BY <1>0 DEF FlowsTyped, FlowsConstants
<1>2. ASSUME NEW e \in ExecType, Moves(x, e), UNCHANGED <<flows, flowDataVars, afterOff>>,
             flowFailures' \in 0..MaxFlowFailures
      PROVE  FlowsInv'
  BY <1>2, SlotRuns DEF Moves
<1>3. ASSUME NEW f \in Flow, ExecuteFlow(x, f) PROVE FlowsInv'
  <2>1. exec[x] \in FlowsPlace /\ f \in exec[x].left
    BY <1>1, <1>3, Places DEF ExecuteFlow
  <2>2. CASE exec' = [exec EXCEPT ![x].left = @ \ {f}]
    <3> DEFINE e == [exec[x] EXCEPT !.left = @ \ {f}]
    <3>1. /\ e \in ExecType /\ e.pc = "flows" /\ e.left = exec[x].left \ {f}
          /\ exec' = [exec EXCEPT ![x] = e]
      BY <2>1, <2>2 DEF ExecType, FlowsPlace
    <3> HIDE DEF e
    <3>2. Runs(e) /\ NoMore(exec[x], e)
      BY <2>1, <3>1 DEF Runs, NoMore, NoMoreOf, Reads, Acts, FlowsPlace
    <3>3. Moves(x, e) BY <2>1, <3>1, <3>2 DEF Moves, FlowsPlace
    <3>4. flowFailures' \in 0..MaxFlowFailures /\ UNCHANGED <<flows, flowDataVars, afterOff>>
      BY <1>1, <1>3 DEF ExecuteFlow
    <3> QED BY <1>2, <3>1, <3>3, <3>4
  <2>3. CASE exec' = [exec EXCEPT ![x] = [pc |-> "act", flow |-> f, i |-> 1, key |-> exec[x].key,
                             entity |-> exec[x].entity, left |-> exec[x].left \ {f}]]
    <3> DEFINE e == [pc |-> "act", flow |-> f, i |-> 1, key |-> exec[x].key,
                     entity |-> exec[x].entity, left |-> exec[x].left \ {f}]
    <3>1. /\ e \in ExecType /\ e.pc = "act" /\ e.left = exec[x].left \ {f} /\ e.flow = f
          /\ exec' = [exec EXCEPT ![x] = e]
      <4>1. /\ exec[x].key \in {"", "dormant"} /\ exec[x].entity \in {"", "order", "checkout"}
            /\ exec[x].left \in SUBSET Flow
        BY <2>1 DEF FlowsPlace
      <4>2. exec[x].left \ {f} \in SUBSET Flow BY <4>1
      <4>4. 1 \in Nat \ {0} OBVIOUS
      <4>3. e \in ActPlace BY <4>1, <4>2, <4>4 DEF ActPlace
      <4> QED BY <2>3, <4>3 DEF ExecType
    <3> HIDE DEF e
    <3>2. Runs(e) /\ NoMore(exec[x], e)
      BY <2>1, <3>1 DEF Runs, NoMore, NoMoreOf, Reads, Acts, FlowsPlace
    <3>3. Moves(x, e) BY <2>1, <3>1, <3>2 DEF Moves, FlowsPlace
    <3>4. flowFailures' \in 0..MaxFlowFailures /\ UNCHANGED <<flows, flowDataVars, afterOff>>
      BY <1>1, <1>3 DEF ExecuteFlow
    <3> QED BY <1>2, <3>1, <3>3, <3>4
  <2> QED BY <1>3, <2>2, <2>3 DEF ExecuteFlow
<1>4. CASE ActSkips(x)
  <2>1. exec[x] \in ActPlace /\ exec[x].pc = "act" /\ exec[x].i \in Nat
    BY <1>1, <1>4, Places DEF ActSkips, ActPlace
  <2> DEFINE e == [exec[x] EXCEPT !.i = @ + 1]
  <2>2. /\ e \in ExecType /\ e.pc = "act" /\ e.flow = exec[x].flow /\ e.left = exec[x].left
        /\ \A j \in Nat : e.i <= j => exec[x].i <= j
        /\ exec' = [exec EXCEPT ![x] = e]
    <3>1. exec' = [exec EXCEPT ![x] = e] BY <1>4 DEF ActSkips
    <3> QED BY <2>1, <3>1, NextAction
  <2> HIDE DEF e
  <2>3. NoMore(exec[x], e)
    <3>1. ASSUME NEW t \in Templates, NEW n \in 1..Copies, NEW i \in Mails(t),
                 Reads(e, t, n) \/ Acts(e, t, n, i)
          PROVE  Reads(exec[x], t, n) \/ Acts(exec[x], t, n, i)
      <4>1. i \in Nat BY MailsType
      <4>2. e.i <= i => exec[x].i <= i BY <2>1, <2>2, <4>1
      <4> QED BY <2>1, <2>2, <3>1, <4>2 DEF Reads, Acts
    <3> QED BY <3>1 DEF NoMore, NoMoreOf
  <2>4. Runs(e) BY <1>0, <2>1, <2>2 DEF Runs, OnceInv
  <2>5. Moves(x, e) BY <2>1, <2>2, <2>3, <2>4 DEF Moves
  <2>6. flowFailures' \in 0..MaxFlowFailures /\ UNCHANGED <<flows, flowDataVars, afterOff>>
    BY <1>1, <1>4 DEF ActSkips
  <2> QED BY <1>2, <2>2, <2>5, <2>6
<1>5. CASE ActFails(x) \/ FlowEnds(x)
  <2>1. exec[x] \in ActPlace BY <1>1, <1>5, Places DEF ActFails, FlowEnds
  <2> DEFINE e == Resume(x)
  <2>2. /\ e \in ExecType /\ e.pc = "flows" /\ e.left = exec[x].left
        /\ exec' = [exec EXCEPT ![x] = e]
    BY <1>5, <2>1 DEF ExecType, ActPlace, FlowsPlace, Resume, ActFails, FlowEnds
  <2> HIDE DEF e
  <2>3. Runs(e) /\ NoMore(exec[x], e) BY <2>1, <2>2 DEF Runs, NoMore, NoMoreOf, Reads, Acts, ActPlace
  <2>4. flowFailures' \in 0..MaxFlowFailures /\ UNCHANGED <<flows, flowDataVars, afterOff>>
    BY <1>1, <1>5 DEF ActFails, FlowEnds
  <2>5. Moves(x, e) BY <2>1, <2>2, <2>3 DEF Moves, ActPlace
  <2> QED BY <1>2, <2>2, <2>4, <2>5
<1>6. CASE ExecEnds(x)
  <2>1. Runs(IdleExec) /\ NoMore(exec[x], IdleExec) /\ IdleExec \in ExecType
    BY DEF Runs, NoMore, NoMoreOf, Reads, Acts, IdleExec, ExecType
  <2>2. Moves(x, IdleExec) BY <1>6, <2>1 DEF Moves, ExecEnds
  <2>3. flowFailures' \in 0..MaxFlowFailures /\ UNCHANGED <<flows, flowDataVars, afterOff>>
    BY <1>1, <1>6 DEF ExecEnds
  <2> QED BY <1>2, <2>1, <2>2, <2>3
<1>7. CASE \E f \in Flow : ExecuteFlow(x, f) BY <1>3, <1>7
<1>8. CASE ActSends(x) BY <1>8, ActSendsKeeps
<1> QED BY <1>4, <1>5, <1>6, <1>7, <1>8

\* What is left to an execution that starts are flows that are on.
Starts(x, e) == /\ exec[x] = IdleExec /\ begun < MaxBegun /\ begun' = begun + 1
                /\ exec' = [exec EXCEPT ![x] = e] /\ e.pc = "flows"
                /\ \A f \in e.left : On(f)
                /\ UNCHANGED <<flows, rowVars, seeds, afterOff, flowFailures>>

\* Of a kind that is all off it takes none, and of the others nothing has been counted.
LEMMA StartKeeps ==
    ASSUME FlowsConstants, FlowsInv, NEW x \in Execs, NEW e \in ExecType, Starts(x, e)
    PROVE  FlowsInv'
<1>0. FlowsTyped /\ SeedsInv /\ WindsInv /\ OnceInv BY DEF FlowsInv
<1>1. e.pc = "flows" /\ \A f \in e.left : On(f) BY DEF Starts
<1>2. /\ exec' = [exec EXCEPT ![x] = e] /\ exec[x].pc = "idle" /\ begun' \in 0..MaxBegun
      /\ UNCHANGED <<flows, orderRow, checkoutRow, seeds, afterOff, flowFailures>>
  <2>1. begun \in 0..MaxBegun /\ MaxBegun \in Nat BY <1>0 DEF FlowsTyped, FlowsConstants
  <2>2. begun < MaxBegun /\ begun' = begun + 1 BY DEF Starts
  <2>3. begun' \in 0..MaxBegun BY <2>1, <2>2
  <2> QED BY <2>3 DEF Starts, IdleExec, rowVars
<1>3. /\ exec' \in [Execs -> ExecType] /\ exec'[x] = e
      /\ \A y \in Execs \ {x} : exec'[y] = exec[y]
  BY <1>0, <1>1, <1>2 DEF FlowsTyped
<1>4. FlowsTyped' BY <1>0, <1>2, <1>3 DEF FlowsTyped
<1>5. SeedsInv'
  <2>1. \A t : Seeding(exec', t) = Seeding(exec, t) BY <1>1, <1>2, <1>3 DEF Seeding
  <2> QED BY <1>0, <1>2, <2>1 DEF SeedsInv
<1>6. OnceInv' BY <1>0, <1>1, <1>3 DEF OnceInv
<1>7. \A t \in Templates : AllOff(t)' = AllOff(t) BY <1>2 DEF AllOff
<1>8. ASSUME NEW t \in Templates
      PROVE  /\ afterOff'[t] + Cardinality(ToSend(exec', t)) <= Cardinality(AllMails(t))
             /\ ~AllOff(t)' => afterOff'[t] = 0
  <2>1. afterOff[t] \in Nat /\ Cardinality(AllMails(t)) \in Nat BY <1>0, MailsFinite DEF FlowsTyped
  <2>2. CASE AllOff(t)
    <3>1. \A n \in 1..Copies : ~Reads(e, t, n)
      <4>1. ASSUME NEW n \in 1..Copies, Reads(e, t, n) PROVE FALSE
        <5>1. On(<<t, n>>) BY <1>1, <4>1 DEF Reads
        <5>2. n \in DOMAIN flows[t] /\ flows[t][n] = "on" BY <5>1 DEF On
        <5> QED BY <2>2, <5>2 DEF AllOff
      <4> QED BY <4>1
    <3>2. NoMoreOf(exec[x], e, t) BY <1>1, <3>1 DEF NoMoreOf, Acts
    <3>3. ToSend(exec', t) \subseteq ToSend(exec, t) BY <1>0, <1>1, <1>2, <3>2, KindToSend DEF FlowsTyped
    <3>4. /\ Cardinality(ToSend(exec, t)) \in Nat /\ Cardinality(ToSend(exec', t)) \in Nat
          /\ Cardinality(ToSend(exec', t)) <= Cardinality(ToSend(exec, t))
      BY <3>3, FewerToSend
    <3>5. afterOff[t] + Cardinality(ToSend(exec, t)) <= Cardinality(AllMails(t))
      BY <1>0 DEF WindsInv
    <3>6. afterOff'[t] = afterOff[t] BY <1>2
    <3>7. afterOff[t] + Cardinality(ToSend(exec', t)) <= Cardinality(AllMails(t))
      <4>1. \A a, b, c, d \in Nat : c <= b /\ a + b <= d => a + c <= d OBVIOUS
      <4> QED BY <2>1, <3>4, <3>5, <4>1
    <3>8. AllOff(t)' BY <1>7, <2>2
    <3> QED BY <3>6, <3>7, <3>8
  <2>3. CASE ~AllOff(t)
    <3>1. afterOff[t] = 0 BY <1>0, <2>3 DEF WindsInv
    <3>2. /\ Cardinality(ToSend(exec', t)) \in Nat
          /\ Cardinality(ToSend(exec', t)) <= Cardinality(AllMails(t))
      <4>1. ToSend(exec', t) \subseteq ToSend(exec', t) OBVIOUS
      <4> QED BY <4>1, FewerToSend
    <3>3. afterOff'[t] = 0 BY <1>2, <3>1
    <3>4. 0 + Cardinality(ToSend(exec', t)) <= Cardinality(AllMails(t)) BY <2>1, <3>2
    <3> QED BY <3>3, <3>4
  <2> QED BY <2>2, <2>3
<1> QED BY <1>4, <1>5, <1>6, <1>8 DEF FlowsInv, WindsInv

Started(trigger, key, entity) ==
    [pc |-> "flows", key |-> key, entity |-> entity,
     left |-> {f \in Flow : Trigger[f[1]] = trigger /\ On(f)}]

LEMMA TriggersKeep ==
    ASSUME FlowsConstants, FlowsInv, NEW x \in Execs,
           \/ HandleOrderCreated(x) \/ HandleOrderUpdated(x) \/ HandleCheckoutSynced(x)
           \/ ScanDormantCustomers(x)
    PROVE  FlowsInv'
<1> DEFINE P(trigger, key, entity) == TriggerFlow(x, trigger, key, entity)
<1>1. \/ P("order.created", "", "order") \/ P("order.fulfilled", "", "order")
      \/ P("checkout.abandoned", "", "checkout") \/ P("customer.dormant", "dormant", "")
  BY DEF HandleOrderCreated, HandleOrderUpdated, HandleCheckoutSynced, ScanDormantCustomers
<1>2. UNCHANGED <<orderRow, checkoutRow>>
  BY DEF HandleOrderCreated, HandleOrderUpdated, HandleCheckoutSynced, ScanDormantCustomers,
         TriggerFlow, rowVars
<1>3. \A trigger, key, entity : P(trigger, key, entity) => Starts(x, Started(trigger, key, entity))
  BY DEF TriggerFlow, Starts, Started
<1>4. \A trigger : /\ Started(trigger, "", "order") \in ExecType
                   /\ Started(trigger, "", "checkout") \in ExecType
                   /\ Started(trigger, "dormant", "") \in ExecType
  BY DEF Started, ExecType, FlowsPlace
<1> HIDE DEF P
<1>5. PICK e \in ExecType : Starts(x, e) BY <1>1, <1>3, <1>4
<1> QED BY <1>5, StartKeeps

-----------------------------------------------------------------------------
(* Flows.                                                                   *)

\* A change to the flows of one kind resets what was sent since they were off.
LEMMA FlowsChange ==
    ASSUME FlowsConstants, FlowsInv, NEW k \in Templates, NEW q \in Seq({"on", "off"}),
           flows' = [flows EXCEPT ![k] = q], afterOff' = [afterOff EXCEPT ![k] = 0],
           UNCHANGED <<rowVars, begun, flowFailures>>, seeds' = seeds,
           exec' \in [Execs -> ExecType],
           \A x \in Execs : exec'[x] = exec[x] \/ exec'[x] = IdleExec,
           k \in Templates \ {"custom"} => 
               Len(q) + Cardinality(Seeding(exec', k)) <= 1 + seeds
    PROVE  FlowsInv'
<1>0. FlowsTyped /\ SeedsInv /\ WindsInv /\ OnceInv BY DEF FlowsInv
<1>1. FlowsTyped' BY <1>0 DEF FlowsTyped, rowVars
<1>2. SeedsInv'
  <2>1. ASSUME NEW t \in Templates \ {"custom"}
        PROVE  Len(flows'[t]) + Cardinality(Seeding(exec', t)) <= 1 + seeds'
    <3>1. CASE t = k BY <1>0, <3>1 DEF FlowsTyped
    <3>2. CASE t # k
      <4>1. Seeding(exec', t) \subseteq Seeding(exec, t) BY DEF Seeding, IdleExec
      <4>2. /\ IsFiniteSet(Seeding(exec, t)) /\ Cardinality(Seeding(exec, t)) \in Nat
            /\ Cardinality(Seeding(exec', t)) \in Nat
        BY SeedingFinite
      <4>3. Cardinality(Seeding(exec', t)) <= Cardinality(Seeding(exec, t)) BY <4>1, <4>2, FS_Subset
      <4>4. Len(flows[t]) + Cardinality(Seeding(exec, t)) <= 1 + seeds BY <1>0 DEF SeedsInv
      <4>5. flows'[t] = flows[t] /\ Len(flows[t]) \in Nat /\ seeds \in Nat
        BY <1>0, <3>2 DEF FlowsTyped
      <4> QED BY <4>2, <4>3, <4>4, <4>5
    <3> QED BY <3>1, <3>2
  <2> QED BY <2>1 DEF SeedsInv
<1>3. OnceInv' BY <1>0 DEF OnceInv, IdleExec
<1>4. ASSUME NEW t \in Templates
      PROVE  /\ afterOff'[t] + Cardinality(ToSend(exec', t)) <= Cardinality(AllMails(t))
             /\ ~AllOff(t)' => afterOff'[t] = 0
  <2>1. ToSend(exec', t) \subseteq ToSend(exec, t)
    <3>1. ASSUME NEW m \in ToSend(exec', t) PROVE m \in ToSend(exec, t)
      <4>1. m \in AllMails(t) /\ m[1][1] \in Execs BY DEF ToSend, AllMails
      <4>2. exec'[m[1][1]] = exec[m[1][1]] BY <4>1 DEF ToSend, Reads, Acts, IdleExec
      <4> QED BY <4>1, <4>2 DEF ToSend
    <3> QED BY <3>1
  <2>2. /\ Cardinality(ToSend(exec, t)) \in Nat /\ Cardinality(ToSend(exec', t)) \in Nat
        /\ Cardinality(ToSend(exec', t)) <= Cardinality(ToSend(exec, t))
        /\ Cardinality(ToSend(exec, t)) <= Cardinality(AllMails(t))
    BY <2>1, FewerToSend
  <2>3. /\ afterOff[t] \in Nat /\ Cardinality(AllMails(t)) \in Nat /\ afterOff \in [Templates -> Nat]
    BY <1>0, MailsFinite DEF FlowsTyped
  <2>4. CASE t = k
    <3>1. afterOff'[t] = 0 BY <2>3, <2>4
    <3> QED BY <2>2, <2>3, <3>1
  <2>5. CASE t # k
    <3>1. afterOff'[t] = afterOff[t] /\ flows'[t] = flows[t] BY <1>0, <2>5 DEF FlowsTyped
    <3>2. AllOff(t)' = AllOff(t) BY <3>1 DEF AllOff
    <3> QED BY <1>0, <2>2, <2>3, <3>1, <3>2 DEF WindsInv
  <2> QED BY <2>4, <2>5
<1> QED BY <1>1, <1>2, <1>3, <1>4 DEF FlowsInv, WindsInv

LEMMA FlowChangesKeep ==
    ASSUME FlowsConstants, FlowsInv,
           \/ \E x \in Execs : SeedCreate(x)
           \/ \E b \in BOOLEAN : CreateFlow(b) \/ \E f \in Flow : UpdateFlow(f, b)
    PROVE  FlowsInv'
<1>0. FlowsTyped /\ SeedsInv BY DEF FlowsInv
<1>1. ASSUME NEW k \in Templates PROVE flows[k] \in Seq({"on", "off"}) BY <1>0 DEF FlowsTyped
<1>2. ASSUME NEW k \in Templates
      PROVE  /\ Append(flows[k], "on") \in Seq({"on", "off"})
             /\ Len(Append(flows[k], "on")) = Len(flows[k]) + 1 /\ Len(flows[k]) \in Nat
  BY <1>1
<1>3. ASSUME NEW x \in Execs, SeedCreate(x) PROVE FlowsInv'
  <2>1. exec[x] \in SeedPlace BY <1>0, <1>3, Places DEF SeedCreate, FlowsTyped
  <2>2. PICK k \in Templates \ {"custom"} : k = exec[x].kind BY <2>1 DEF SeedPlace
  <2>3. /\ exec' \in [Execs -> ExecType] /\ exec'[x] = IdleExec
        /\ \A y \in Execs \ {x} : exec'[y] = exec[y]
    BY <1>0, <1>3 DEF SeedCreate, FlowsTyped, ExecType
  <2>4. Len(flows[k]) + 1 + Cardinality(Seeding(exec', k)) <= 1 + seeds
    <3>1. Seeding(exec', k) = Seeding(exec, k) \ {x} BY <2>3 DEF Seeding, IdleExec
    <3>2. x \in Seeding(exec, k) BY <1>3, <2>2 DEF Seeding, SeedCreate
    <3>3. Cardinality(Seeding(exec', k)) = Cardinality(Seeding(exec, k)) - 1
      BY <3>1, <3>2, SeedingFinite, FS_RemoveElement
    <3>4. Len(flows[k]) + Cardinality(Seeding(exec, k)) <= 1 + seeds BY <1>0 DEF SeedsInv
    <3>5. Cardinality(Seeding(exec, k)) \in Nat /\ Len(flows[k]) \in Nat /\ seeds \in Nat
      BY <1>0, <1>2, SeedingFinite DEF FlowsTyped
    <3> QED BY <3>3, <3>4, <3>5
  <2>5. /\ flows' = [flows EXCEPT ![k] = Append(flows[k], "on")]
        /\ afterOff' = [afterOff EXCEPT ![k] = 0]
        /\ UNCHANGED <<rowVars, begun, flowFailures>> /\ seeds' = seeds
    BY <1>3, <2>2 DEF SeedCreate, flowDataVars
  <2>6. Len(Append(flows[k], "on")) + Cardinality(Seeding(exec', k)) <= 1 + seeds
    BY <1>2, <2>4
  <2>7. \A y \in Execs : exec'[y] = exec[y] \/ exec'[y] = IdleExec BY <2>3
  <2> QED BY <1>2, <2>3, <2>5, <2>6, <2>7, FlowsChange
<1>4. ASSUME NEW b \in BOOLEAN, CreateFlow(b) PROVE FlowsInv'
  <2>1. /\ "custom" \in Templates
        /\ flows' = [flows EXCEPT !["custom"] = Append(flows["custom"], "on")]
        /\ afterOff' = [afterOff EXCEPT !["custom"] = 0]
        /\ UNCHANGED <<rowVars, begun, flowFailures>> /\ seeds' = seeds /\ exec' = exec
    BY <1>4 DEF CreateFlow
  <2>2. exec' \in [Execs -> ExecType] BY <1>0, <2>1 DEF FlowsTyped
  <2> QED BY <1>2, <2>1, <2>2, FlowsChange
<1>5. ASSUME NEW b \in BOOLEAN, NEW f \in Flow, UpdateFlow(f, b) PROVE FlowsInv'
  <2>1. PICK k \in Templates, n \in 1..Copies : f = <<k, n>> BY FlowPairs
  <2> DEFINE q == [flows[k] EXCEPT ![n] = IF b THEN "on" ELSE "off"]
  <2>2. n \in DOMAIN flows[k] BY <1>5, <2>1 DEF UpdateFlow
  <2>3. /\ flows' = [flows EXCEPT ![k] = q] /\ afterOff' = [afterOff EXCEPT ![k] = 0]
        /\ UNCHANGED <<rowVars, begun, flowFailures>> /\ seeds' = seeds /\ exec' = exec
    BY <1>5, <2>1 DEF UpdateFlow, flowDataVars
  <2>4. q \in Seq({"on", "off"}) /\ Len(q) = Len(flows[k])
    BY <1>1, <2>2
  <2> HIDE DEF q
  <2>5. exec' \in [Execs -> ExecType] BY <1>0, <2>3 DEF FlowsTyped
  <2>6. k \in Templates \ {"custom"} =>
            Len(q) + Cardinality(Seeding(exec', k)) <= 1 + seeds
    BY <1>0, <2>3, <2>4 DEF SeedsInv
  <2> QED BY <2>3, <2>4, <2>5, <2>6, FlowsChange
<1> QED BY <1>3, <1>4, <1>5

\* A server that begins to seed finds no flow, and counts itself if another one seeds.
LEMMA SeedKeeps ==
    ASSUME FlowsConstants, FlowsInv, NEW x \in Execs, NEW k \in Templates, Seed(x, k)
    PROVE  FlowsInv'
<1>0. FlowsTyped /\ SeedsInv /\ WindsInv /\ OnceInv BY DEF FlowsInv
<1> DEFINE e == [pc |-> "seed", kind |-> k]
<1>1. k # "custom" /\ e \in SeedPlace /\ e.pc = "seed" /\ e.kind = k
  BY DEF Seed, SeedPlace
<1>2. /\ exec' = [exec EXCEPT ![x] = e] /\ exec[x] = IdleExec /\ flows[k] = <<>>
      /\ seeds' = IF \E y \in Execs : exec[y] = e THEN seeds + 1 ELSE seeds
      /\ UNCHANGED <<flows, orderRow, checkoutRow, afterOff, flowFailures>>
  BY DEF Seed, rowVars
<1>3. \A r \in SeedPlace : r.kind = k => r = e BY DEF SeedPlace
<1> HIDE DEF e
<1>4. begun' \in 0..MaxBegun
  <2>1. begun \in 0..MaxBegun /\ MaxBegun \in Nat BY <1>0 DEF FlowsTyped, FlowsConstants
  <2>2. begun < MaxBegun /\ begun' = begun + 1 BY DEF Seed
  <2> QED BY <2>1, <2>2
<1>5. e \in ExecType BY <1>1 DEF ExecType
<1>6. /\ exec' \in [Execs -> ExecType] /\ exec'[x] = e
      /\ \A y \in Execs \ {x} : exec'[y] = exec[y]
  BY <1>0, <1>2, <1>5 DEF FlowsTyped
<1>7. seeds \in Nat /\ seeds' \in {seeds, seeds + 1} BY <1>0, <1>2 DEF FlowsTyped
<1>8. FlowsTyped' BY <1>0, <1>2, <1>4, <1>6, <1>7 DEF FlowsTyped
<1>9. SeedsInv'
  <2>1. ASSUME NEW t \in Templates \ {"custom"}
        PROVE  Len(flows'[t]) + Cardinality(Seeding(exec', t)) <= 1 + seeds'
    <3>1. /\ Len(flows[t]) \in Nat /\ Cardinality(Seeding(exec, t)) \in Nat
          /\ IsFiniteSet(Seeding(exec, t))
          /\ Len(flows[t]) + Cardinality(Seeding(exec, t)) <= 1 + seeds
      BY <1>0, SeedingFinite DEF SeedsInv, FlowsTyped
    <3>2. CASE t # k
      <4>1. Seeding(exec', t) = Seeding(exec, t)
        BY <1>1, <1>2, <1>6, <3>2 DEF Seeding, IdleExec
      <4> QED BY <1>2, <1>7, <3>1, <4>1
    <3>3. CASE t = k
      <4>1. Seeding(exec', k) = Seeding(exec, k) \cup {x} /\ x \notin Seeding(exec, k)
        BY <1>1, <1>2, <1>6 DEF Seeding, IdleExec
      <4>2. Cardinality(Seeding(exec', k)) = Cardinality(Seeding(exec, k)) + 1
        BY <3>1, <3>3, <4>1, FS_AddElement
      <4>3. Len(flows[k]) = 0 BY <1>2
      <4>4. CASE \E y \in Execs : exec[y] = e
        <5>1. seeds' = seeds + 1 BY <1>2, <4>4
        <5> QED BY <1>2, <1>7, <3>1, <3>3, <4>2, <4>3, <5>1
      <4>5. CASE ~\E y \in Execs : exec[y] = e
        <5>1. Seeding(exec, k) = {}
          <6>1. ASSUME NEW y \in Seeding(exec, k) PROVE FALSE
            <7>1. y \in Execs /\ exec[y] \in ExecType /\ exec[y].pc = "seed" /\ exec[y].kind = k
              BY <1>0, <6>1 DEF Seeding, FlowsTyped
            <7>2. exec[y] = e BY <1>3, <7>1, Places
            <7> QED BY <4>5, <7>1, <7>2
          <6> QED BY <6>1
        <5>2. Cardinality(Seeding(exec, k)) = 0 BY <5>1, FS_EmptySet
        <5> QED BY <1>2, <1>7, <3>3, <4>2, <4>3, <5>2
      <4> QED BY <4>4, <4>5
    <3> QED BY <3>2, <3>3
  <2> QED BY <2>1 DEF SeedsInv
<1>10. OnceInv' BY <1>0, <1>1, <1>6 DEF OnceInv
<1>11. ASSUME NEW t \in Templates
       PROVE  /\ afterOff'[t] + Cardinality(ToSend(exec', t)) <= Cardinality(AllMails(t))
              /\ ~AllOff(t)' => afterOff'[t] = 0
  <2>1. NoMoreOf(exec[x], e, t) BY <1>1 DEF NoMoreOf, Reads, Acts
  <2>2. ToSend(exec', t) \subseteq ToSend(exec, t)
    BY <1>0, <1>2, <1>5, <2>1, KindToSend DEF FlowsTyped
  <2>3. /\ Cardinality(ToSend(exec, t)) \in Nat /\ Cardinality(ToSend(exec', t)) \in Nat
        /\ Cardinality(ToSend(exec', t)) <= Cardinality(ToSend(exec, t))
    BY <2>2, FewerToSend
  <2>4. afterOff[t] \in Nat /\ Cardinality(AllMails(t)) \in Nat BY <1>0, MailsFinite DEF FlowsTyped
  <2>5. AllOff(t)' = AllOff(t) BY <1>2 DEF AllOff
  <2> QED BY <1>0, <1>2, <2>3, <2>4, <2>5 DEF WindsInv
<1> QED BY <1>8, <1>9, <1>10, <1>11 DEF FlowsInv, WindsInv

LEMMA FlowsStay ==
    ASSUME FlowsInv, UNCHANGED <<flows, exec, begun, seeds, afterOff, flowFailures>>,
           orderRow' \in {"none", "open", "fulfilled"}, checkoutRow' \in {"none", "open", "ordered"}
    PROVE  FlowsInv'
<1>0. FlowsTyped /\ SeedsInv /\ WindsInv /\ OnceInv BY DEF FlowsInv
<1>1. FlowsTyped' BY <1>0 DEF FlowsTyped
<1>2. SeedsInv' BY <1>0 DEF SeedsInv
<1>3. WindsInv' BY <1>0 DEF WindsInv, AllOff
<1>4. OnceInv' BY <1>0 DEF OnceInv
<1> QED BY <1>1, <1>2, <1>3, <1>4 DEF FlowsInv

LEMMA FlowsNextKeeps ==
    ASSUME FlowsConstants, FlowsInv, [FlowsNext]_flowVars PROVE FlowsInv'
<1>0. FlowsTyped BY DEF FlowsInv
<1>1. CASE OrderChanges \/ CheckoutChanges
  BY <1>0, <1>1, FlowsStay DEF OrderChanges, CheckoutChanges, FlowsTyped
<1>2. CASE UNCHANGED flowVars
  BY <1>0, <1>2, FlowsStay DEF flowVars, FlowsTyped
<1>3. ASSUME NEW x \in Execs, NEW t \in Templates, Seed(x, t) PROVE FlowsInv'
  BY <1>3, SeedKeeps
<1>4. CASE \/ \E x \in Execs : SeedCreate(x)
           \/ \E b \in BOOLEAN : CreateFlow(b) \/ \E f \in Flow : UpdateFlow(f, b)
  BY <1>4, FlowChangesKeep
<1>5. ASSUME NEW x \in Execs,
             \/ HandleOrderCreated(x) \/ HandleOrderUpdated(x) \/ HandleCheckoutSynced(x)
             \/ ScanDormantCustomers(x)
      PROVE  FlowsInv'
  BY <1>5, TriggersKeep
<1>6. ASSUME NEW x \in Execs,
             \/ \E f \in Flow : ExecuteFlow(x, f)
             \/ ActSkips(x) \/ ActSends(x) \/ ActFails(x) \/ FlowEnds(x) \/ ExecEnds(x)
      PROVE  FlowsInv'
  BY <1>6, ExecutionsKeep
<1> QED BY <1>1, <1>2, <1>3, <1>4, <1>5, <1>6 DEF FlowsNext

\* A template is there once unless two servers seeded it at the same time, and after
\* the last flow of a kind is switched off no more is sent than executions had read.
THEOREM FlowsAreSound ==
    ASSUME FlowsConstants PROVE FlowsSpec => [](FlowsTypeOK /\ FlowsSound)
<1>1. FlowsInit => FlowsInv BY FlowsInitSatisfies
<1>2. FlowsInv /\ [FlowsNext]_flowVars => FlowsInv' BY FlowsNextKeeps
<1>3. FlowsInv => FlowsTypeOK /\ FlowsSound
  <2> SUFFICES ASSUME FlowsInv PROVE FlowsTypeOK /\ FlowsSound OBVIOUS
  <2>0. FlowsTyped /\ SeedsInv /\ WindsInv BY DEF FlowsInv
  <2>1. FlowsTypeOK
    <3>1. \A x \in Execs : exec[x].pc \in {"idle", "seed", "flows", "act"}
      BY <2>0, Places DEF FlowsTyped
    <3>2. \A t \in Templates : \A n \in DOMAIN flows[t] : flows[t][n] \in {"on", "off"}
      BY <2>0 DEF FlowsTyped
    <3> QED BY <2>0, <3>1, <3>2 DEF FlowsTyped, FlowsTypeOK
  <2>2. SeededOnce
    <3>1. ASSUME NEW t \in Templates \ {"custom"} PROVE Len(flows[t]) <= 1 + seeds
      <4>1. /\ Len(flows[t]) \in Nat /\ Cardinality(Seeding(exec, t)) \in Nat /\ seeds \in Nat
            /\ Len(flows[t]) + Cardinality(Seeding(exec, t)) <= 1 + seeds
        BY <2>0, SeedingFinite DEF SeedsInv, FlowsTyped
      <4> QED BY <4>1
    <3> QED BY <3>1 DEF SeededOnce
  <2>3. WindsDown
    <3>1. ASSUME NEW t \in Templates
          PROVE  afterOff[t] <= Cardinality(Execs) * Copies * Cardinality(Mails(t))
      <4>1. ToSend(exec, t) \subseteq ToSend(exec, t) OBVIOUS
      <4>2. Cardinality(ToSend(exec, t)) \in Nat BY <4>1, FewerToSend
      <4>3. afterOff[t] \in Nat /\ Cardinality(AllMails(t)) \in Nat
        BY <2>0, MailsFinite DEF FlowsTyped
      <4>4. afterOff[t] + Cardinality(ToSend(exec, t)) <= Cardinality(AllMails(t))
        BY <2>0 DEF WindsInv
      <4>5. afterOff[t] <= Cardinality(AllMails(t)) BY <4>2, <4>3, <4>4
      <4> QED BY <4>5, MailsFinite
    <3> QED BY <3>1 DEF WindsDown, Mails
  <2> QED BY <2>1, <2>2, <2>3 DEF FlowsSound
<1> QED BY <1>1, <1>2, <1>3, PTL DEF FlowsSpec
=============================================================================
