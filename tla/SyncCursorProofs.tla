-------------------------- MODULE SyncCursorProofs --------------------------
(***************************************************************************)
(* The marker of an incremental synchronisation hides a change only for    *)
(* the reasons its kind of record allows, for any number of workers,       *)
(* records, changes and faults and any page size and page limit.           *)
(***************************************************************************)
EXTENDS SyncCursor, FiniteSetTheorems, WellFoundedInduction, TLAPS

(* What excuses a row that stays behind although the marker has passed it.  *)
Excuse ==
    IF MarkFirst THEN {"overtaken", "failed", "abandoned", "garbled", "cut"}
                 ELSE {"overtaken", "failed", "behind", "garbled", "cut"}
Excused(r) == lost[r] \intersect Excuse # {}

(* Nothing is newer than Shopify has it.                                    *)
RowsInv ==
    /\ marker <= clock
    /\ \A r \in Record : local[r] <= remote[r] /\ remote[r] <= clock
    /\ \A p \in webhooks : p[2] <= remote[p[1]]

(* Where the pages of a run are.                                            *)
RunOK(w) ==
    /\ run[w].since <= clock
    /\ \A p \in run[w].page : p[2] <= remote[p[1]]
    /\ run[w].pc # "page" => run[w].page = {}
    /\ run[w].pc = "start" => run[w].pos = 0 /\ run[w].pages = 0
    /\ run[w].pc = "fetch" => run[w].pages < MaxPages[kind]
    /\ run[w].pc = "finish" \/ (run[w].pc = "page" /\ ~run[w].more) =>
          run[w].pos = Records
RunInv == \A w \in Runner : RunOK(w)

(* Marking first, the runs that are under way cover what they will write,   *)
(* and a run that has not begun covers nothing yet: it may still die        *)
(* without a trace, but its own marker will cover no more than the marker   *)
(* it has read did.                                                         *)
Hopes(r) == {w \in Runner : WillWrite(w, r)}
Writers(r) == {w \in Hopes(r) : run[w].pc \in {"fetch", "page"}}
Covered(r, m) == m < remote[r] \/ Writers(r) # {} \/ Excused(r)
First(r) ==
    Behind(r) => /\ Covered(r, marker)
                 /\ \A w \in Runner :
                       run[w].pc = "start" => Covered(r, run[w].since)

(* Marking last, any run may be abandoned without a trace, so the marker    *)
(* covers only what is excused, and every run that may still set it writes  *)
(* by itself everything that is not.                                        *)
Last(r) ==
    Behind(r) => /\ marker < remote[r] \/ Excused(r)
                 /\ \A w \in Runner :
                       run[w].pc # "idle" => w \in Hopes(r) \/ Excused(r)

Cover(r) == IF MarkFirst THEN First(r) ELSE Last(r)
CoverInv == \A r \in Record : Cover(r)

IInv == SyncTypeOK /\ RowsInv /\ RunInv /\ CoverInv

-----------------------------------------------------------------------------
(* Sets of naturals.                                                        *)

(* A set of naturals that is not empty has a least element.                 *)
LEMMA LeastNat ==
  ASSUME NEW T \in SUBSET Nat, T # {}
  PROVE  \E x \in T : \A y \in T : x <= y
<1>1. PICK x \in T : \A y \in T : ~(<<y, x>> \in OpToRel(<, Nat))
  BY NatLessThanWellFounded, WFMin
<1>2. \A y \in T : ~(y < x)
  BY <1>1 DEF OpToRel
<1> QED BY <1>2

(* Max of a bounded set of positions is its greatest element.               *)
LEMMA MaxIs ==
  ASSUME NEW n \in Nat, NEW S \in SUBSET (1 .. n), S # {}
  PROVE  Max(S) \in S /\ \A y \in S : y <= Max(S)
<1> DEFINE T == {x \in Nat : \A y \in S : y <= x}
<1>1. n \in T
  OBVIOUS
<1>2. PICK x \in T : \A y \in T : x <= y
  BY <1>1, LeastNat
<1>3. x \in S
  <2>1. SUFFICES ASSUME x \notin S PROVE FALSE
    OBVIOUS
  <2>2. x \in Nat /\ \A y \in S : y \in Nat /\ y < x
    BY <1>2, <2>1
  <2>3. x # 0
    <3>1. PICK y \in S : TRUE
      OBVIOUS
    <3> QED BY <2>2, <3>1
  <2>4. x - 1 \in T
    BY <2>2, <2>3
  <2> QED BY <1>2, <2>2, <2>4
<1>4. \A y \in S : x >= y
  BY <1>2, <1>3
<1> QED BY <1>3, <1>4 DEF Max

-----------------------------------------------------------------------------
(* What the statements of the code do to the rows and their history.        *)

(* Replacing the run of one worker touches no other one.                    *)
LEMMA RunReplaces ==
  ASSUME SyncTypeOK, NEW w \in Runner, NEW d \in Runs, kind' = kind,
         run' = [run EXCEPT ![w] = d]
  PROVE  /\ run' \in [Runner -> Runs'] /\ run'[w] = d
         /\ \A v \in Runner : v # w => run'[v] = run[v]
  BY DEF SyncTypeOK, Runs

(* A run that only goes on to another step keeps the rest.                  *)
LEMMA StepReplaces ==
  ASSUME SyncTypeOK, NEW w \in Runner, kind' = kind,
         NEW where \in {"idle", "start", "fetch", "page", "finish"},
         run' = [run EXCEPT ![w].pc = where]
  PROVE  /\ run' \in [Runner -> Runs'] /\ run'[w].pc = where
         /\ run'[w].since = run[w].since /\ run'[w].pos = run[w].pos
         /\ run'[w].pages = run[w].pages /\ run'[w].page = run[w].page
         /\ run'[w].more = run[w].more
         /\ \A v \in Runner : v # w => run'[v] = run[v]
  BY DEF SyncTypeOK, Runs

(* The time and the positions are numbers.                                  *)
LEMMA Numbers ==
  ASSUME SyncConstants, SyncTypeOK
  PROVE  /\ Records \in Nat /\ MaxChanges \in Nat /\ MaxSyncFaults \in Nat
         /\ PageSize \in Nat \ {0} /\ MaxPages[kind] \in Nat \ {0}
         /\ clock \in Nat /\ marker \in Int /\ syncFaults \in Nat
         /\ \A r \in Record : r \in Nat /\ remote[r] \in Nat /\ local[r] \in Nat
         /\ \A p \in webhooks : p[1] \in Record /\ p[2] \in Nat
         /\ \A w \in Runner :
              /\ run[w] \in Runs /\ run[w].since \in Int /\ run[w].pos \in Nat
              /\ run[w].pages \in Nat
              /\ \A p \in run[w].page : p[1] \in Record /\ p[2] \in Nat
<1>1. Records \in Nat /\ MaxChanges \in Nat /\ MaxSyncFaults \in Nat
  BY DEF SyncConstants
<1>2. PageSize \in Nat \ {0} /\ MaxPages[kind] \in Nat \ {0}
  BY DEF SyncConstants, SyncTypeOK
<1>3. Version \subseteq Nat /\ Record \subseteq Nat /\ Never \in Int
  BY <1>1 DEF Version, Record, Never
<1>4. clock \in Nat /\ marker \in Int /\ syncFaults \in Nat
  BY <1>1, <1>3 DEF SyncTypeOK
<1>5. /\ \A r \in Record : r \in Nat /\ remote[r] \in Nat /\ local[r] \in Nat
      /\ \A p \in webhooks : p[1] \in Record /\ p[2] \in Nat
  BY <1>3 DEF SyncTypeOK
<1>6. ASSUME NEW w \in Runner
      PROVE  /\ run[w] \in Runs /\ run[w].since \in Int /\ run[w].pos \in Nat
             /\ run[w].pages \in Nat
             /\ \A p \in run[w].page : p[1] \in Record /\ p[2] \in Nat
  <2>1. run[w] \in Runs
    BY DEF SyncTypeOK
  <2>2. /\ run[w].since \in Version \union {Never} /\ run[w].pos \in 0 .. Records
        /\ run[w].pages \in 0 .. MaxPages[kind]
        /\ run[w].page \subseteq Record \X Version
    BY <2>1 DEF Runs
  <2>3. \A p \in run[w].page : p[1] \in Record /\ p[2] \in Nat
    BY <1>3, <2>2
  <2>4. run[w].since \in Int
    BY <1>1, <2>2 DEF Version, Never
  <2>5. run[w].pos \in Nat
    BY <1>1, <2>2
  <2>6. run[w].pages \in Nat
    BY <1>2, <2>2
  <2> QED BY <2>1, <2>3, <2>4, <2>5, <2>6
<1> QED BY <1>1, <1>2, <1>4, <1>5, <1>6

(* A row is left behind by a write only when it was before, or when the     *)
(* write puts an older copy over a newer one.                               *)
LEMMA UpsertKeeps ==
  ASSUME SyncConstants, SyncTypeOK, RowsInv, NEW s \in Record, NEW v \in Version,
         v <= remote[s], UpsertRow(s, v), UNCHANGED shop
  PROVE  /\ local' \in [Record -> Version] /\ lost' \in [Record -> SUBSET Cause]
         /\ \A r \in Record : local'[r] <= remote[r]
         /\ \A r \in Record :
              Behind(r)' => \/ Excused(r)'
                            \/ Behind(r) /\ (Excused(r) => Excused(r)')
<1>1. /\ s \in Nat /\ remote[s] \in Nat /\ local[s] \in Nat /\ v \in Nat
      /\ local[s] <= remote[s]
  BY Numbers DEF Version, RowsInv
<1>2. PICK now \in SUBSET Cause : 
         /\ lost' = [lost EXCEPT ![s] = now]
         /\ \/ v = remote[s] /\ now = {}
            \/ v # remote[s] /\ v < local[s] /\ now = lost[s] \union {"overtaken"}
            \/ v # remote[s] /\ ~(v < local[s]) /\ now = lost[s]
  BY <1>1 DEF UpsertRow, SyncTypeOK, Cause
<1>3. local' = [local EXCEPT ![s] = v]
  BY DEF UpsertRow
<1>4. remote' = remote /\ Excuse' = Excuse
  BY DEF shop, Excuse, MarkFirst
<1>5. local' \in [Record -> Version] /\ lost' \in [Record -> SUBSET Cause]
  BY <1>2, <1>3 DEF SyncTypeOK
<1>6. \A r \in Record : local'[r] <= remote[r]
  BY <1>3 DEF RowsInv, SyncTypeOK
<1>7. ASSUME NEW r \in Record, Behind(r)'
      PROVE  Excused(r)' \/ (Behind(r) /\ (Excused(r) => Excused(r)'))
  <2>1. CASE r # s
    BY <1>2, <1>3, <1>4, <1>7, <2>1 DEF Behind, Excused, SyncTypeOK
  <2>2. CASE r = s
    <3>1. local'[s] = v /\ lost'[s] = now /\ v # remote[s]
      BY <1>2, <1>3, <1>4, <1>7, <2>2 DEF Behind, SyncTypeOK
    <3>2. CASE now = lost[s] \union {"overtaken"}
      BY <1>4, <2>2, <3>1, <3>2 DEF Excused, Excuse
    <3>3. CASE ~(v < local[s]) /\ now = lost[s]
      BY <1>1, <1>4, <2>2, <3>1, <3>3 DEF Excused, Behind
    <3> QED BY <1>2, <3>1, <3>2, <3>3
  <2> QED BY <2>1, <2>2
<1> QED BY <1>5, <1>6, <1>7

(* Noting a cause forgets none.                                             *)
LEMMA LosingKeeps ==
  ASSUME SyncTypeOK, NEW S, NEW cause \in Cause, Losing(S, cause), UNCHANGED shop
  PROVE  /\ lost' \in [Record -> SUBSET Cause]
         /\ \A r \in Record : Excused(r) => Excused(r)'
         /\ \A r \in S \intersect Record : cause \in Excuse => Excused(r)'
<1>1. Excuse' = Excuse
  BY DEF shop, Excuse, MarkFirst
<1> QED BY <1>1 DEF Losing, SyncTypeOK, Excused

-----------------------------------------------------------------------------
(* What keeps a row covered.                                                *)

(* The steps of Shopify, of time and of webhooks that do not change a       *)
(* record leave it covered.                                                 *)
LEMMA RowsKeep ==
  ASSUME SyncConstants, SyncTypeOK, NEW r \in Record,
         Cover(r),
         kind' = kind, remote'[r] = remote[r], run' = run,
         marker' \in {marker, Never},
         Behind(r)' => \/ Excused(r)'
                       \/ Behind(r) /\ (Excused(r) => Excused(r)')
  PROVE  Cover(r)'
<1>1. /\ MarkFirst' = MarkFirst
      /\ Hopes(r)' = Hopes(r) /\ Writers(r)' = Writers(r)
  BY DEF MarkFirst, WillWrite, Listed, Hopes, Writers
<1>2. marker < remote[r] => marker' < remote'[r]
  BY Numbers DEF Never
<1>3. CASE Excused(r)' \/ ~Behind(r)'
  BY <1>3 DEF Cover, First, Last, Covered
<1>4. CASE Behind(r)' /\ Behind(r) /\ (Excused(r) => Excused(r)')
  <2>1. CASE MarkFirst
    <3>2. /\ Covered(r, marker) => Covered(r, marker)'
          /\ \A w \in Runner :
               Covered(r, run[w].since) => Covered(r, run[w].since)'
      BY <1>1, <1>2, <1>4 DEF Covered
    <3>3. Covered(r, marker) /\ \A w \in Runner : 
            run[w].pc = "start" => Covered(r, run[w].since)
      BY <1>4, <2>1 DEF Cover, First
    <3>4. First(r)'
      BY <3>2, <3>3 DEF First
    <3> QED BY <1>1, <2>1, <3>4 DEF Cover
  <2>2. CASE ~MarkFirst
    <3>1. Last(r)
      BY <2>2 DEF Cover
    <3>2. Last(r)'
      BY <1>1, <1>2, <1>4, <3>1 DEF Last
    <3> QED BY <1>1, <2>2, <3>2 DEF Cover
  <2> QED BY <2>1, <2>2
<1> QED BY <1>3, <1>4

(* The other runs write what they were to write.                            *)
LEMMA OthersHope ==
  ASSUME NEW r \in Record, NEW w \in Runner, UNCHANGED <<kind, remote>>,
         \A v \in Runner : v # w => run'[v] = run[v]
  PROVE  /\ MarkFirst' = MarkFirst
         /\ Hopes(r) \ {w} \subseteq Hopes(r)'
         /\ Writers(r) \ {w} \subseteq Writers(r)'
  BY DEF MarkFirst, WillWrite, Listed, Hopes, Writers

(* The step of a run that does not set the marker leaves a record covered   *)
(* when what it was to write is still to be written or excused.             *)
LEMMA RunKeeps ==
  ASSUME SyncConstants, SyncTypeOK, NEW r \in Record, NEW w \in Runner,
         Cover(r),
         UNCHANGED <<kind, remote, marker>>,
         \A v \in Runner : v # w => run'[v] = run[v],
         run'[w].pc # "start",
         Behind(r)' => \/ Excused(r)'
                       \/ Behind(r) /\ (Excused(r) => Excused(r)'),
         MarkFirst => (w \in Writers(r) => w \in Writers(r)' \/ Excused(r)'),
         ~MarkFirst => 
           \/ run'[w].pc = "idle"
           \/ /\ run[w].pc # "idle"
              /\ w \in Hopes(r) => w \in Hopes(r)' \/ Excused(r)'
  PROVE  Cover(r)'
<1>1. /\ MarkFirst' = MarkFirst
      /\ Hopes(r) \ {w} \subseteq Hopes(r)'
      /\ Writers(r) \ {w} \subseteq Writers(r)'
  BY OthersHope
<1>2. CASE Excused(r)' \/ ~Behind(r)'
  BY <1>2 DEF Cover, First, Last, Covered
<1>3. CASE ~Excused(r)' /\ Behind(r)' /\ Behind(r) /\ ~Excused(r)
  <2>1. CASE MarkFirst
    <3>1. ASSUME Writers(r) # {}
          PROVE  Writers(r)' # {}
      <4>1. PICK v \in Runner : v \in Writers(r)
        BY <3>1 DEF Writers, Hopes
      <4>2. CASE v = w
        <5>1. w \in Writers(r)
          BY <4>1, <4>2
        <5>2. w \in Writers(r)' \/ Excused(r)'
          BY <2>1, <5>1
        <5>3. w \in Writers(r)'
          BY <1>3, <5>2
        <5> QED BY <5>3
      <4>3. CASE v # w
        BY <1>1, <4>1, <4>3
      <4> QED BY <4>2, <4>3
    <3>2. \A m : Covered(r, m) => Covered(r, m)'
      BY <1>3, <3>1 DEF Covered
    <3>3. \A v \in Runner : run'[v].pc = "start" =>
             run[v].pc = "start" /\ run'[v].since = run[v].since
      OBVIOUS
    <3>4. First(r)
      BY <2>1 DEF Cover
    <3>5. Covered(r, marker)'
      BY <1>3, <3>2, <3>4 DEF First, Covered
    <3>6. ASSUME NEW v \in Runner, run'[v].pc = "start"
          PROVE  Covered(r, run[v].since)'
      <4>1. PICK m : m = run[v].since
        OBVIOUS
      <4>2. Covered(r, m)
        BY <1>3, <3>3, <3>4, <3>6, <4>1 DEF First
      <4>3. Covered(r, m)' /\ run'[v].since = m
        BY <3>2, <3>3, <3>6, <4>1, <4>2
      <4> QED BY <4>3 DEF Covered
    <3>7. First(r)'
      BY <3>5, <3>6 DEF First
    <3> QED BY <1>1, <2>1, <3>7 DEF Cover
  <2>2. CASE ~MarkFirst
    <3>1. Last(r)
      BY <2>2 DEF Cover
    <3>2. ASSUME NEW v \in Runner, run'[v].pc # "idle"
          PROVE  v \in Hopes(r)'
      <4>1. CASE v = w
        <5>1. w \in Hopes(r)
          BY <1>3, <2>2, <3>1, <3>2, <4>1 DEF Last
        <5>2. w \in Hopes(r)' \/ Excused(r)'
          BY <2>2, <3>2, <4>1, <5>1
        <5>3. w \in Hopes(r)'
          BY <1>3, <5>2
        <5> QED BY <4>1, <5>3
      <4>2. CASE v # w
        BY <1>1, <1>3, <3>1, <3>2, <4>2 DEF Last
      <4> QED BY <4>1, <4>2
    <3>3. Last(r)'
      BY <1>3, <3>1, <3>2 DEF Last
    <3> QED BY <1>1, <2>2, <3>3 DEF Cover
  <2> QED BY <2>1, <2>2
<1> QED BY <1>2, <1>3

-----------------------------------------------------------------------------
(* Types, rows and runs.                                                    *)

(* A step that leaves the shop at Shopify alone keeps the types and the     *)
(* order of the versions.                                                   *)
LEMMA RowsStep ==
  ASSUME SyncConstants, SyncTypeOK, RowsInv, UNCHANGED shop,
         local' \in [Record -> Version],
         \A r \in Record : local'[r] <= remote[r],
         webhooks' \subseteq webhooks,
         marker' \in {marker, clock, Never}, fresh' \in BOOLEAN,
         run' \in [Runner -> Runs'],
         lost' \in [Record -> SUBSET Cause], syncFaults' \in 0 .. MaxSyncFaults
  PROVE  SyncTypeOK' /\ RowsInv'
<1>1. kind' = kind /\ clock' = clock /\ remote' = remote
  BY DEF shop
<1>2. SyncTypeOK'
  BY <1>1 DEF SyncTypeOK
<1>3. marker' <= clock'
  BY <1>1, Numbers DEF RowsInv, Never
<1> QED BY <1>1, <1>2, <1>3 DEF RowsInv

(* What happens at Shopify and to other runs leaves a run where it is.      *)
LEMMA OthersStep ==
  ASSUME SyncConstants, SyncTypeOK, SyncTypeOK', RunInv, kind' = kind, clock <= clock',
         \A r \in Record : remote[r] <= remote'[r],
         NEW v \in Runner, run'[v] = run[v]
  PROVE  RunOK(v)'
<1>1. RunOK(v)
  BY DEF RunInv
<1>2. run'[v].since <= clock'
  <2>1. clock' \in Nat
    BY Numbers DEF SyncTypeOK, Version
  <2> QED BY <1>1, <2>1, Numbers DEF RunOK
<1>3. \A p \in run'[v].page : p[2] <= remote'[p[1]]
  <2>1. \A r \in Record : remote'[r] \in Nat
    BY Numbers DEF SyncTypeOK, Version
  <2> QED BY <1>1, <2>1, Numbers DEF RunOK
<1> QED BY <1>1, <1>2, <1>3 DEF RunOK

(* A fault is counted.                                                      *)
LEMMA FaultIs ==
  ASSUME SyncConstants, SyncTypeOK, Fault \/ UNCHANGED syncFaults
  PROVE  syncFaults' \in 0 .. MaxSyncFaults
  BY Numbers DEF Fault, SyncTypeOK

(* Setting the marker sets it to now, or fails.                             *)
LEMMA MarkerIs ==
  ASSUME SyncConstants, SyncTypeOK, SetMarker \/ UNCHANGED <<redis, syncFaults>>
  PROVE  /\ marker' \in {marker, clock} /\ fresh' \in BOOLEAN
         /\ syncFaults' \in 0 .. MaxSyncFaults
<1>1. CASE Fault /\ UNCHANGED redis
  BY <1>1, FaultIs DEF redis, SyncTypeOK
<1>2. CASE UNCHANGED syncFaults /\ marker' = clock /\ fresh' = TRUE
  BY <1>2, FaultIs
<1>3. CASE UNCHANGED <<redis, syncFaults>>
  BY <1>3, FaultIs DEF redis, SyncTypeOK
<1> QED BY <1>1, <1>2, <1>3 DEF SetMarker

(* A step of worker w keeps the types, the order of the versions and the    *)
(* runs when it keeps its own.                                              *)
LEMMA WorkerStep ==
  ASSUME SyncConstants, SyncTypeOK, RowsInv, RunInv, NEW w \in Runner, UNCHANGED shop,
         local' \in [Record -> Version],
         \A r \in Record : local'[r] <= remote[r],
         webhooks' = webhooks,
         marker' \in {marker, clock}, fresh' \in BOOLEAN,
         run' \in [Runner -> Runs'],
         \A v \in Runner : v # w => run'[v] = run[v], RunOK(w)',
         lost' \in [Record -> SUBSET Cause], syncFaults' \in 0 .. MaxSyncFaults
  PROVE  SyncTypeOK' /\ RowsInv' /\ RunInv'
<1>1. SyncTypeOK' /\ RowsInv'
  BY RowsStep
<1>2. kind' = kind /\ clock' = clock /\ remote' = remote
  BY DEF shop
<1>3. /\ clock <= clock' /\ \A r \in Record : remote[r] <= remote'[r]
  BY <1>2, Numbers
<1>4. ASSUME NEW v \in Runner
      PROVE  RunOK(v)'
  <2>1. CASE v = w
    BY <2>1 DEF RunOK
  <2>2. CASE v # w
    BY <1>1, <1>2, <1>3, <2>2, OthersStep
  <2> QED BY <2>1, <2>2
<1> QED BY <1>1, <1>4 DEF RunInv

-----------------------------------------------------------------------------
(* The steps of Shopify, of the webhooks and of time.                       *)

(* A change is newer than every marker; unless a run has paged past it,     *)
(* every run under way will list it.                                        *)
LEMMA ChangeStep ==
  ASSUME SyncConstants, IInv, NEW s \in Record, Change(s)
  PROVE  IInv'
<1>1. /\ kind' = kind /\ run' = run /\ marker' = marker /\ fresh' = fresh
      /\ local' = local /\ syncFaults' = syncFaults
      /\ clock' = clock + 1 /\ clock' \in Version
      /\ remote' = [remote EXCEPT ![s] = clock']
      /\ webhooks' = webhooks \union {<<s, clock'>>}
  <2>1. clock' = clock + 1 /\ clock < MaxChanges
    BY DEF Change
  <2>2. clock' \in Version
    BY <2>1, Numbers DEF IInv, Version
  <2> QED BY <2>1, <2>2 DEF Change, redis
<1>2. /\ lost' = [lost EXCEPT ![s] = IF PagedPast(s) THEN {"behind"} ELSE {}]
      /\ lost' \in [Record -> SUBSET Cause]
  BY DEF Change, IInv, SyncTypeOK, Cause
<1>3. /\ clock \in Nat /\ marker \in Int /\ marker <= clock
      /\ \A r \in Record : /\ remote[r] \in Nat /\ local[r] \in Nat
                          /\ local[r] <= remote[r] /\ remote[r] <= clock
  BY Numbers DEF IInv, RowsInv
<1>4. SyncTypeOK'
  <2>1. /\ remote' \in [Record -> Version] /\ webhooks' \subseteq Record \X Version
    BY <1>1 DEF IInv, SyncTypeOK
  <2>2. Runs' = Runs
    BY <1>1 DEF Runs
  <2> QED BY <1>1, <1>2, <2>1, <2>2 DEF IInv, SyncTypeOK
<1>5. /\ remote'[s] = clock + 1 /\ \A r \in Record : r # s => remote'[r] = remote[r]
      /\ \A r \in Record : remote'[r] \in Nat /\ remote[r] <= remote'[r]
  BY <1>1, <1>3 DEF IInv, SyncTypeOK
<1>6. RowsInv'
  <2>1. marker' <= clock'
    BY <1>1, <1>3
  <2>2. \A r \in Record : local'[r] <= remote'[r] /\ remote'[r] <= clock'
    BY <1>1, <1>3, <1>5
  <2>3. ASSUME NEW p \in webhooks'
        PROVE  p[2] <= remote'[p[1]]
    <3>1. CASE p \in webhooks
      BY <1>5, <3>1, Numbers DEF IInv, RowsInv
    <3>2. CASE p = <<s, clock'>>
      BY <1>1, <1>3, <1>5, <3>2
    <3> QED BY <1>1, <3>1, <3>2
  <2> QED BY <2>1, <2>2, <2>3 DEF RowsInv
<1>7. RunInv'
  <2>1. clock <= clock'
    BY <1>1, <1>3
  <2>2. ASSUME NEW v \in Runner
        PROVE  RunOK(v)'
    BY <1>1, <1>4, <1>5, <2>1, OthersStep DEF IInv
  <2> QED BY <2>2 DEF RunInv
<1>8. ASSUME NEW r \in Record, r # s
      PROVE  Cover(r)'
  <2>1. Cover(r) /\ remote'[r] = remote[r]
    BY <1>5, <1>8 DEF IInv, CoverInv
  <2>2. Behind(r)' => Behind(r) /\ (Excused(r) => Excused(r)')
    BY <1>1, <1>2, <1>5, <1>8 DEF Behind, Excused, Excuse, MarkFirst, IInv, SyncTypeOK
  <2> QED BY <1>1, <2>1, <2>2, RowsKeep DEF IInv
<1>9. Cover(s)'
  <2>0. MarkFirst' = MarkFirst
    BY <1>1 DEF MarkFirst
  <2>1. marker' < remote'[s] /\ \A w \in Runner : run'[w].since < remote'[s]
    BY <1>1, <1>3, <1>5, Numbers DEF IInv, RunInv, RunOK
  <2>2. CASE MarkFirst
    <3>1. First(s)'
      BY <2>1 DEF First, Covered
    <3> QED BY <2>0, <2>2, <3>1 DEF Cover
  <2>3. CASE ~MarkFirst
    <3>1. CASE PagedPast(s)
      <4>1. "behind" \in lost'[s] /\ "behind" \in Excuse'
        BY <1>2, <2>0, <2>3, <3>1 DEF Excuse, IInv, SyncTypeOK
      <4>2. Last(s)'
        BY <4>1 DEF Last, Excused
      <4> QED BY <2>0, <2>3, <4>2 DEF Cover
    <3>2. CASE ~PagedPast(s)
      <4>1. ASSUME NEW w \in Runner, run[w].pc # "idle"
            PROVE  WillWrite(w, s)'
        <5>1. run[w].pos < s /\ s <= Records
          BY <3>2, <4>1, Numbers DEF PagedPast, IInv, Record
        <5>2. s \in Listed(w)'
          BY <1>1, <1>3, <1>5, <2>1, <5>1 DEF Listed
        <5>3. RunOK(w) /\ run[w].pos # Records
          BY <5>1, Numbers DEF IInv, RunInv
        <5>4. run[w].pc \in {"start", "fetch"} \/ (run[w].pc = "page" /\ run[w].more)
          BY <4>1, <5>3, Numbers DEF RunOK, Runs, IInv
        <5> QED BY <1>1, <5>2, <5>4 DEF WillWrite
      <4>2. \A w \in Runner : run'[w].pc # "idle" => w \in Hopes(s)'
        BY <1>1, <4>1 DEF Hopes
      <4>3. Last(s)'
        BY <2>1, <4>2 DEF Last
      <4> QED BY <2>0, <2>3, <4>3 DEF Cover
    <3> QED BY <3>1, <3>2
  <2> QED BY <2>2, <2>3
<1>10. CoverInv'
  BY <1>1, <1>8, <1>9 DEF CoverInv
<1> QED BY <1>4, <1>6, <1>7, <1>10 DEF IInv

(* A webhook may put an older copy of the record over a newer one, or fail. *)
LEMMA WebhookStep ==
  ASSUME SyncConstants, IInv, NEW p \in webhooks, HandleWebhook(p[1], p[2])
  PROVE  IInv'
<1>1. PICK s \in Record, v \in Version : p = <<s, v>>
  BY DEF IInv, SyncTypeOK
<1>2. /\ UNCHANGED <<shop, redis, run>> /\ webhooks' \subseteq webhooks
      /\ \/ UpsertRow(s, v) /\ UNCHANGED syncFaults
         \/ Fault /\ UNCHANGED <<local, lost>>
  BY <1>1 DEF HandleWebhook
<1>3. v <= remote[s]
  BY <1>1 DEF IInv, RowsInv
<1>4. /\ local' \in [Record -> Version] /\ lost' \in [Record -> SUBSET Cause]
      /\ \A r \in Record : local'[r] <= remote[r]
      /\ syncFaults' \in 0 .. MaxSyncFaults
  <2>1. CASE UpsertRow(s, v) /\ UNCHANGED syncFaults
    BY <1>2, <1>3, <2>1, UpsertKeeps, FaultIs DEF IInv
  <2>2. CASE Fault /\ UNCHANGED <<local, lost>>
    BY <2>2, FaultIs DEF IInv, SyncTypeOK, RowsInv
  <2> QED BY <1>2, <2>1, <2>2
<1>5. Runs' = Runs /\ kind' = kind /\ remote' = remote /\ clock' = clock
  BY <1>2 DEF Runs, shop
<1>6. SyncTypeOK' /\ RowsInv'
  BY <1>2, <1>4, <1>5, RowsStep DEF IInv, redis, SyncTypeOK
<1>7. RunInv'
  BY <1>2, <1>5 DEF IInv, RunInv, RunOK
<1>8. ASSUME NEW r \in Record
      PROVE  Cover(r)'
  <2>1. Behind(r)' => \/ Excused(r)'
                      \/ Behind(r) /\ (Excused(r) => Excused(r)')
    <3>1. CASE UpsertRow(s, v)
      BY <1>2, <1>3, <3>1, UpsertKeeps DEF IInv
    <3>2. CASE UNCHANGED <<local, lost>>
      BY <1>5, <3>2 DEF Behind, Excused, Excuse, MarkFirst
    <3> QED BY <1>2, <3>1, <3>2
  <2>2. Cover(r)
    BY DEF IInv, CoverInv
  <2> QED BY <1>2, <1>5, <2>1, <2>2, RowsKeep DEF IInv, redis
<1> QED BY <1>6, <1>7, <1>8, <1>5 DEF IInv, CoverInv

(* Time expires the marker.                                                 *)
LEMMA TimeStep ==
  ASSUME SyncConstants, IInv, WindowPasses \/ MarkerExpires \/ UNCHANGED syncVars
  PROVE  IInv'
<1>1. /\ UNCHANGED <<shop, local, webhooks, run, lost, syncFaults>>
      /\ marker' \in {marker, Never} /\ fresh' \in BOOLEAN
  BY DEF WindowPasses, MarkerExpires, syncVars, redis, IInv, SyncTypeOK
<1>2. Runs' = Runs /\ kind' = kind /\ remote' = remote /\ clock' = clock
  BY <1>1 DEF Runs, shop
<1>3. SyncTypeOK' /\ RowsInv'
  <2>1. /\ local' \in [Record -> Version] /\ run' \in [Runner -> Runs']
        /\ lost' \in [Record -> SUBSET Cause] /\ syncFaults' \in 0 .. MaxSyncFaults
        /\ \A r \in Record : local'[r] <= remote[r]
    BY <1>1, <1>2 DEF IInv, SyncTypeOK, RowsInv
  <2> QED BY <1>1, <2>1, RowsStep DEF IInv
<1>4. RunInv'
  BY <1>1, <1>2 DEF IInv, RunInv, RunOK
<1>5. ASSUME NEW r \in Record
      PROVE  Cover(r)'
  <2>1. Behind(r)' => Behind(r) /\ (Excused(r) => Excused(r)')
    BY <1>1, <1>2 DEF Behind, Excused, Excuse, MarkFirst
  <2>2. Cover(r)
    BY DEF IInv, CoverInv
  <2> QED BY <1>1, <1>2, <2>1, <2>2, RowsKeep DEF IInv
<1> QED BY <1>3, <1>4, <1>5 DEF IInv, CoverInv

-----------------------------------------------------------------------------
(* The steps of a run.                                                      *)

(* No run is a state of a run.                                              *)
LEMMA NoRunIs ==
  ASSUME SyncConstants, SyncTypeOK
  PROVE  NoRun \in Runs
<1>1. 0 \in 0 .. Records /\ 0 \in 0 .. MaxPages[kind]
  BY Numbers
<1> QED BY <1>1 DEF NoRun, Runs, Never

(* A run reads a marker that covers no more than what is covered, and has   *)
(* everything newer than that before it.                                    *)
LEMMA ReadStep ==
  ASSUME SyncConstants, IInv, NEW w \in Runner, ReadMarker(w)
  PROVE  IInv'
<1>1. PICK since \in {marker, Never} :
         /\ syncFaults' = syncFaults \/ Fault
         /\ run' = [run EXCEPT ![w] = [NoRun EXCEPT !.pc = "start", !.since = since]]
  BY DEF ReadMarker
<1> DEFINE d == [NoRun EXCEPT !.pc = "start", !.since = since]
<1>2. /\ d \in Runs /\ d.pc = "start" /\ d.since = since /\ d.pos = 0
      /\ d.pages = 0 /\ d.page = {} /\ since \in Int
  <2>1. NoRun \in Runs
    BY NoRunIs DEF IInv
  <2>2. since \in Version \union {Never} /\ since \in Int
    BY Numbers DEF IInv, SyncTypeOK, Never
  <2> QED BY <2>1, <2>2 DEF NoRun, Runs
<1> HIDE DEF d
<1>3. /\ UNCHANGED <<shop, local, webhooks, redis, lost>> /\ run[w].pc = "idle"
      /\ kind' = kind /\ remote' = remote /\ clock' = clock /\ marker' = marker
  BY DEF ReadMarker, shop, redis
<1>4. /\ run' \in [Runner -> Runs'] /\ run'[w] = d
      /\ \A v \in Runner : v # w => run'[v] = run[v]
  BY <1>1, <1>2, <1>3, RunReplaces DEF IInv, d
<1>5. RunOK(w)'
  BY <1>2, <1>3, <1>4, Numbers DEF RunOK, IInv, RowsInv, Never
<1>6. SyncTypeOK' /\ RowsInv' /\ RunInv'
  <2>1. syncFaults' \in 0 .. MaxSyncFaults
    BY <1>1, FaultIs DEF IInv
  <2>2. /\ local' \in [Record -> Version] /\ fresh' \in BOOLEAN
        /\ lost' \in [Record -> SUBSET Cause]
        /\ \A r \in Record : local'[r] <= remote[r]
    BY <1>3 DEF IInv, SyncTypeOK, RowsInv, redis
  <2> QED BY <1>3, <1>4, <1>5, <2>1, <2>2, WorkerStep DEF IInv
<1>7. ASSUME NEW r \in Record
      PROVE  Cover(r)'
  <2>1. /\ Behind(r)' = Behind(r) /\ Excused(r)' = Excused(r)
        /\ MarkFirst' = MarkFirst /\ Cover(r)
    BY <1>3 DEF Behind, Excused, Excuse, MarkFirst, IInv, CoverInv
  <2>2. /\ Hopes(r) \ {w} \subseteq Hopes(r)'
        /\ Writers(r) \ {w} \subseteq Writers(r)'
    BY <1>3, <1>4, OthersHope
  <2>3. w \notin Writers(r)
    BY <1>3 DEF Writers
  <2>4. CASE ~Behind(r)
    BY <2>1, <2>4 DEF Cover, First, Last
  <2>5. CASE MarkFirst /\ Behind(r)
    <3>1. First(r)
      BY <2>1, <2>5 DEF Cover
    <3>2. \A m : Covered(r, m) => Covered(r, m)'
      BY <1>3, <2>1, <2>2, <2>3 DEF Covered
    <3>3. Covered(r, marker)'
      BY <1>3, <2>5, <3>1, <3>2 DEF First, Covered
    <3>4. ASSUME NEW v \in Runner, run'[v].pc = "start"
          PROVE  Covered(r, run[v].since)'
      <4>1. CASE v = w
        <5>1. CASE since = marker
          BY <1>2, <1>3, <1>4, <3>3, <4>1, <5>1 DEF Covered
        <5>2. CASE since = Never
          BY <1>2, <1>3, <1>4, <4>1, <5>2, Numbers DEF Covered, Never, IInv
        <5> QED BY <5>1, <5>2
      <4>2. CASE v # w
        <5>1. PICK m : m = run[v].since
          OBVIOUS
        <5>2. Covered(r, m)
          BY <1>4, <2>5, <3>1, <3>4, <4>2, <5>1 DEF First
        <5>3. Covered(r, m)' /\ run'[v].since = m
          BY <1>4, <3>2, <4>2, <5>1, <5>2
        <5> QED BY <5>3 DEF Covered
      <4> QED BY <4>1, <4>2
    <3> QED BY <2>1, <2>5, <3>3, <3>4 DEF Cover, First
  <2>6. CASE ~MarkFirst /\ Behind(r)
    <3>1. Last(r)
      BY <2>1, <2>6 DEF Cover
    <3>2. w \in Hopes(r)' \/ Excused(r)'
      <4>1. CASE since < remote[r]
        <5>1. remote[r] > 0 /\ run'[w].pos < r
          BY <1>2, <1>4, <2>6, Numbers DEF IInv, RowsInv, Behind, Record
        <5>2. r \in Listed(w)'
          BY <1>2, <1>3, <1>4, <4>1, <5>1 DEF Listed
        <5> QED BY <1>2, <1>4, <5>2 DEF Hopes, WillWrite
      <4>2. CASE ~(since < remote[r])
        BY <1>1, <2>1, <2>6, <3>1, <4>2, Numbers DEF Last, Never, IInv
      <4> QED BY <4>1, <4>2
    <3>3. \A v \in Runner : run'[v].pc # "idle" => v \in Hopes(r)' \/ Excused(r)'
      <4>1. ASSUME NEW v \in Runner, run'[v].pc # "idle", v # w
            PROVE  v \in Hopes(r)' \/ Excused(r)'
        BY <1>4, <2>1, <2>2, <2>6, <3>1, <4>1 DEF Last
      <4> QED BY <3>2, <4>1
    <3>4. Last(r)'
      BY <1>3, <2>1, <2>6, <3>1, <3>3 DEF Last
    <3> QED BY <2>1, <2>6, <3>4 DEF Cover
  <2> QED BY <2>4, <2>5, <2>6
<1> QED BY <1>3, <1>6, <1>7 DEF IInv, CoverInv

(* A step of a run that does not set the marker keeps the invariant when it *)
(* keeps its own place, the rows, and what it was to write.                 *)
LEMMA QuietRunStep ==
  ASSUME SyncConstants, IInv, NEW w \in Runner,
         UNCHANGED <<shop, webhooks, redis>>,
         syncFaults' = syncFaults \/ Fault,
         run' \in [Runner -> Runs'],
         \A v \in Runner : v # w => run'[v] = run[v],
         RunOK(w)', run'[w].pc # "start",
         local' \in [Record -> Version], lost' \in [Record -> SUBSET Cause],
         \A r \in Record : local'[r] <= remote[r],
         \A r \in Record :
            /\ Behind(r)' => \/ Excused(r)'
                             \/ Behind(r) /\ (Excused(r) => Excused(r)')
            /\ MarkFirst => (w \in Writers(r) => w \in Writers(r)' \/ Excused(r)')
            /\ ~MarkFirst => 
                 \/ run'[w].pc = "idle"
                 \/ /\ run[w].pc # "idle"
                    /\ w \in Hopes(r) => w \in Hopes(r)' \/ Excused(r)'
  PROVE  IInv'
<1>1. syncFaults' \in 0 .. MaxSyncFaults
  BY FaultIs DEF IInv
<1>2. UNCHANGED <<kind, remote, marker>> /\ fresh' \in BOOLEAN
  BY DEF shop, redis, IInv, SyncTypeOK
<1>3. SyncTypeOK' /\ RowsInv' /\ RunInv'
  BY <1>1, <1>2, WorkerStep DEF IInv
<1>4. ASSUME NEW r \in Record
      PROVE  Cover(r)'
  <2>1. Cover(r)
    BY DEF IInv, CoverInv
  <2> QED BY <1>2, <2>1, RunKeeps DEF IInv
<1> QED BY <1>2, <1>3, <1>4 DEF IInv, CoverInv

(* What a run still has to write, spelled out.                              *)
LEMMA HopesIs ==
  ASSUME NEW r \in Record, NEW w \in Runner
  PROVE  /\ w \in Hopes(r) <=>
              \/ <<r, remote[r]>> \in run[w].page
              \/ /\ \/ run[w].pc \in {"start", "fetch"}
                    \/ run[w].pc = "page" /\ run[w].more
                 /\ r \in Listed(w)
         /\ w \in Writers(r) <=> w \in Hopes(r) /\ run[w].pc \in {"fetch", "page"}
         /\ w \in Hopes(r)' <=>
              \/ <<r, remote'[r]>> \in run'[w].page
              \/ /\ \/ run'[w].pc \in {"start", "fetch"}
                    \/ run'[w].pc = "page" /\ run'[w].more
                 /\ r \in Listed(w)'
         /\ w \in Writers(r)' <=> w \in Hopes(r)' /\ run'[w].pc \in {"fetch", "page"}
         /\ r \in Listed(w) <=>
              run[w].pos < r /\ run[w].since < remote[r] /\ remote[r] > 0
         /\ r \in Listed(w)' <=>
              run'[w].pos < r /\ run'[w].since < remote'[r] /\ remote'[r] > 0
  BY DEF Hopes, Writers, WillWrite, Listed

(* The next page lists what the run has not listed.                         *)
LEMMA NextPageStep ==
  ASSUME SyncConstants, IInv, NEW w \in Runner, NextPage(w)
  PROVE  IInv'
<1>1. /\ UNCHANGED <<shop, local, webhooks, redis, lost, syncFaults>>
      /\ run[w].pc = "page" /\ run[w].page = {} /\ run[w].more
      /\ run[w].pages < MaxPages[kind]
      /\ run' = [run EXCEPT ![w].pc = "fetch"]
      /\ UNCHANGED <<kind, clock, remote>>
  BY DEF NextPage, shop
<1>2. /\ run' \in [Runner -> Runs'] /\ run'[w].pc = "fetch"
      /\ run'[w].since = run[w].since /\ run'[w].pos = run[w].pos
      /\ run'[w].pages = run[w].pages /\ run'[w].page = run[w].page
      /\ \A v \in Runner : v # w => run'[v] = run[v]
  BY <1>1, StepReplaces DEF IInv
<1>3. RunOK(w)'
  BY <1>1, <1>2 DEF RunOK, IInv, RunInv
<1>4. ASSUME NEW r \in Record
      PROVE  /\ Behind(r)' => Behind(r) /\ (Excused(r) => Excused(r)')
             /\ w \in Writers(r) => w \in Writers(r)'
             /\ w \in Hopes(r) => w \in Hopes(r)'
  BY <1>1, <1>2, HopesIs DEF Behind, Excused, Excuse, MarkFirst
<1>5. /\ local' \in [Record -> Version] /\ lost' \in [Record -> SUBSET Cause]
      /\ \A r \in Record : local'[r] <= remote[r]
  BY <1>1 DEF IInv, SyncTypeOK, RowsInv
<1> QED BY <1>1, <1>2, <1>3, <1>4, <1>5, QuietRunStep

(* A run that ends its pages leaves nothing to write that is not excused.   *)
LEMMA EndPagesStep ==
  ASSUME SyncConstants, IInv, NEW w \in Runner, EndPages(w)
  PROVE  IInv'
<1>1. /\ UNCHANGED <<shop, local, webhooks, redis, syncFaults>>
      /\ run[w].pc = "page" /\ run[w].page = {}
      /\ UNCHANGED <<kind, clock, remote>>
  BY DEF EndPages, shop
<1> DEFINE d == [run[w] EXCEPT !.pc = "finish", !.pos = Records]
<1>2. /\ d \in Runs /\ d.pc = "finish" /\ d.pos = Records /\ d.page = {}
      /\ d.since = run[w].since
  <2>1. run[w] \in Runs /\ Records \in 0 .. Records
    BY Numbers DEF IInv
  <2> QED BY <1>1, <2>1 DEF Runs
<1>3. run' = [run EXCEPT ![w] = d]
  BY DEF EndPages
<1> HIDE DEF d
<1>4. /\ run' \in [Runner -> Runs'] /\ run'[w] = d
      /\ \A v \in Runner : v # w => run'[v] = run[v]
  BY <1>1, <1>2, <1>3, RunReplaces DEF IInv
<1>5. RunOK(w)'
  BY <1>1, <1>2, <1>4 DEF RunOK, IInv, RunInv
<1>6. PICK S : S = (IF run[w].more THEN Listed(w) ELSE {}) /\ Losing(S, "cut")
  BY DEF EndPages
<1>7. /\ lost' \in [Record -> SUBSET Cause]
      /\ \A r \in Record : Excused(r) => Excused(r)'
      /\ \A r \in S \intersect Record : "cut" \in Excuse => Excused(r)'
  BY <1>1, <1>6, LosingKeeps DEF Cause, IInv
<1>8. ASSUME NEW r \in Record
      PROVE  /\ Behind(r)' => Behind(r) /\ (Excused(r) => Excused(r)')
             /\ w \in Writers(r) => w \in Writers(r)' \/ Excused(r)'
             /\ w \in Hopes(r) => w \in Hopes(r)' \/ Excused(r)'
  <2>1. w \in Hopes(r) => r \in S
    BY <1>1, <1>6, HopesIs
  <2>2. "cut" \in Excuse
    BY DEF Excuse
  <2> QED BY <1>1, <1>7, <2>1, <2>2, HopesIs DEF Behind
<1>9. /\ local' \in [Record -> Version]
      /\ \A r \in Record : local'[r] <= remote[r]
  BY <1>1 DEF IInv, SyncTypeOK, RowsInv
<1> QED BY <1>1, <1>2, <1>4, <1>5, <1>7, <1>8, <1>9, QuietRunStep

(* A page that does not parse excuses all that was to be listed.            *)
LEMMA GarbledStep ==
  ASSUME SyncConstants, IInv, NEW w \in Runner, FetchGarbled(w)
  PROVE  IInv'
<1>1. /\ UNCHANGED <<shop, local, webhooks, redis>> /\ Fault
      /\ run[w].pc = "fetch" /\ run[w].page = {}
      /\ UNCHANGED <<kind, clock, remote>>
  BY DEF FetchGarbled, shop, IInv, RunInv, RunOK
<1> DEFINE d == [run[w] EXCEPT !.pc = "finish", !.pos = Records]
<1>2. /\ d \in Runs /\ d.pc = "finish" /\ d.pos = Records /\ d.page = {}
      /\ d.since = run[w].since
  <2>1. run[w] \in Runs /\ Records \in 0 .. Records
    BY Numbers DEF IInv
  <2> QED BY <1>1, <2>1 DEF Runs
<1>3. run' = [run EXCEPT ![w] = d]
  BY DEF FetchGarbled
<1> HIDE DEF d
<1>4. /\ run' \in [Runner -> Runs'] /\ run'[w] = d
      /\ \A v \in Runner : v # w => run'[v] = run[v]
  BY <1>1, <1>2, <1>3, RunReplaces DEF IInv
<1>5. RunOK(w)'
  BY <1>1, <1>2, <1>4 DEF RunOK, IInv, RunInv
<1>6. PICK S : S = Listed(w) /\ Losing(S, "garbled")
  BY DEF FetchGarbled
<1>7. /\ lost' \in [Record -> SUBSET Cause]
      /\ \A r \in Record : Excused(r) => Excused(r)'
      /\ \A r \in S \intersect Record : "garbled" \in Excuse => Excused(r)'
  BY <1>1, <1>6, LosingKeeps DEF Cause, IInv
<1>8. ASSUME NEW r \in Record
      PROVE  /\ Behind(r)' => Behind(r) /\ (Excused(r) => Excused(r)')
             /\ w \in Writers(r) => w \in Writers(r)' \/ Excused(r)'
             /\ w \in Hopes(r) => w \in Hopes(r)' \/ Excused(r)'
  <2>1. w \in Hopes(r) => r \in S
    BY <1>1, <1>6, HopesIs
  <2>2. "garbled" \in Excuse
    BY DEF Excuse
  <2> QED BY <1>1, <1>7, <2>1, <2>2, HopesIs DEF Behind
<1>9. /\ local' \in [Record -> Version]
      /\ \A r \in Record : local'[r] <= remote[r]
  BY <1>1 DEF IInv, SyncTypeOK, RowsInv
<1> QED BY <1>1, <1>2, <1>4, <1>5, <1>7, <1>8, <1>9, QuietRunStep

(* An abandoned run excuses what it leaves when it has set its marker, and  *)
(* otherwise no marker covers it.                                           *)
LEMMA AbandonStep ==
  ASSUME SyncConstants, IInv, NEW w \in Runner, Abandon(w)
  PROVE  IInv'
<1>1. /\ UNCHANGED <<shop, local, webhooks, redis>> /\ Fault
      /\ run' = [run EXCEPT ![w] = NoRun]
      /\ UNCHANGED <<kind, clock, remote>>
  BY DEF Abandon, shop
<1>2. /\ NoRun \in Runs /\ NoRun.pc = "idle" /\ NoRun.page = {}
      /\ NoRun.since = Never
  BY NoRunIs DEF IInv, NoRun
<1>4. /\ run' \in [Runner -> Runs'] /\ run'[w] = NoRun
      /\ \A v \in Runner : v # w => run'[v] = run[v]
  BY <1>1, <1>2, RunReplaces DEF IInv
<1>5. RunOK(w)'
  BY <1>1, <1>2, <1>4, Numbers DEF RunOK, IInv, Never
<1>6. PICK S : /\ S = (IF run[w].pc = "start" THEN {} ELSE Unwritten(w))
               /\ Losing(S, "abandoned")
  BY DEF Abandon
<1>7. /\ lost' \in [Record -> SUBSET Cause]
      /\ \A r \in Record : Excused(r) => Excused(r)'
      /\ \A r \in S \intersect Record : "abandoned" \in Excuse => Excused(r)'
  BY <1>1, <1>6, LosingKeeps DEF Cause, IInv
<1>8. ASSUME NEW r \in Record
      PROVE  /\ Behind(r)' => Behind(r) /\ (Excused(r) => Excused(r)')
             /\ MarkFirst => (w \in Writers(r) => w \in Writers(r)' \/ Excused(r)')
  <2>1. ASSUME w \in Writers(r)
        PROVE  r \in S
    <3>1. run[w].pc \in {"fetch", "page"}
      BY <2>1, HopesIs
    <3>2. CASE <<r, remote[r]>> \in run[w].page
      <4>1. r \in {p[1] : p \in run[w].page}
        BY <3>2
      <4> QED BY <1>6, <3>1, <4>1 DEF Unwritten
    <3>3. CASE ~(<<r, remote[r]>> \in run[w].page)
      BY <1>6, <2>1, <3>1, <3>3, HopesIs DEF Unwritten
    <3> QED BY <3>2, <3>3
  <2>2. MarkFirst => "abandoned" \in Excuse
    BY DEF Excuse
  <2>3. Behind(r)' => Behind(r)
    BY <1>1 DEF Behind
  <2> QED BY <1>7, <2>1, <2>2, <2>3
<1>9. /\ local' \in [Record -> Version]
      /\ \A r \in Record : local'[r] <= remote[r]
  BY <1>1 DEF IInv, SyncTypeOK, RowsInv
<1> QED BY <1>1, <1>2, <1>4, <1>5, <1>7, <1>8, <1>9, QuietRunStep

(* A row of a page is written, an older copy over a newer one perhaps, or   *)
(* its failure is noted; the rest of the page stays to be written.          *)
LEMMA WriteStep ==
  ASSUME SyncConstants, IInv, NEW w \in Runner, WriteRecord(w)
  PROVE  IInv'
<1>1. /\ UNCHANGED <<shop, webhooks, redis>> /\ run[w].pc = "page"
      /\ UNCHANGED <<kind, clock, remote>>
  BY DEF WriteRecord, shop
<1>2. run[w] \in Runs
  BY Numbers DEF IInv
<1>3. PICK p \in run[w].page :
         /\ \/ UpsertRow(p[1], p[2]) /\ UNCHANGED syncFaults
            \/ Fault /\ Losing({p[1]}, "failed") /\ UNCHANGED local
         /\ run' = [run EXCEPT ![w].page = @ \ {p}]
  BY DEF WriteRecord
<1>4. PICK s \in Record, v \in Version : p = <<s, v>>
  BY <1>2, <1>3 DEF Runs
<1> DEFINE d == [run[w] EXCEPT !.page = run[w].page \ {p}]
<1>5. /\ d \in Runs /\ d.pc = "page" /\ d.page = run[w].page \ {p}
      /\ d.since = run[w].since /\ d.pos = run[w].pos /\ d.more = run[w].more
  BY <1>1, <1>2 DEF Runs
<1>6. run' = [run EXCEPT ![w] = d]
  BY <1>3, Zenon
<1> HIDE DEF d
<1>7. /\ run' \in [Runner -> Runs'] /\ run'[w] = d
      /\ \A u \in Runner : u # w => run'[u] = run[u]
  BY <1>1, <1>5, <1>6, RunReplaces DEF IInv
<1>8. RunOK(w)'
  BY <1>1, <1>5, <1>7 DEF RunOK, IInv, RunInv
<1>9. v <= remote[s]
  BY <1>3, <1>4 DEF IInv, RunInv, RunOK
<1>10. /\ local' \in [Record -> Version] /\ lost' \in [Record -> SUBSET Cause]
       /\ \A r \in Record : local'[r] <= remote[r]
       /\ \A r \in Record :
             Behind(r)' => \/ Excused(r)'
                           \/ Behind(r) /\ (Excused(r) => Excused(r)')
  <2>1. CASE UpsertRow(p[1], p[2])
    BY <1>1, <1>4, <1>9, <2>1, UpsertKeeps DEF IInv
  <2>2. CASE Losing({p[1]}, "failed") /\ UNCHANGED local
    <3>1. /\ lost' \in [Record -> SUBSET Cause]
          /\ \A r \in Record : Excused(r) => Excused(r)'
      BY <1>1, <2>2, LosingKeeps DEF IInv, Cause
    <3> QED BY <1>1, <2>2, <3>1 DEF IInv, SyncTypeOK, RowsInv, Behind
  <2> QED BY <1>3, <2>1, <2>2
<1>11. ASSUME NEW r \in Record, Behind(r)', w \in Hopes(r)
       PROVE  w \in Hopes(r)' \/ Excused(r)'
  <2>1. CASE <<r, remote[r]>> = p
    <3>1. r = s /\ v = remote[s]
      BY <1>4, <2>1
    <3>2. CASE UpsertRow(p[1], p[2])
      <4>1. local'[s] = remote[s]
        BY <1>4, <3>1, <3>2 DEF UpsertRow, IInv, SyncTypeOK
      <4> QED BY <1>1, <1>11, <3>1, <4>1 DEF Behind
    <3>3. CASE Losing({p[1]}, "failed")
      <4>1. "failed" \in Excuse /\ s \in {p[1]} \intersect Record
        BY <1>4 DEF Excuse
      <4> QED BY <1>1, <3>1, <3>3, <4>1, LosingKeeps DEF IInv, Cause
    <3> QED BY <1>3, <3>2, <3>3
  <2>2. CASE <<r, remote[r]>> # p
    BY <1>1, <1>5, <1>7, <1>11, <2>2, HopesIs
  <2> QED BY <2>1, <2>2
<1>12. ASSUME NEW r \in Record, ~Behind(r)'
       PROVE  Cover(r)'
  BY <1>12 DEF Cover, First, Last
<1>13. SyncTypeOK' /\ RowsInv' /\ RunInv'
  <2>1. syncFaults' \in 0 .. MaxSyncFaults
    BY <1>3, FaultIs DEF IInv
  <2>2. marker' = marker /\ fresh' \in BOOLEAN
    BY <1>1 DEF redis, IInv, SyncTypeOK
  <2> QED BY <1>1, <1>7, <1>8, <1>10, <2>1, <2>2, WorkerStep DEF IInv
<1>14. ASSUME NEW r \in Record, Behind(r)'
       PROVE  Cover(r)'
  <2>1. Cover(r) /\ marker' = marker /\ run'[w].pc = "page"
    BY <1>1, <1>5, <1>7 DEF IInv, CoverInv, redis
  <2>2. w \in Writers(r) => w \in Writers(r)' \/ Excused(r)'
    BY <1>11, <1>14, <2>1, HopesIs
  <2> QED BY <1>1, <1>7, <1>10, <1>11, <1>14, <2>1, <2>2, RunKeeps DEF IInv
<1> QED BY <1>12, <1>13, <1>14 DEF IInv, CoverInv

(* A page takes the first of what the run lists; the rest is listed by its  *)
(* next page.                                                               *)
LEMMA FetchStep ==
  ASSUME SyncConstants, IInv, NEW w \in Runner, FetchPage(w)
  PROVE  IInv'
<1>1. /\ UNCHANGED <<shop, local, webhooks, redis, lost, syncFaults>>
      /\ run[w].pc = "fetch" /\ run[w].page = {}
      /\ run[w].pages < MaxPages[kind]
      /\ UNCHANGED <<kind, clock, remote>>
  BY DEF FetchPage, shop, IInv, RunInv, RunOK
<1> DEFINE L == Listed(w)
           taken(on) == {<<r, remote[r]>> : r \in on}
           last(on) == IF on = L THEN Records ELSE Max(on)
           d(on) == [run[w] EXCEPT !.pc = "page", !.page = taken(on),
                        !.pages = run[w].pages + 1, !.more = on # L,
                        !.pos = last(on)]
<1>2. PICK on \in SUBSET L :
         /\ \A r \in on, s \in L \ on : r < s
         /\ \/ Cardinality(on) = PageSize
            \/ Cardinality(on) < PageSize /\ on = L
         /\ run' = [run EXCEPT ![w] = d(on)]
  BY DEF FetchPage
<1>3. L \subseteq Record /\ run[w] \in Runs /\ Records \in Nat
  BY Numbers DEF IInv, Listed
<1>4. last(on) \in 0 .. Records /\ \A s \in L \ on : last(on) < s
  <2>1. CASE on = L
    BY <1>3, <2>1
  <2>2. CASE on # L
    <3>1. on # {}
      BY <1>2, <2>2, Numbers, FS_EmptySet DEF IInv
    <3>2. on \in SUBSET (1 .. Records)
      BY <1>2, <1>3 DEF Record
    <3>3. Max(on) \in on
      BY <1>3, <3>1, <3>2, MaxIs
    <3> QED BY <1>2, <1>3, <2>2, <3>2, <3>3
  <2> QED BY <2>1, <2>2
<1>5. taken(on) \in SUBSET (Record \X Version)
  BY <1>2, <1>3 DEF IInv, SyncTypeOK
<1>6. run[w].pages + 1 \in 0 .. MaxPages[kind]
  BY <1>1, Numbers DEF IInv
<1> HIDE DEF L, taken, last
<1>7. /\ d(on) \in Runs /\ d(on).pc = "page" /\ d(on).page = taken(on)
      /\ d(on).since = run[w].since /\ d(on).pos = last(on)
      /\ d(on).more = (on # L)
  BY <1>3, <1>4, <1>5, <1>6 DEF Runs
<1> HIDE DEF d
<1>8. /\ run' \in [Runner -> Runs'] /\ run'[w] = d(on)
      /\ \A v \in Runner : v # w => run'[v] = run[v]
  BY <1>1, <1>2, <1>7, RunReplaces DEF IInv
<1>9. RunOK(w)'
  <2>1. run'[w].since <= clock'
    BY <1>1, <1>7, <1>8 DEF IInv, RunInv, RunOK
  <2>2. \A p \in run'[w].page : p[2] <= remote'[p[1]]
    BY <1>1, <1>2, <1>3, <1>7, <1>8, Numbers DEF taken, IInv
  <2>3. ~run'[w].more => run'[w].pos = Records
    BY <1>7, <1>8 DEF last
  <2> QED BY <1>7, <1>8, <2>1, <2>2, <2>3 DEF RunOK
<1>10. ASSUME NEW r \in Record
       PROVE  /\ Behind(r)' => Behind(r) /\ (Excused(r) => Excused(r)')
              /\ w \in Writers(r) => w \in Writers(r)'
              /\ w \in Hopes(r) => w \in Hopes(r)'
  <2>1. w \in Hopes(r) => r \in L
    BY <1>1, HopesIs DEF L
  <2>2. CASE r \in on
    <3>1. <<r, remote'[r]>> \in run'[w].page
      BY <1>1, <1>7, <1>8, <2>2 DEF taken
    <3> QED BY <1>1, <1>7, <1>8, <3>1, HopesIs
            DEF Behind, Excused, Excuse, MarkFirst
  <2>3. CASE r \in L \ on
    <3>1. r \in Listed(w)' /\ on # L
      BY <1>1, <1>4, <1>7, <1>8, <2>3, HopesIs DEF L
    <3> QED BY <1>1, <1>7, <1>8, <3>1, HopesIs
            DEF Behind, Excused, Excuse, MarkFirst
  <2>4. CASE r \notin L
    BY <1>1, <2>1, <2>4, HopesIs DEF Behind, Excused, Excuse, MarkFirst
  <2> QED BY <2>2, <2>3, <2>4
<1>11. /\ local' \in [Record -> Version] /\ lost' \in [Record -> SUBSET Cause]
       /\ \A r \in Record : local'[r] <= remote[r]
  BY <1>1 DEF IInv, SyncTypeOK, RowsInv
<1> QED BY <1>1, <1>7, <1>8, <1>9, <1>10, <1>11, QuietRunStep

(* A run that marks first may set the marker to now: what its own marker    *)
(* does not cover it will list.                                             *)
LEMMA BeginStep ==
  ASSUME SyncConstants, IInv, NEW w \in Runner, BeginSync(w)
  PROVE  IInv'
<1>1. /\ UNCHANGED <<shop, local, webhooks, lost>> /\ run[w].pc = "start"
      /\ run' = [run EXCEPT ![w].pc = "fetch"]
      /\ UNCHANGED <<kind, clock, remote>>
      /\ SetMarker \/ UNCHANGED <<redis, syncFaults>>
      /\ ~MarkFirst => UNCHANGED <<redis, syncFaults>>
  BY DEF BeginSync, shop
<1>2. /\ run' \in [Runner -> Runs'] /\ run'[w].pc = "fetch"
      /\ run'[w].since = run[w].since /\ run'[w].pos = run[w].pos
      /\ run'[w].pages = run[w].pages /\ run'[w].page = run[w].page
      /\ \A v \in Runner : v # w => run'[v] = run[v]
  BY <1>1, StepReplaces DEF IInv
<1>3. RunOK(w) /\ run[w].pos = 0 /\ run[w].pages = 0 /\ run[w].page = {}
  BY <1>1 DEF IInv, RunInv, RunOK
<1>4. RunOK(w)'
  BY <1>1, <1>2, <1>3, Numbers DEF RunOK, IInv
<1>5. /\ local' \in [Record -> Version] /\ lost' \in [Record -> SUBSET Cause]
      /\ \A r \in Record : local'[r] <= remote[r]
  BY <1>1 DEF IInv, SyncTypeOK, RowsInv
<1>6. ASSUME NEW r \in Record
      PROVE  /\ Behind(r)' = Behind(r) /\ Excused(r)' = Excused(r)
             /\ w \notin Writers(r)
             /\ w \in Hopes(r) => w \in Hopes(r)'
  BY <1>1, <1>2, HopesIs DEF Behind, Excused, Excuse, MarkFirst
<1>7. CASE UNCHANGED redis /\ (syncFaults' = syncFaults \/ Fault)
  BY <1>1, <1>2, <1>4, <1>5, <1>6, <1>7, QuietRunStep
<1>8. CASE MarkFirst /\ marker' = clock /\ fresh' = TRUE /\ UNCHANGED syncFaults
  <2>1. SyncTypeOK' /\ RowsInv' /\ RunInv'
    <3>1. syncFaults' \in 0 .. MaxSyncFaults
      BY <1>8, FaultIs DEF IInv
    <3> QED BY <1>1, <1>2, <1>4, <1>5, <1>8, <3>1, WorkerStep DEF IInv
  <2>2. ASSUME NEW r \in Record, Behind(r)
        PROVE  First(r)'
    <3>1. /\ First(r) /\ Writers(r) \ {w} \subseteq Writers(r)'
          /\ Excused(r)' = Excused(r) /\ w \notin Writers(r)
      BY <1>1, <1>2, <1>6, <1>8, OthersHope DEF IInv, CoverInv, Cover
    <3>2. \A m : Covered(r, m) => Covered(r, m)'
      BY <1>1, <3>1 DEF Covered
    <3>3. Writers(r)' # {} \/ Excused(r)'
      <4>1. CASE run[w].since < remote[r]
        <5>1. remote[r] > 0 /\ run[w].pos < r
          BY <1>3, <2>2, Numbers DEF IInv, RowsInv, Behind, Record
        <5>2. w \in Writers(r)'
          BY <1>1, <1>2, <4>1, <5>1, HopesIs
        <5> QED BY <5>2
      <4>2. CASE ~(run[w].since < remote[r])
        BY <1>1, <2>2, <3>1, <4>2 DEF First, Covered
      <4> QED BY <4>1, <4>2
    <3>4. ASSUME NEW v \in Runner, run'[v].pc = "start"
          PROVE  Covered(r, run[v].since)'
      BY <3>3 DEF Covered
    <3> QED BY <3>3, <3>4 DEF First, Covered
  <2>3. ASSUME NEW r \in Record
        PROVE  Cover(r)'
    <3>1. MarkFirst'
      BY <1>1, <1>8 DEF MarkFirst
    <3>2. First(r)'
      BY <1>6, <2>2 DEF First
    <3> QED BY <3>1, <3>2 DEF Cover
  <2> QED BY <1>1, <2>1, <2>3 DEF IInv, CoverInv
<1> QED BY <1>1, <1>7, <1>8 DEF SetMarker

(* A run that marks last may set the marker to now: all that it had to      *)
(* write is written or excused.                                             *)
LEMMA FinishStep ==
  ASSUME SyncConstants, IInv, NEW w \in Runner, Finish(w)
  PROVE  IInv'
<1>1. /\ UNCHANGED <<shop, local, webhooks, lost>> /\ run[w].pc = "finish"
      /\ run' = [run EXCEPT ![w] = NoRun]
      /\ UNCHANGED <<kind, clock, remote>>
      /\ SetMarker \/ UNCHANGED <<redis, syncFaults>>
      /\ MarkFirst => UNCHANGED <<redis, syncFaults>>
  BY DEF Finish, shop
<1>2. /\ NoRun \in Runs /\ NoRun.pc = "idle" /\ NoRun.page = {}
      /\ NoRun.since = Never
  BY NoRunIs DEF IInv, NoRun
<1>3. /\ run' \in [Runner -> Runs'] /\ run'[w] = NoRun
      /\ \A v \in Runner : v # w => run'[v] = run[v]
  BY <1>1, <1>2, RunReplaces DEF IInv
<1>4. RunOK(w)'
  BY <1>1, <1>2, <1>3, Numbers DEF RunOK, IInv, Never
<1>5. /\ local' \in [Record -> Version] /\ lost' \in [Record -> SUBSET Cause]
      /\ \A r \in Record : local'[r] <= remote[r]
  BY <1>1 DEF IInv, SyncTypeOK, RowsInv
<1>6. ASSUME NEW r \in Record
      PROVE  /\ Behind(r)' = Behind(r) /\ Excused(r)' = Excused(r)
             /\ w \notin Hopes(r) /\ w \notin Writers(r)
  <2>1. run[w].page = {}
    BY <1>1 DEF IInv, RunInv, RunOK
  <2> QED BY <1>1, <2>1, HopesIs DEF Behind, Excused, Excuse, MarkFirst
<1>7. CASE UNCHANGED redis /\ (syncFaults' = syncFaults \/ Fault)
  BY <1>1, <1>2, <1>3, <1>4, <1>5, <1>6, <1>7, QuietRunStep
<1>8. CASE ~MarkFirst /\ marker' = clock /\ fresh' = TRUE /\ UNCHANGED syncFaults
  <2>1. SyncTypeOK' /\ RowsInv' /\ RunInv'
    <3>1. syncFaults' \in 0 .. MaxSyncFaults
      BY <1>8, FaultIs DEF IInv
    <3> QED BY <1>1, <1>3, <1>4, <1>5, <1>8, <3>1, WorkerStep DEF IInv
  <2>2. ASSUME NEW r \in Record
        PROVE  Cover(r)'
    <3>1. ~MarkFirst' /\ Last(r)
      BY <1>1, <1>8 DEF MarkFirst, IInv, CoverInv, Cover
    <3>2. CASE ~Behind(r)
      BY <1>6, <3>1, <3>2 DEF Cover, Last
    <3>3. CASE Behind(r)
      <4>1. Excused(r)'
        BY <1>1, <1>6, <3>1, <3>3 DEF Last
      <4> QED BY <3>1, <4>1 DEF Cover, Last
    <3> QED BY <3>2, <3>3
  <2> QED BY <1>1, <2>1, <2>2 DEF IInv, CoverInv
<1> QED BY <1>1, <1>7, <1>8 DEF SetMarker

-----------------------------------------------------------------------------
(* The theorems.                                                            *)

(* Nothing has happened, and nothing is behind.                             *)
LEMMA SyncStarts ==
  ASSUME SyncConstants, SyncInit
  PROVE  IInv
<1>1. Records \in Nat /\ MaxChanges \in Nat /\ MaxSyncFaults \in Nat
  BY DEF SyncConstants
<1>2. MaxPages[kind] \in Nat
  BY DEF SyncConstants, SyncInit
<1>3. NoRun \in Runs
  BY <1>1, <1>2 DEF NoRun, Runs, Never
<1>4. SyncTypeOK
  <2>1. 0 \in Version /\ 0 \in 0 .. MaxSyncFaults
    BY <1>1 DEF Version
  <2>2. run \in [Runner -> Runs]
    BY <1>3 DEF SyncInit
  <2> QED BY <2>1, <2>2 DEF SyncInit, SyncTypeOK
<1>5. RowsInv
  BY DEF SyncInit, RowsInv, Never
<1>6. RunInv
  BY DEF SyncInit, RunInv, RunOK, NoRun, Never
<1>7. CoverInv
  BY DEF SyncInit, CoverInv, Cover, First, Last, Behind
<1> QED BY <1>4, <1>5, <1>6, <1>7 DEF IInv

(* Every step keeps the inductive invariant.                                *)
LEMMA SyncStep ==
  ASSUME SyncConstants, IInv, [SyncNext]_syncVars
  PROVE  IInv'
<1>1. ASSUME NEW r \in Record, Change(r)
      PROVE  IInv'
  BY <1>1, ChangeStep
<1>2. ASSUME NEW p \in webhooks, HandleWebhook(p[1], p[2])
      PROVE  IInv'
  BY <1>2, WebhookStep
<1>3. CASE WindowPasses \/ MarkerExpires \/ UNCHANGED syncVars
  BY <1>3, TimeStep
<1>4. ASSUME NEW w \in Runner,
             ReadMarker(w) \/ Proceed(w) \/ FetchGarbled(w) \/ Abandon(w)
      PROVE  IInv'
  BY <1>4, ReadStep, BeginStep, FetchStep, WriteStep, NextPageStep, EndPagesStep,
     FinishStep, GarbledStep, AbandonStep DEF Proceed
<1> QED BY <1>1, <1>2, <1>3, <1>4 DEF SyncNext

(* What the inductive invariant says of the marker.                         *)
LEMMA CoverImplies ==
  ASSUME IInv
  PROVE  MarkerCovers
<1>1. ASSUME NEW r \in Record, Behind(r)
      PROVE  \/ marker < remote[r]
             \/ \E w \in Runner : WillWrite(w, r)
             \/ lost[r] \intersect Excuse # {}
  <2>1. Cover(r)
    BY DEF IInv, CoverInv
  <2>2. Writers(r) # {} => \E w \in Runner : WillWrite(w, r)
    BY DEF Writers, Hopes
  <2> QED BY <1>1, <2>1, <2>2 DEF Cover, First, Last, Covered, Excused
<1>2. LostOnlyBy(Excuse)
  BY <1>1 DEF LostOnlyBy
<1> QED BY <1>2 DEF MarkerCovers, MarkedFirstCovers, MarkedLastCovers, Excuse

(* The records, the rows, the marker and the runs keep their types, and no  *)
(* run fetches more than its page limit (cron.go 80-330, products.go        *)
(* 140-218).                                                                *)
THEOREM SyncTypes ==
  ASSUME SyncConstants
  PROVE  SyncSpec => []SyncTypeOK
<1>1. SyncInit => IInv
  BY SyncStarts
<1>2. IInv /\ [SyncNext]_syncVars => IInv'
  BY SyncStep
<1>3. IInv => SyncTypeOK
  BY DEF IInv
<1> QED BY <1>1, <1>2, <1>3, PTL DEF SyncSpec

(* However calls, pages, webhooks and failures interleave, a change that    *)
(* the marker has passed is written, or will be by a run under way, or was  *)
(* lost in one of the ways that the kind of record allows: marking first,   *)
(* never because it was made while a run was paging; marking last, never    *)
(* because a run was abandoned (cron.go 131-141, 155-192, 312-330).         *)
THEOREM MarkerIsSafe ==
  ASSUME SyncConstants
  PROVE  SyncSpec => []MarkerCovers
<1>1. SyncInit => IInv
  BY SyncStarts
<1>2. IInv /\ [SyncNext]_syncVars => IInv'
  BY SyncStep
<1>3. IInv => MarkerCovers
  BY CoverImplies
<1> QED BY <1>1, <1>2, <1>3, PTL DEF SyncSpec
=============================================================================
