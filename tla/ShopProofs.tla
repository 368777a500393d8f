------------------------------ MODULE ShopProofs ------------------------------
(***************************************************************************)
(* The life of a shop, its bill, its content, its knowledge base and its   *)
(* insights: the theorems of ShopLifecycle, of Billing, of Content, of Rag *)
(* and of Insight.                                                         *)
(***************************************************************************)
EXTENDS ShopLifecycle, Billing, Content, Rag, Insight, FiniteSetTheorems, TLAPS

(***************************************************************************)
(* Installations, deletions, webhooks.                                     *)
(***************************************************************************)
Config == "shop_llm_configs"

\* Tables that hold rows although the deletion has been there.
Behind == (filled \cap Cleaned) \ todo

\* Of the tables that the deletion has come to, one that holds rows costs a late
\* write or a failed deletion; when it ends it has come to all of them.
BehindBounded ==
    /\ cleaning # "no" => Cardinality(Behind) <= late + failed
    /\ cleaning = "done" => todo = {}

LifecycleInv == LifecycleTypeOK /\ ConfigStored /\ BehindBounded

LEMMA BehindFinite ==
    ASSUME LifecycleConstants
    PROVE  IsFiniteSet(Behind) /\ Cardinality(Behind) \in Nat
<1>1. IsFiniteSet(Cleaned) BY DEF LifecycleConstants
<1>2. Behind \subseteq Cleaned BY DEF Behind
<1>3. IsFiniteSet(Behind) BY <1>1, <1>2, FS_Subset
<1> QED BY <1>3, FS_CardinalityType

\* A table more is one more, and a table that was there already is none.
LEMMA OneTableMore ==
    ASSUME NEW S, NEW T, NEW t, IsFiniteSet(S), T \subseteq S \cup {t}
    PROVE  /\ Cardinality(T) <= Cardinality(S) + 1
           /\ t \in S => Cardinality(T) <= Cardinality(S)
<1>1. IsFiniteSet(S \cup {t}) /\ Cardinality(S \cup {t}) =
      IF t \in S THEN Cardinality(S) ELSE Cardinality(S) + 1 BY FS_AddElement
<1>2. IsFiniteSet(T) /\ Cardinality(T) <= Cardinality(S \cup {t}) BY <1>1, FS_Subset
<1>3. Cardinality(S) \in Nat /\ Cardinality(T) \in Nat BY <1>2, FS_CardinalityType
<1> QED BY <1>1, <1>2, <1>3

LEMMA LifecycleInitSatisfies ==
    ASSUME LifecycleConstants, LifecycleInit PROVE LifecycleInv
BY DEF LifecycleConstants, LifecycleInit, LifecycleInv, LifecycleTypeOK, ConfigStored,
       BehindBounded, Config

\* A write to one table.
LEMMA WriteKeeps ==
    ASSUME LifecycleConstants, BehindBounded, late \in Nat, failed \in Nat,
           NEW t, NEW n \in 0..1, filled' = filled \cup {t}, late' = Late(n),
           n = 0 => t \in filled,
           UNCHANGED <<cleaning, todo, failed>>
    PROVE  BehindBounded'
<1>1. Behind' \subseteq Behind \cup {t} BY DEF Behind
<1>2. t \in filled => Behind' = Behind BY DEF Behind
<1>3. IsFiniteSet(Behind) /\ Cardinality(Behind) \in Nat BY BehindFinite
<1>4. Cardinality(Behind') <= Cardinality(Behind) + 1 BY <1>1, <1>3, OneTableMore
<1>5. IsFiniteSet(Behind') BY <1>1, <1>3, FS_AddElement, FS_Subset
<1>6. Cardinality(Behind') \in Nat BY <1>5, FS_CardinalityType
<1>7. Cardinality(Behind') <= Cardinality(Behind) + n
  <2>1. CASE n = 0 BY <2>1, <1>2, <1>3
  <2>2. CASE n = 1 BY <2>2, <1>4
  <2> QED BY <2>1, <2>2
<1>8. cleaning # "no" => Cardinality(Behind') <= late' + failed'
  BY <1>3, <1>6, <1>7 DEF BehindBounded, Late
<1> QED BY <1>8 DEF BehindBounded

\* Tables lose their rows.
LEMMA ClearKeeps ==
    ASSUME LifecycleConstants, BehindBounded, late \in Nat, failed \in Nat,
           filled' \subseteq filled, UNCHANGED <<cleaning, todo, late, failed>>
    PROVE  BehindBounded'
<1>1. Behind' \subseteq Behind BY DEF Behind
<1>2. IsFiniteSet(Behind) /\ Cardinality(Behind) \in Nat BY BehindFinite
<1>3. IsFiniteSet(Behind') /\ Cardinality(Behind') <= Cardinality(Behind)
  BY <1>1, <1>2, FS_Subset
<1>4. Cardinality(Behind') \in Nat BY <1>3, FS_CardinalityType
<1> QED BY <1>2, <1>3, <1>4 DEF BehindBounded

LEMMA LifecycleNextKeeps ==
    ASSUME LifecycleConstants, LifecycleInv, [LifecycleNext]_lifecycleVars
    PROVE  LifecycleInv'
<1> USE DEF Config
<1>0. LifecycleTypeOK /\ ConfigStored /\ BehindBounded /\ late \in Nat /\ failed \in Nat
  BY DEF LifecycleInv, LifecycleTypeOK, LifecycleConstants
<1>1. CASE UNCHANGED lifecycleVars
  BY <1>1, <1>0 DEF lifecycleVars, dataVars, instVars, LifecycleInv, LifecycleTypeOK,
     ConfigStored, BehindBounded, Behind
<1>2. CASE ShopRedact \/ CustomerRedact
  <2>1. /\ filled' \subseteq filled /\ (Config \in filled' <=> Config \in filled)
        /\ shopRow' = shopRow
        /\ UNCHANGED <<cleaning, todo, late, failed, llmConfigs>>
    BY <1>2 DEF ShopRedact, CustomerRedact, LifecycleConstants, instVars
  <2>2. BehindBounded' BY <2>1, <1>0, ClearKeeps
  <2> QED BY <2>1, <2>2, <1>0 DEF LifecycleInv, LifecycleTypeOK, ConfigStored
<1>3. ASSUME NEW i \in Installs, ActivateTheme(i) PROVE LifecycleInv'
  <2>1. /\ filled' = filled \cup {Config} /\ llmConfigs' = 1 /\ late' = Late(1 - llmConfigs)
        /\ UNCHANGED <<cleaning, todo, failed>>
        /\ shopRow' = [shopRow EXCEPT !.token = TRUE]
    BY <1>3 DEF ActivateTheme
  <2>2. 1 - llmConfigs \in 0..1 /\ (1 - llmConfigs = 0 => Config \in filled)
    BY <1>0 DEF LifecycleTypeOK, ConfigStored
  <2>3. BehindBounded' BY <2>1, <2>2, <1>0, WriteKeeps
  <2>4. LifecycleTypeOK'
    <3>1. shopRow' \in [token: BOOLEAN, uninstalled: BOOLEAN]
      BY <2>1, <1>0 DEF LifecycleTypeOK
    <3>2. late' \in Nat BY <2>1, <2>2, <1>0 DEF Late
    <3>3. filled' \subseteq Scoped BY <2>1, <1>0 DEF LifecycleTypeOK, LifecycleConstants
    <3> QED BY <2>1, <3>1, <3>2, <3>3, <1>0 DEF LifecycleTypeOK
  <2> QED BY <2>1, <2>3, <2>4 DEF LifecycleInv, ConfigStored
<1>4. ASSUME NEW i \in Installs, ReadSettings(i) \/ PutSettings(i) PROVE LifecycleInv'
  BY <1>4, <1>0 DEF ReadSettings, PutSettings, dataVars, LifecycleInv, LifecycleTypeOK,
     ConfigStored, BehindBounded, Behind
<1>5. ASSUME NEW i \in Installs, NEW t \in Synced, InitialSync(i, t) PROVE LifecycleInv'
  <2>1. /\ \/ filled' = filled \cup {t} /\ late' = Late(1)
           \/ filled' = filled /\ late' = late
        /\ UNCHANGED <<cleaning, todo, failed, llmConfigs, shopRow>>
        /\ t \in Scoped /\ t # Config
    BY <1>5 DEF InitialSync, LifecycleConstants
  <2>2. BehindBounded' BY <2>1, <1>0, WriteKeeps, ClearKeeps
  <2>3. late' \in Nat BY <2>1, <1>0 DEF Late
  <2>4. filled' \subseteq Scoped BY <2>1, <1>0 DEF LifecycleTypeOK
  <2>5. UNCHANGED <<shopRow, cleaning, todo, failed, llmConfigs>> BY <2>1
  <2>6. LifecycleTypeOK' BY <2>3, <2>4, <2>5, <1>0 DEF LifecycleTypeOK
  <2> QED BY <2>1, <2>2, <2>6, <1>0 DEF LifecycleInv, ConfigStored
<1>6. CASE MerchantEdits
  BY <1>6, <1>0 DEF MerchantEdits, dataVars, LifecycleInv, LifecycleTypeOK,
     ConfigStored, BehindBounded, Behind
<1>7. CASE Uninstall
  <2>1. /\ cleaning' = "run" /\ todo' = Cleaned /\ late' = 0 /\ failed' = 0
        /\ UNCHANGED <<filled, llmConfigs>>
        /\ shopRow' \in {[shopRow EXCEPT !.uninstalled = TRUE], shopRow}
    BY <1>7 DEF Uninstall, instVars
  <2>2. Behind' = {} BY <2>1 DEF Behind
  <2>3. Cardinality(Behind') = 0 BY <2>2, FS_EmptySet
  <2>4. BehindBounded' BY <2>1, <2>3 DEF BehindBounded
  <2>5. shopRow' \in [token: BOOLEAN, uninstalled: BOOLEAN]
    BY <2>1, <1>0 DEF LifecycleTypeOK
  <2>6. LifecycleTypeOK' BY <2>1, <2>5, <1>0 DEF LifecycleTypeOK, LifecycleConstants
  <2> QED BY <2>1, <2>4, <2>6, <1>0 DEF LifecycleInv, ConfigStored
<1>8. ASSUME NEW t \in Scoped \ {"shop_llm_configs"}, DataWebhook(t) PROVE LifecycleInv'
  <2>1. /\ filled' = filled \cup {t} /\ late' = Late(1)
        /\ UNCHANGED <<cleaning, todo, failed, llmConfigs, shopRow>>
    BY <1>8 DEF DataWebhook, instVars
  <2>2. BehindBounded' BY <2>1, <1>0, WriteKeeps
  <2>3. late' \in Nat BY <2>1, <1>0 DEF Late
  <2>4. filled' \subseteq Scoped BY <2>1, <1>0 DEF LifecycleTypeOK
  <2>5. UNCHANGED <<shopRow, cleaning, todo, failed, llmConfigs>> BY <2>1
  <2>6. LifecycleTypeOK' BY <2>3, <2>4, <2>5, <1>0 DEF LifecycleTypeOK
  <2> QED BY <2>1, <2>2, <2>6, <1>0 DEF LifecycleInv, ConfigStored
<1>9. ASSUME NEW t \in Cleaned, DeleteTable(t) PROVE LifecycleInv'
  <2>1. /\ cleaning = "run" /\ t \in todo /\ todo' = todo \ {t} /\ late' = late
        /\ cleaning' = IF todo = {t} THEN "done" ELSE "run"
        /\ shopRow' = shopRow
    BY <1>9 DEF DeleteTable
  <2>2. IsFiniteSet(Behind) /\ Cardinality(Behind) \in Nat BY BehindFinite
  <2>3. CASE /\ filled' = filled \ {t} /\ failed' = failed
             /\ llmConfigs' = IF t = "shop_llm_configs" THEN 0 ELSE llmConfigs
    <3>1. Behind' = Behind BY <2>1, <2>3 DEF Behind
    <3>2. BehindBounded' BY <2>1, <2>3, <3>1, <1>0 DEF BehindBounded
    <3>3. LifecycleTypeOK' BY <2>1, <2>3, <1>0 DEF LifecycleTypeOK
    <3>4. ConfigStored' BY <2>3, <1>0 DEF ConfigStored
    <3> QED BY <3>2, <3>3, <3>4 DEF LifecycleInv
  <2>4. CASE /\ failed < MaxDeleteFailures /\ failed' = failed + 1
             /\ UNCHANGED <<filled, llmConfigs>>
    <3>1. Behind' \subseteq Behind \cup {t} BY <2>1, <2>4 DEF Behind
    <3>2. Cardinality(Behind') <= Cardinality(Behind) + 1 BY <3>1, <2>2, OneTableMore
    <3>3. IsFiniteSet(Behind') BY <3>1, <2>2, FS_AddElement, FS_Subset
    <3>4. Cardinality(Behind') \in Nat BY <3>3, FS_CardinalityType
    <3>5. BehindBounded' BY <2>1, <2>2, <2>4, <3>2, <3>4, <1>0 DEF BehindBounded
    <3>6. LifecycleTypeOK'
      BY <2>1, <2>4, <1>0 DEF LifecycleTypeOK, LifecycleConstants
    <3>7. ConfigStored' BY <2>4, <1>0 DEF ConfigStored
    <3> QED BY <3>5, <3>6, <3>7 DEF LifecycleInv
  <2> QED BY <1>9, <2>3, <2>4 DEF DeleteTable
<1> QED BY <1>1, <1>2, <1>3, <1>4, <1>5, <1>6, <1>7, <1>8, <1>9 DEF LifecycleNext

LEMMA LifecycleInvBounds ==
    ASSUME LifecycleInv PROVE LifecycleTypeOK /\ LifecycleSound
<1>1. cleaning = "done" => filled \cap Cleaned = Behind
  BY DEF LifecycleInv, BehindBounded, Behind
<1> QED BY <1>1 DEF LifecycleInv, BehindBounded, LifecycleSound, LeftBehindBounded

\* However installations, their jobs, webhooks, redactions and deletions of a shop
\* overlap, a table the deletion names holds rows after it only through a late
\* write or a failed deletion, and the shop's model configuration exists exactly
\* while its table holds it (webhook_shop.go, shop_cleanup.go, theme_activator.go).
THEOREM DeletionLeavesLittle ==
    ASSUME LifecycleConstants PROVE LifecycleSpec => [](LifecycleTypeOK /\ LifecycleSound)
<1>1. LifecycleInit => LifecycleInv BY LifecycleInitSatisfies
<1>2. LifecycleInv /\ [LifecycleNext]_lifecycleVars => LifecycleInv' BY LifecycleNextKeeps
<1>3. LifecycleInv => LifecycleTypeOK /\ LifecycleSound BY LifecycleInvBounds
<1> QED BY <1>1, <1>2, <1>3, PTL DEF LifecycleSpec

(***************************************************************************)
(* Plans, subscriptions and metered usage.                                 *)
(***************************************************************************)
Places == {Free} \cup [pc: {"store"}, n: Counts, status: {"success", "error"}]
                 \cup [pc: {"count"}, n: Counts, status: {"success"}]

BillingTyped ==
    /\ account \in [plan: Plans \cup {"free"}, sub: 0..MaxSubscriptions,
                    status: {"pending", "active", "cancelled", "past_due"}]
    /\ dev \in BOOLEAN
    /\ subs \in Seq({"mock", "active", "cancelled", "frozen"}) /\ Len(subs) <= MaxSubscriptions
    /\ notices \subseteq [id: 1..MaxSubscriptions, status: {"active", "cancelled", "frozen"}]
    /\ units \in [success: Nat, error: Nat] /\ rec \in [Slots -> Places]
    /\ slack \in Nat /\ reset \in Nat /\ unmetered \in Nat
    /\ counter \in Nat \cup {NoKey} /\ records \in 0..MaxRecords

\* Units of successes that were let pass and are not stored.
ToStore ==
    {w \in Fit : rec[w[1]].pc = "store" /\ rec[w[1]].status = "success" /\ w[2] <= rec[w[1]].n}

\* A record counts against the bound from its admission on: the total that it was
\* compared with lacked only what was under way.
PassedBounded ==
    0 \notin Quotas =>
    units.success + Cardinality(ToStore) - unmetered
        <= Max(Quotas) - 1 + Cardinality(Fit) + slack + reset

BillingInv == BillingTyped /\ PendingIsKnown /\ CounterAccounts /\ PassedBounded

\* The units of a record at either stage.
Counted(r) == IF r.pc = "count" THEN r.n ELSE 0
Awaited(r) == IF r.pc = "store" /\ r.status = "success" THEN r.n ELSE 0

LEMMA Largest ==
    ASSUME BillingConstants
    PROVE  /\ Max(Counts) \in Counts /\ Max(Counts) \in Nat
           /\ \A n \in Counts : n <= Max(Counts)
           /\ Max(Quotas) \in Nat /\ Max(Quotas) \in Quotas
           /\ \A p \in Plans \cup {"free"} : Quota[p] \in Nat /\ Quota[p] <= Max(Quotas)
<1>1. PICK most \in Counts : \A n \in Counts : n <= most BY DEF BillingConstants
<1>2. Counts \subseteq Nat BY DEF BillingConstants
<1>3. \A n \in Counts : most >= n BY <1>1, <1>2
<1>4. Max(Counts) \in Counts /\ \A n \in Counts : Max(Counts) >= n
  BY <1>1, <1>3 DEF Max
<1>5. PICK p \in Plans \cup {"free"} : \A q \in Plans \cup {"free"} : Quota[q] <= Quota[p]
  BY DEF BillingConstants
<1>6. \A q \in Plans \cup {"free"} : Quota[q] \in Nat BY DEF BillingConstants
<1>7. Quota[p] \in Quotas /\ \A n \in Quotas : n \in Nat /\ Quota[p] >= n
  BY <1>5, <1>6 DEF Quotas
<1>8. Max(Quotas) \in Quotas /\ \A n \in Quotas : Max(Quotas) >= n BY <1>7 DEF Max
<1>9. \A q \in Plans \cup {"free"} : Quota[q] \in Quotas BY DEF Quotas
<1>10. Max(Quotas) \in Nat BY <1>7, <1>8
<1> QED BY <1>2, <1>4, <1>6, <1>7, <1>8, <1>9, <1>10

LEMMA FitFinite ==
    ASSUME BillingConstants
    PROVE  /\ IsFiniteSet(Fit) /\ Cardinality(Fit) \in Nat
           /\ Cardinality(Fit) = Cardinality(Slots) * Max(Counts)
<1>1. Max(Counts) \in Nat BY Largest
<1>2. IsFiniteSet(1..Max(Counts)) /\ Cardinality(1..Max(Counts)) = Max(Counts)
  BY <1>1, FS_Interval
<1>3. IsFiniteSet(Slots) BY DEF BillingConstants
<1>4. IsFiniteSet(Slots \X (1..Max(Counts)))
      /\ Cardinality(Slots \X (1..Max(Counts)))
         = Cardinality(Slots) * Cardinality(1..Max(Counts))
  BY <1>2, <1>3, FS_Product
<1> QED BY <1>2, <1>3, <1>4, FS_CardinalityType DEF Fit

\* V is W and n units of the slot s, which has none in W.
Adds(V, W, s, n) ==
    /\ V \subseteq Fit /\ W \subseteq Fit /\ \A w \in W : w[1] # s
    /\ s \in Slots /\ n \in 0..Max(Counts)
    /\ \A w \in Fit : w \in V <=> w \in W \/ (w[1] = s /\ w[2] <= n)

\* A slot adds the units of its record to those of the others.
LEMMA SlotAdds ==
    ASSUME BillingConstants, NEW V, NEW W, NEW s, NEW n, Adds(V, W, s, n)
    PROVE  /\ Cardinality(W) \in Nat /\ Cardinality(V) \in Nat
           /\ Cardinality(V) = Cardinality(W) + n
<1> DEFINE Layer == {s} \X (1..n)
<1>0. Max(Counts) \in Nat /\ n \in 0..Max(Counts) BY Largest DEF Adds
<1>1. IsFiniteSet(1..n) /\ Cardinality(1..n) = n BY <1>0, FS_Interval
<1>2. IsFiniteSet({s}) /\ Cardinality({s}) = 1 BY FS_Singleton
<1>3. IsFiniteSet(Layer) /\ Cardinality(Layer) = Cardinality({s}) * Cardinality(1..n)
  BY <1>1, <1>2, FS_Product
<1>4. Cardinality(Layer) = n BY <1>0, <1>1, <1>2, <1>3
<1>5. IsFiniteSet(W) /\ IsFiniteSet(V) BY FitFinite, FS_Subset DEF Adds
<1>6. W \cap Layer = {} BY DEF Fit, Adds
<1>7. \A w \in Fit : w \in Layer <=> w[1] = s /\ w[2] <= n BY <1>0 DEF Fit
<1>8. Layer \subseteq Fit BY <1>0 DEF Fit, Adds
<1>9. V = W \cup Layer BY <1>7, <1>8 DEF Adds
<1> HIDE DEF Layer
<1>10. Cardinality(W \cup Layer)
       = Cardinality(W) + Cardinality(Layer) - Cardinality(W \cap Layer)
  BY <1>3, <1>5, FS_Union
<1>11. Cardinality(W \cap Layer) = 0 BY <1>6, FS_EmptySet
<1>12. Cardinality(W) \in Nat /\ Cardinality(V) \in Nat BY <1>5, FS_CardinalityType
<1> QED BY <1>0, <1>4, <1>9, <1>10, <1>11, <1>12

\* Counted and Awaited of a place are as many units as a slot can have.
LEMMA UnitsType ==
    ASSUME BillingConstants, NEW r \in Places
    PROVE  Counted(r) \in 0..Max(Counts) /\ Awaited(r) \in 0..Max(Counts)
<1>1. r.pc \in {"store", "count"} => r.n \in Counts BY DEF Places, Free
<1>2. \A n \in Counts : n \in 0..Max(Counts) BY Largest DEF BillingConstants
<1>3. 0 \in 0..Max(Counts) BY Largest
<1> QED BY <1>1, <1>2, <1>3 DEF Counted, Awaited

\* What a record's step does to the units at the two stages.
LEMMA SlotMoves ==
    ASSUME BillingConstants, rec \in [Slots -> Places], NEW s \in Slots, NEW r \in Places,
           rec' = [rec EXCEPT ![s] = r]
    PROVE  /\ rec' \in [Slots -> Places]
           /\ {Cardinality(OnTheWay), Cardinality(OnTheWay)', Cardinality(ToStore),
               Cardinality(ToStore)'} \subseteq Nat
           /\ Cardinality(OnTheWay)' + Counted(rec[s]) = Cardinality(OnTheWay) + Counted(r)
           /\ Cardinality(ToStore)' + Awaited(rec[s]) = Cardinality(ToStore) + Awaited(r)
<1> DEFINE RestC == {w \in OnTheWay : w[1] # s}
           RestS == {w \in ToStore : w[1] # s}
<1>0. rec[s] \in Places /\ rec' \in [Slots -> Places] OBVIOUS
<1>1. \A t \in Slots : rec'[t] = IF t = s THEN r ELSE rec[t] OBVIOUS
<1>2. \A w \in Fit : w[1] \in Slots /\ w[2] \in Nat /\ w[2] >= 1 BY Largest DEF Fit
<1>3. /\ Counted(rec[s]) \in 0..Max(Counts) /\ Counted(r) \in 0..Max(Counts)
      /\ Awaited(rec[s]) \in 0..Max(Counts) /\ Awaited(r) \in 0..Max(Counts)
  BY <1>0, UnitsType
<1>4. /\ OnTheWay \subseteq Fit /\ OnTheWay' \subseteq Fit /\ RestC \subseteq Fit
      /\ ToStore \subseteq Fit /\ ToStore' \subseteq Fit /\ RestS \subseteq Fit
  BY DEF OnTheWay, ToStore, Fit
<1>5. \A w \in Fit : w \in OnTheWay <=> w \in RestC \/ (w[1] = s /\ w[2] <= Counted(rec[s]))
  BY <1>2 DEF OnTheWay, Counted
<1>6. \A w \in Fit : w \in OnTheWay' <=> w \in RestC \/ (w[1] = s /\ w[2] <= Counted(r))
  BY <1>1, <1>2 DEF OnTheWay, Counted, Fit
<1>7. \A w \in Fit : w \in ToStore <=> w \in RestS \/ (w[1] = s /\ w[2] <= Awaited(rec[s]))
  BY <1>2 DEF ToStore, Awaited
<1>8. \A w \in Fit : w \in ToStore' <=> w \in RestS \/ (w[1] = s /\ w[2] <= Awaited(r))
  BY <1>1, <1>2 DEF ToStore, Awaited, Fit
<1>9. (\A w \in RestC : w[1] # s) /\ (\A w \in RestS : w[1] # s) OBVIOUS
<1> HIDE DEF RestC, RestS
<1>10. /\ Cardinality(RestC) \in Nat /\ Cardinality(OnTheWay) \in Nat
       /\ Cardinality(OnTheWay) = Cardinality(RestC) + Counted(rec[s])
  <2>1. Adds(OnTheWay, RestC, s, Counted(rec[s])) BY <1>3, <1>4, <1>5, <1>9 DEF Adds
  <2> QED BY <2>1, SlotAdds
<1>11. /\ Cardinality(OnTheWay') \in Nat
       /\ Cardinality(OnTheWay') = Cardinality(RestC) + Counted(r)
  <2>1. Adds(OnTheWay', RestC, s, Counted(r)) BY <1>3, <1>4, <1>6, <1>9 DEF Adds
  <2> QED BY <2>1, SlotAdds
<1>12. /\ Cardinality(RestS) \in Nat /\ Cardinality(ToStore) \in Nat
       /\ Cardinality(ToStore) = Cardinality(RestS) + Awaited(rec[s])
  <2>1. Adds(ToStore, RestS, s, Awaited(rec[s])) BY <1>3, <1>4, <1>7, <1>9 DEF Adds
  <2> QED BY <2>1, SlotAdds
<1>13. /\ Cardinality(ToStore') \in Nat
       /\ Cardinality(ToStore') = Cardinality(RestS) + Awaited(r)
  <2>1. Adds(ToStore', RestS, s, Awaited(r)) BY <1>3, <1>4, <1>8, <1>9 DEF Adds
  <2> QED BY <2>1, SlotAdds
<1>14. Max(Counts) \in Nat BY Largest
<1> QED BY <1>0, <1>3, <1>10, <1>11, <1>12, <1>13, <1>14

\* What is at one stage and what is at the other fit in the slots together.
LEMMA StagesFit ==
    ASSUME BillingConstants, NEW V \in SUBSET Fit, NEW W \in SUBSET Fit, V \cap W = {}
    PROVE  /\ Cardinality(V) \in Nat /\ Cardinality(W) \in Nat
           /\ Cardinality(V) + Cardinality(W) <= Cardinality(Fit)
<1>1. V \cup W \subseteq Fit OBVIOUS
<1>2. IsFiniteSet(V) /\ IsFiniteSet(W) BY FitFinite, FS_Subset
<1>3. Cardinality(V \cup W) <= Cardinality(Fit) BY <1>1, FitFinite, FS_Subset
<1>4. Cardinality(V \cup W) = Cardinality(V) + Cardinality(W) - Cardinality(V \cap W)
  BY <1>2, FS_Union
<1>5. Cardinality(V \cap W) = 0 BY FS_EmptySet
<1>6. Cardinality(V) \in Nat /\ Cardinality(W) \in Nat BY <1>2, FS_CardinalityType
<1> QED BY <1>3, <1>4, <1>5, <1>6, FitFinite

LEMMA BillingInitSatisfies ==
    ASSUME BillingConstants, BillingInit PROVE BillingInv
<1>1. BillingTyped
  BY DEF BillingInit, BillingTyped, BillingConstants, Places, NoSub, NoKey
<1>2. PendingIsKnown BY DEF BillingInit, PendingIsKnown
<1>3. \A w \in Fit : rec[w[1]].pc = "free" BY DEF BillingInit, Fit, Free
<1>4. OnTheWay = {} /\ ToStore = {} BY <1>3 DEF OnTheWay, ToStore
<1>5. Cardinality(OnTheWay) = 0 /\ Cardinality(ToStore) = 0 BY <1>4, FS_EmptySet
<1>6. CounterAccounts BY <1>5 DEF BillingInit, CounterAccounts
<1>7. PassedBounded
  <2>1. Max(Quotas) \in Nat /\ Max(Quotas) \in Quotas /\ Cardinality(Fit) \in Nat
    BY Largest, FitFinite
  <2>2. 0 \notin Quotas => Max(Quotas) >= 1 BY <2>1
  <2>3. units.success = 0 /\ unmetered = 0 /\ slack = 0 /\ reset = 0 BY DEF BillingInit
  <2> QED BY <1>5, <2>1, <2>2, <2>3 DEF PassedBounded
<1> QED BY <1>1, <1>2, <1>6, <1>7 DEF BillingInv

Bills == \/ \E p \in Plans : Subscribe(p) \/ ChangePlan(p)
         \/ \E accepted \in BOOLEAN : Confirm(accepted)
         \/ Cancel \/ Uninstalled
         \/ \E status \in {"active", "cancelled", "frozen"} : ShopifySubscription(status)
         \/ \E n \in notices : SubscriptionUpdate(n)

Accounts == [plan: Plans \cup {"free"}, sub: 0..MaxSubscriptions,
             status: {"pending", "active", "cancelled", "past_due"}]
Statuses == {"mock", "active", "cancelled", "frozen"}
Messages == [id: 1..MaxSubscriptions, status: {"active", "cancelled", "frozen"}]

\* Shopify's side, and what it announces.
LEMMA BillsType ==
    ASSUME BillingConstants, BillingTyped, Bills
    PROVE  /\ UNCHANGED <<dev, usageVars>>
           /\ subs' \in Seq(Statuses) /\ Len(subs') <= MaxSubscriptions
           /\ notices' \subseteq Messages
<1>0. /\ subs \in Seq(Statuses) /\ Len(subs) \in Nat /\ Len(subs) <= MaxSubscriptions
      /\ notices \subseteq Messages /\ MaxSubscriptions \in Nat
  BY DEF BillingTyped, BillingConstants, Statuses, Messages
<1>1. CASE \E p \in Plans : Subscribe(p)
  <2>1. /\ UNCHANGED <<dev, usageVars, notices>> /\ Len(subs) < MaxSubscriptions
        /\ subs' = Append(subs, "mock")
    BY <1>1 DEF Subscribe, CreateSubscription
  <2> QED BY <2>1, <1>0 DEF Statuses
<1>2. CASE \/ \E p \in Plans : ChangePlan(p)
           \/ \E accepted \in BOOLEAN : Confirm(accepted)
           \/ Cancel \/ Uninstalled
  <2>1. UNCHANGED <<dev, usageVars, notices, subs>>
    BY <1>2 DEF ChangePlan, Confirm, Cancel, Uninstalled, CancelSubscription
  <2> QED BY <2>1, <1>0
<1>3. ASSUME NEW status \in {"active", "cancelled", "frozen"}, ShopifySubscription(status)
      PROVE  /\ UNCHANGED <<dev, usageVars>>
             /\ subs' \in Seq(Statuses) /\ Len(subs') <= MaxSubscriptions
             /\ notices' \subseteq Messages
  <2>1. UNCHANGED <<dev, usageVars>> BY <1>3 DEF ShopifySubscription
  <2>2. CASE /\ Len(subs) < MaxSubscriptions
             /\ subs' = Append(subs, status)
             /\ notices' = notices \cup {[id |-> Len(subs'), status |-> status]}
    <3>1. subs' \in Seq(Statuses) /\ Len(subs') = Len(subs) + 1
      BY <2>2, <1>0 DEF Statuses
    <3>2. Len(subs') \in 1..MaxSubscriptions BY <3>1, <2>2, <1>0
    <3> QED BY <2>1, <2>2, <3>1, <3>2, <1>0 DEF Messages
  <2>3. ASSUME NEW n \in DOMAIN subs, subs' = [subs EXCEPT ![n] = status],
               notices' = notices \cup {[id |-> n, status |-> status]}
        PROVE  /\ subs' \in Seq(Statuses) /\ Len(subs') <= MaxSubscriptions
               /\ notices' \subseteq Messages
    <3>1. n \in 1..MaxSubscriptions BY <1>0
    <3>2. subs' \in Seq(Statuses) /\ Len(subs') = Len(subs) BY <2>3, <1>0 DEF Statuses
    <3> QED BY <2>3, <3>1, <3>2, <1>0 DEF Messages
  <2> QED BY <1>3, <2>1, <2>2, <2>3 DEF ShopifySubscription
<1>4. ASSUME NEW n \in notices, SubscriptionUpdate(n)
      PROVE  /\ UNCHANGED <<dev, usageVars, subs>> /\ notices' \subseteq Messages
  BY <1>4, <1>0 DEF SubscriptionUpdate
<1> QED BY <1>0, <1>1, <1>2, <1>3, <1>4 DEF Bills

\* The shop's row.
LEMMA BillsKeepPending ==
    ASSUME BillingConstants, BillingTyped, PendingIsKnown, Bills
    PROVE  account' \in Accounts /\ PendingIsKnown'
<1>0. /\ account \in Accounts /\ subs \in Seq(Statuses) /\ Len(subs) \in Nat
      /\ notices \subseteq Messages /\ MaxSubscriptions \in Nat
  BY DEF BillingTyped, BillingConstants, Statuses, Messages, Accounts
<1>1. ASSUME NEW p \in Plans, Subscribe(p) PROVE account' \in Accounts /\ PendingIsKnown'
  <2>1. Len(subs') = Len(subs) + 1 /\ Len(subs) < MaxSubscriptions
    BY <1>1, <1>0 DEF Subscribe, CreateSubscription, Statuses
  <2>2. Len(subs') \in 1..MaxSubscriptions BY <2>1, <1>0
  <2>3. \/ account' = [plan |-> p, status |-> "pending", sub |-> Len(subs')]
        \/ account' = account
    BY <1>1 DEF Subscribe
  <2> QED BY <2>2, <2>3, <1>0 DEF PendingIsKnown, Accounts, NoSub
<1>2. ASSUME NEW p \in Plans, ChangePlan(p) PROVE account' \in Accounts /\ PendingIsKnown'
  BY <1>2, <1>0 DEF ChangePlan, PendingIsKnown, Accounts
<1>3. ASSUME NEW a \in BOOLEAN, Confirm(a) PROVE account' \in Accounts /\ PendingIsKnown'
  <2>1. \/ account' = [account EXCEPT !.status = "active"] \/ account' = account
        \/ account' = [plan |-> "free", status |-> "cancelled", sub |-> NoSub]
    BY <1>3 DEF Confirm
  <2> QED BY <2>1, <1>0 DEF PendingIsKnown, Accounts, NoSub
<1>4. CASE Cancel \/ Uninstalled
  <2>1. \/ account' = [account EXCEPT !.status = "cancelled"] \/ account' = account
        \/ account' = [plan |-> "free", status |-> "cancelled", sub |-> NoSub]
    BY <1>4 DEF Cancel, Uninstalled
  <2> QED BY <2>1, <1>0 DEF PendingIsKnown, Accounts, NoSub
<1>5. ASSUME NEW status \in {"active", "cancelled", "frozen"}, ShopifySubscription(status)
      PROVE  account' \in Accounts /\ PendingIsKnown'
  <2>1. account' = account BY <1>5 DEF ShopifySubscription
  <2> QED BY <2>1, <1>0 DEF PendingIsKnown
<1>6. ASSUME NEW n \in notices, SubscriptionUpdate(n)
      PROVE  account' \in Accounts /\ PendingIsKnown'
  <2>1. n \in Messages BY <1>0
  <2>2. n.id \in 1..MaxSubscriptions /\ n.status \in {"active", "cancelled", "frozen"}
    BY <2>1 DEF Messages
  <2>3. PICK st \in {"active", "cancelled", "past_due"} :
          account' \in {[account EXCEPT !.sub = n.id, !.status = st], account}
    BY <1>6, <2>2 DEF SubscriptionUpdate
  <2>4. CASE account' = [account EXCEPT !.sub = n.id, !.status = st]
    <3>1. account.plan \in Plans \cup {"free"} BY <1>0 DEF Accounts
    <3>2. account' = [plan |-> account.plan, sub |-> n.id, status |-> st]
      BY <2>4, <1>0 DEF Accounts
    <3> QED BY <3>1, <3>2, <2>2, <1>0 DEF PendingIsKnown, Accounts, NoSub
  <2>5. CASE account' = account BY <2>5, <1>0 DEF PendingIsKnown
  <2> QED BY <2>3, <2>4, <2>5
<1> QED BY <1>1, <1>2, <1>3, <1>4, <1>5, <1>6 DEF Bills

LEMMA BillsKeep ==
    ASSUME BillingConstants, BillingInv, Bills PROVE BillingInv'
<1>1. BillingTyped /\ PendingIsKnown /\ CounterAccounts /\ PassedBounded BY DEF BillingInv
<1>2. /\ UNCHANGED <<dev, usageVars>>
      /\ subs' \in Seq(Statuses) /\ Len(subs') <= MaxSubscriptions
      /\ notices' \subseteq Messages
  BY <1>1, BillsType
<1>3. account' \in Accounts /\ PendingIsKnown' BY <1>1, BillsKeepPending
<1>4. UNCHANGED <<dev, units, counter, rec, records, slack, reset, unmetered>>
  BY <1>2 DEF usageVars
<1>5. BillingTyped'
  BY <1>1, <1>2, <1>3, <1>4 DEF BillingTyped, Accounts, Statuses, Messages
<1>6. OnTheWay' = OnTheWay /\ ToStore' = ToStore BY <1>4 DEF OnTheWay, ToStore, Fit
<1>7. CounterAccounts' BY <1>1, <1>4, <1>6 DEF CounterAccounts
<1>8. PassedBounded' BY <1>1, <1>4, <1>6 DEF PassedBounded, Quotas, Fit
<1> QED BY <1>3, <1>5, <1>7, <1>8 DEF BillingInv

-----------------------------------------------------------------------------
(* Usage.                                                                   *)

LEMMA UsageTypes ==
    ASSUME BillingTyped
    PROVE  /\ rec \in [Slots -> Places] /\ units.success \in Nat /\ units.error \in Nat
           /\ slack \in Nat /\ reset \in Nat /\ unmetered \in Nat
           /\ counter \in Nat \cup {NoKey}
BY DEF BillingTyped

\* RecordUsage stores units that it counts as unmetered, and sends them on.
LEMMA RecordUsageKeeps ==
    ASSUME BillingConstants, BillingInv, NEW s \in Slots, NEW n \in Counts, RecordUsage(s, n)
    PROVE  BillingInv'
<1> DEFINE r == [pc |-> "count", n |-> n, status |-> "success"]
<1>0. BillingTyped /\ PendingIsKnown /\ CounterAccounts /\ PassedBounded /\ n \in Nat
  BY DEF BillingInv, BillingConstants
<1>1. /\ rec[s] = Free /\ records' = records + 1 /\ records < MaxRecords
      /\ units' = [units EXCEPT !.success = @ + n] /\ rec' = [rec EXCEPT ![s] = r]
      /\ unmetered' = unmetered + n
      /\ UNCHANGED <<counter, slack, reset, account, dev, subs, notices>>
  BY DEF RecordUsage, accountVars
<1>2. r \in Places BY DEF Places
<1>3. /\ Counted(rec[s]) = 0 /\ Awaited(rec[s]) = 0 BY <1>1 DEF Counted, Awaited, Free
<1>4. Counted(r) = n /\ Awaited(r) = 0 BY DEF Counted, Awaited
<1> HIDE DEF r
<1>5. /\ rec' \in [Slots -> Places]
      /\ {Cardinality(OnTheWay), Cardinality(OnTheWay)', Cardinality(ToStore),
          Cardinality(ToStore)'} \subseteq Nat
      /\ Cardinality(OnTheWay)' + Counted(rec[s]) = Cardinality(OnTheWay) + Counted(r)
      /\ Cardinality(ToStore)' + Awaited(rec[s]) = Cardinality(ToStore) + Awaited(r)
  BY <1>0, <1>1, <1>2, UsageTypes, SlotMoves
<1>6. /\ units.success \in Nat /\ units.error \in Nat /\ units' \in [success: Nat, error: Nat]
      /\ units'.success = units.success + n
  BY <1>0, <1>1 DEF BillingTyped
<1>7. BillingTyped'
  <2>1. records' \in 0..MaxRecords BY <1>0, <1>1 DEF BillingTyped, BillingConstants
  <2>2. unmetered' \in Nat BY <1>0, <1>1 DEF BillingTyped
  <2>3. UNCHANGED <<counter, slack, reset, account, dev, subs, notices>> BY <1>1
  <2> QED BY <2>1, <2>2, <2>3, <1>0, <1>5, <1>6 DEF BillingTyped
<1>8. PendingIsKnown' BY <1>0, <1>1 DEF PendingIsKnown
<1>9. CounterAccounts' BY <1>0, <1>1, <1>3, <1>4, <1>5, <1>6, UsageTypes DEF CounterAccounts, NoKey
<1>10. PassedBounded'
  BY <1>0, <1>1, <1>3, <1>4, <1>5, <1>6, UsageTypes, Largest, FitFinite
  DEF PassedBounded, Quotas, Fit
<1> QED BY <1>7, <1>8, <1>9, <1>10 DEF BillingInv

\* A record passes while the total is below the quota: the total lacks only what
\* the other slots have under way, the losses and the failed increments.
LEMMA TrackerRecordKeeps ==
    ASSUME BillingConstants, BillingInv, NEW s \in Slots, NEW n \in Counts,
           NEW status \in {"success", "error"}, TrackerRecord(s, n, status)
    PROVE  BillingInv'
<1> DEFINE r == [pc |-> "store", n |-> n, status |-> status]
<1>0. BillingTyped /\ PendingIsKnown /\ CounterAccounts /\ PassedBounded /\ n \in Nat
  BY DEF BillingInv, BillingConstants
<1>1. /\ rec[s] = Free /\ records' = records + 1 /\ records < MaxRecords
      /\ rec' = [rec EXCEPT ![s] = r]
      /\ Quota[account.plan] > 0 => Total < Quota[account.plan]
      /\ UNCHANGED <<units, counter, slack, reset, unmetered, account, dev, subs, notices>>
  BY DEF TrackerRecord, Begin, accountVars
<1>2. r \in Places BY DEF Places
<1>3. Counted(rec[s]) = 0 /\ Counted(r) = 0
  BY <1>1 DEF Counted, Free
<1> HIDE DEF r
<1>4. /\ rec' \in [Slots -> Places]
      /\ Cardinality(OnTheWay) \in Nat
      /\ Cardinality(OnTheWay)' + Counted(rec[s]) = Cardinality(OnTheWay) + Counted(r)
  BY <1>0, <1>1, <1>2, UsageTypes, SlotMoves
<1>5. BillingTyped' BY <1>0, <1>1, <1>4 DEF BillingTyped, BillingConstants
<1>6. PendingIsKnown' BY <1>0, <1>1 DEF PendingIsKnown
<1>7. /\ Cardinality(OnTheWay') \in Nat /\ Cardinality(ToStore') \in Nat
      /\ Cardinality(OnTheWay') + Cardinality(ToStore') <= Cardinality(Fit')
  <2>1. OnTheWay' \subseteq Fit /\ ToStore' \subseteq Fit /\ OnTheWay' \cap ToStore' = {}
    BY DEF OnTheWay, ToStore, Fit
  <2> QED BY <2>1, StagesFit DEF Fit
<1>8. Cardinality(OnTheWay') = Cardinality(OnTheWay) BY <1>3, <1>4, <1>7
<1>9. CounterAccounts' BY <1>0, <1>1, <1>8 DEF CounterAccounts
<1>10. ASSUME 0 \notin Quotas PROVE units.success <= Max(Quotas) - 1 + slack + reset
                                                    + Cardinality(OnTheWay)
  <2>1. account.plan \in Plans \cup {"free"} BY <1>0 DEF BillingTyped
  <2>2. /\ Quota[account.plan] \in Nat /\ Quota[account.plan] <= Max(Quotas)
        /\ Max(Quotas) \in Nat
    BY <2>1, Largest
  <2>3. Quota[account.plan] # 0 BY <2>1, <1>10 DEF Quotas
  <2>4. Total < Max(Quotas) /\ Total \in Nat
    BY <2>2, <2>3, <1>0, <1>1, UsageTypes DEF Total, Used
  <2>5. CASE counter = NoKey
    BY <2>2, <2>4, <2>5, <1>0, <1>4, UsageTypes DEF Total, Used
  <2>6. CASE counter # NoKey
    BY <2>2, <2>4, <2>6, <1>0, <1>4, UsageTypes DEF Total, CounterAccounts
  <2> QED BY <2>5, <2>6
<1>11. PassedBounded'
  <2>1. Quotas' = Quotas /\ Fit' = Fit BY DEF Quotas, Fit
  <2>2. Max(Quotas) \in Nat /\ Cardinality(Fit) \in Nat BY Largest, FitFinite
  <2>3. UNCHANGED <<units, slack, reset, unmetered>> BY <1>1
  <2> QED BY <2>1, <2>2, <2>3, <1>0, <1>4, <1>7, <1>8, <1>10, UsageTypes DEF PassedBounded
<1> QED BY <1>5, <1>6, <1>9, <1>11 DEF BillingInv

\* A success that is stored moves from one stage to the other; a failure is stored
\* and leaves.
LEMMA StoreRowKeeps ==
    ASSUME BillingConstants, BillingInv, NEW s \in Slots, StoreRow(s)
    PROVE  BillingInv'
<1>0. /\ BillingTyped /\ PendingIsKnown /\ CounterAccounts /\ PassedBounded
      /\ Counts \subseteq Nat
  BY DEF BillingInv, BillingConstants
<1>1. /\ rec[s].pc = "store"
      /\ UNCHANGED <<counter, records, slack, reset, unmetered, account, dev, subs, notices>>
  BY DEF StoreRow, accountVars
<1>2. rec[s] \in [pc: {"store"}, n: Counts, status: {"success", "error"}]
  BY <1>0, <1>1 DEF BillingTyped, Places, Free
<1>3. PICK r \in Places :
        /\ rec' = [rec EXCEPT ![s] = r]
        /\ \/ /\ rec[s].status = "success" /\ Counted(r) = rec[s].n /\ Awaited(r) = 0
              /\ units' = [units EXCEPT !.success = @ + rec[s].n]
           \/ /\ Counted(r) = 0 /\ Awaited(r) = 0
              /\ \/ units' = units
                 \/ rec[s].status = "error" /\ units' = [units EXCEPT !.error = @ + rec[s].n]
  <2>1. CASE /\ rec[s].status = "success"
             /\ units' = [units EXCEPT ![rec[s].status] = @ + rec[s].n]
             /\ rec' = [rec EXCEPT ![s] = IF rec[s].status = "success"
                                          THEN [rec[s] EXCEPT !.pc = "count"] ELSE Free]
    <3> DEFINE r == [pc |-> "count", n |-> rec[s].n, status |-> "success"]
    <3>0. [rec[s] EXCEPT !.pc = "count"] = r BY <2>1, <1>2
    <3>1. rec' = [rec EXCEPT ![s] = r] BY <2>1, <3>0
    <3>2. r \in Places BY <1>2 DEF Places
    <3>3. Counted(r) = rec[s].n /\ Awaited(r) = 0 BY DEF Counted, Awaited
    <3> QED BY <2>1, <3>1, <3>2, <3>3
  <2>2. CASE /\ rec[s].status # "success"
             /\ units' = [units EXCEPT ![rec[s].status] = @ + rec[s].n]
             /\ rec' = [rec EXCEPT ![s] = IF rec[s].status = "success"
                                          THEN [rec[s] EXCEPT !.pc = "count"] ELSE Free]
    <3>1. rec' = [rec EXCEPT ![s] = Free] BY <2>2, <1>2, <1>0 DEF BillingTyped
    <3>2. rec[s].status = "error" BY <2>2, <1>2
    <3>3. Free \in Places /\ Counted(Free) = 0 /\ Awaited(Free) = 0
      BY DEF Places, Counted, Awaited, Free
    <3> QED BY <2>2, <3>1, <3>2, <3>3
  <2>3. CASE units' = units /\ rec' = [rec EXCEPT ![s] = Free]
    <3>1. Free \in Places /\ Counted(Free) = 0 /\ Awaited(Free) = 0
      BY DEF Places, Counted, Awaited, Free
    <3> QED BY <2>3, <3>1
  <2> QED BY <2>1, <2>2, <2>3 DEF StoreRow
<1>4. /\ Counted(rec[s]) = 0 /\ rec[s].n \in Nat
      /\ Awaited(rec[s]) = IF rec[s].status = "success" THEN rec[s].n ELSE 0
  BY <1>0, <1>2 DEF Counted, Awaited
<1>5. /\ rec' \in [Slots -> Places]
      /\ {Cardinality(OnTheWay), Cardinality(OnTheWay)', Cardinality(ToStore),
          Cardinality(ToStore)'} \subseteq Nat
      /\ Cardinality(OnTheWay)' + Counted(rec[s]) = Cardinality(OnTheWay) + Counted(r)
      /\ Cardinality(ToStore)' + Awaited(rec[s]) = Cardinality(ToStore) + Awaited(r)
  BY <1>0, <1>3, UsageTypes, SlotMoves
<1>6. /\ units' \in [success: Nat, error: Nat] /\ units.success \in Nat
      /\ units'.success = units.success + Counted(r)
  <2>1. units \in [success: Nat, error: Nat] BY <1>0 DEF BillingTyped
  <2> QED BY <2>1, <1>3, <1>4
<1>7. BillingTyped' BY <1>0, <1>1, <1>5, <1>6 DEF BillingTyped
<1>8. PendingIsKnown' BY <1>0, <1>1 DEF PendingIsKnown
<1>9. Counted(r) \in Nat /\ Awaited(r) = 0 BY <1>3, <1>4
<1>10. CounterAccounts'
  BY <1>0, <1>1, <1>4, <1>5, <1>6, <1>9, UsageTypes DEF CounterAccounts, NoKey
<1>11. Cardinality(ToStore)' + Counted(r) <= Cardinality(ToStore)
  BY <1>3, <1>4, <1>5, <1>9
<1>12. PassedBounded'
  BY <1>0, <1>1, <1>5, <1>6, <1>9, <1>11, UsageTypes, Largest, FitFinite
  DEF PassedBounded, Quotas, Fit
<1> QED BY <1>7, <1>8, <1>10, <1>12 DEF BillingInv

\* Units leave for the counter, or for the slack.
LEMMA CountKeeps ==
    ASSUME BillingConstants, BillingInv, NEW s \in Slots, Count(s)
    PROVE  BillingInv'
<1>0. /\ BillingTyped /\ PendingIsKnown /\ CounterAccounts /\ PassedBounded
      /\ Counts \subseteq Nat
  BY DEF BillingInv, BillingConstants
<1>1. /\ rec[s].pc = "count" /\ rec' = [rec EXCEPT ![s] = Free]
      /\ UNCHANGED <<units, records, reset, unmetered, account, dev, subs, notices>>
  BY DEF Count, accountVars
<1>2. rec[s] \in [pc: {"count"}, n: Counts, status: {"success"}]
  BY <1>0, <1>1 DEF BillingTyped, Places, Free
<1>3. /\ Counted(rec[s]) = rec[s].n /\ Awaited(rec[s]) = 0 /\ rec[s].n \in Nat
      /\ Free \in Places /\ Counted(Free) = 0 /\ Awaited(Free) = 0
  BY <1>0, <1>2 DEF Counted, Awaited, Places, Free
<1>4. /\ rec' \in [Slots -> Places]
      /\ {Cardinality(OnTheWay), Cardinality(OnTheWay)', Cardinality(ToStore),
          Cardinality(ToStore)'} \subseteq Nat
      /\ Cardinality(OnTheWay)' + Counted(rec[s]) = Cardinality(OnTheWay) + Counted(Free)
      /\ Cardinality(ToStore)' + Awaited(rec[s]) = Cardinality(ToStore) + Awaited(Free)
  BY <1>0, <1>1, <1>3, UsageTypes, SlotMoves
<1>5. \/ counter' = (IF counter = NoKey THEN rec[s].n ELSE counter + rec[s].n)
         /\ slack' = slack
      \/ counter' = counter /\ slack' = slack + rec[s].n
  BY DEF Count
<1>6. counter' \in Nat \cup {NoKey} /\ slack' \in Nat /\ slack' >= slack
  BY <1>0, <1>3, <1>5, UsageTypes DEF NoKey
<1>7. BillingTyped' BY <1>0, <1>1, <1>4, <1>6 DEF BillingTyped
<1>8. PendingIsKnown' BY <1>0, <1>1 DEF PendingIsKnown
<1>9. CounterAccounts'
  BY <1>0, <1>1, <1>3, <1>4, <1>5, UsageTypes DEF CounterAccounts, NoKey
<1>10. PassedBounded'
  BY <1>0, <1>1, <1>3, <1>4, <1>6, UsageTypes, Largest, FitFinite
  DEF PassedBounded, Quotas, Fit
<1> QED BY <1>7, <1>8, <1>9, <1>10 DEF BillingInv

LEMMA RedisForgetsKeeps ==
    ASSUME BillingConstants, BillingInv, RedisForgets
    PROVE  BillingInv'
<1>0. BillingTyped /\ PendingIsKnown /\ CounterAccounts /\ PassedBounded BY DEF BillingInv
<1>1. /\ counter # NoKey /\ counter' = NoKey /\ reset' = reset + counter
      /\ UNCHANGED <<units, rec, records, slack, unmetered, account, dev, subs, notices>>
  BY DEF RedisForgets, accountVars
<1>2. reset' \in Nat /\ reset' >= reset BY <1>0, <1>1, UsageTypes
<1>3. BillingTyped' BY <1>0, <1>1, <1>2 DEF BillingTyped
<1>4. PendingIsKnown' BY <1>0, <1>1 DEF PendingIsKnown
<1>5. OnTheWay' = OnTheWay /\ ToStore' = ToStore BY <1>1 DEF OnTheWay, ToStore, Fit
<1>6. OnTheWay \subseteq Fit /\ ToStore \subseteq Fit /\ OnTheWay \cap ToStore = {}
  BY DEF OnTheWay, ToStore
<1>7. Cardinality(OnTheWay) \in Nat /\ Cardinality(ToStore) \in Nat BY <1>6, StagesFit
<1>8. CounterAccounts' BY <1>0, <1>1, <1>5, <1>7, UsageTypes DEF CounterAccounts
<1>9. PassedBounded'
  BY <1>0, <1>1, <1>2, <1>5, <1>7, UsageTypes, Largest, FitFinite
  DEF PassedBounded, Quotas, Fit
<1> QED BY <1>3, <1>4, <1>8, <1>9 DEF BillingInv

LEMMA BillingNextKeeps ==
    ASSUME BillingConstants, BillingInv, [BillingNext]_billingVars
    PROVE  BillingInv'
<1>1. CASE UNCHANGED billingVars
  BY <1>1 DEF billingVars, accountVars, usageVars, BillingInv, BillingTyped, PendingIsKnown,
     CounterAccounts, PassedBounded, OnTheWay, ToStore, Fit, Quotas
<1>2. CASE Bills BY <1>2, BillsKeep
<1>3. CASE RedisForgets BY <1>3, RedisForgetsKeeps
<1>4. CASE \E s \in Slots : StoreRow(s) \/ Count(s) BY <1>4, StoreRowKeeps, CountKeeps
<1>5. CASE \E s \in Slots, n \in Counts :
             RecordUsage(s, n) \/ \E status \in {"success", "error"} : TrackerRecord(s, n, status)
  BY <1>5, RecordUsageKeeps, TrackerRecordKeeps
<1> QED BY <1>1, <1>2, <1>3, <1>4, <1>5 DEF BillingNext, Bills

LEMMA BillingInvBounds ==
    ASSUME BillingConstants, BillingInv PROVE BillingTypeOK /\ BillingSound
<1>0. BillingTyped /\ PendingIsKnown /\ CounterAccounts /\ PassedBounded BY DEF BillingInv
<1>1. OnTheWay \subseteq Fit /\ ToStore \subseteq Fit /\ OnTheWay \cap ToStore = {}
  BY DEF OnTheWay, ToStore
<1>2. Cardinality(ToStore) \in Nat BY <1>1, StagesFit
<1>3. QuotaBounded
  BY <1>0, <1>2, UsageTypes, Largest, FitFinite DEF QuotaBounded, PassedBounded
<1>4. BillingTypeOK
  BY <1>0 DEF BillingTyped, BillingTypeOK, Places, Free
<1> QED BY <1>0, <1>3, <1>4 DEF BillingSound

\* However subscriptions, confirmations, late messages, metered and unmetered
\* records and losses of the Redis key interleave: a pending shop knows its
\* subscription, what the tracker lets pass exceeds the largest quota by no more
\* than was under way, missed or forgotten, and every stored success is counted,
\* missed, forgotten or on its way exactly once (billing.go, token_tracker.go).
THEOREM BillsAreSound ==
    ASSUME BillingConstants PROVE BillingSpec => [](BillingTypeOK /\ BillingSound)
<1>1. BillingInit => BillingInv BY BillingInitSatisfies
<1>2. BillingInv /\ [BillingNext]_billingVars => BillingInv' BY BillingNextKeeps
<1>3. BillingInv => BillingTypeOK /\ BillingSound BY BillingInvBounds
<1> QED BY <1>1, <1>2, <1>3, PTL DEF BillingSpec

(***************************************************************************)
(* The content factory: jobs, the connection and the posts, each with the  *)
(* part of the invariant that is about it.                                 *)
(***************************************************************************)
JobPc == {"idle", "write", "publish", "store", "done"}
JobType == [pc: JobPc, results: Seq({"piece", "error", "content"}),
            status: {"none", "processing", "completed"}]
PieceType == [status: {"none", "generated", "published"}, platform: {""}]
CallbackType == {Idle} \cup [pc: {"delete", "store"}, state: States, known: BOOLEAN]
PosterType == {Idle} \cup [pc: {"post", "save", "mark"}, piece: PieceIds \cup {None}, id: Nat]
PostType == [id: Nat, piece: PieceIds \cup {None}]

UsedTyped == /\ budget \in [BudgetNames -> Nat] /\ used \in [BudgetNames -> Nat]
             /\ \A k \in BudgetNames : used[k] <= budget[k]

JobsTyped == /\ job \in [JobIds -> JobType] /\ pieces \in [PieceIds -> PieceType]
             /\ inbox \subseteq SUBSET PieceIds /\ perf \subseteq PieceIds
Ended(j) == Len(job[j].results) = JobSize
JobFits(j) ==
    /\ job[j].pc = "write" => Len(job[j].results) < JobSize
    /\ job[j].pc \in {"publish", "store"} \/ job[j].status = "completed" => Ended(j)
    /\ job[j].status = "none" => job[j].pc = "idle" /\ job[j].results = <<>>
    /\ PiecesOf(j) = {p \in PieceIds : p[1] = j /\ pieces[p] # NoPiece}
JobsInv == /\ JobsTyped /\ \A j \in JobIds : JobFits(j)
           /\ \A p \in perf : pieces[p] # NoPiece /\ Ended(p[1])
           /\ \A ids \in inbox : \A p \in ids : Ended(p[1])

AuthTyped == /\ states \subseteq States /\ callback \in [Callbacks -> CallbackType]
             /\ conn \in States \cup {0} /\ connects \in [States -> Nat]
             /\ racedStates \subseteq States
Active(c, s) == callback[c].pc # "idle" /\ callback[c].state = s
StateFits(s) ==
    /\ \A c, d \in Callbacks : Active(c, s) /\ Active(d, s) => c = d
    /\ s \in states => connects[s] = 0
    /\ \A c \in Callbacks : Active(c, s) =>
          /\ callback[c].pc = "store" => s \notin states
          /\ callback[c].known => connects[s] = 0
    /\ connects[s] <= 1
Fresh(s) == s \notin states /\ connects[s] = 0 /\
            \A c \in Callbacks : Active(c, s) => callback[c].pc = "delete" /\ ~callback[c].known
AuthInv == /\ AuthTyped /\ \A s \in States \ racedStates : StateFits(s)
           /\ \A s \in States : s > used.states => Fresh(s)
           /\ \A c \in Callbacks : callback[c].pc = "store" => callback[c].known

PostsTyped == /\ poster \in [Posters -> PosterType] /\ posts \subseteq PostType
              /\ posted \subseteq PostType /\ leaving \in BOOLEAN
              /\ crossed \subseteq Nat /\ removed \subseteq Nat
PosterFits(p) ==
    /\ poster[p].id <= used.publishes
    /\ poster[p].piece # None => pieces[poster[p].piece] # NoPiece
    /\ \A x \in posted : x.id = poster[p].id => x.piece = poster[p].piece
    /\ poster[p].pc \in {"save", "mark"} => [id |-> poster[p].id, piece |-> poster[p].piece] \in posted
    /\ leaving \/ conn = 0 => poster[p].id \in crossed
PostsInv ==
    /\ PostsTyped
    /\ \A p \in Publishing : PosterFits(p)
    /\ \A p, q \in Publishing : poster[p].id = poster[q].id => p = q
    /\ \A x \in posted : x.id <= used.publishes
    /\ leaving \/ conn = 0 => \A x \in posts : x.id \in crossed
    /\ posts \subseteq posted
    /\ \A i \in PieceIds : pieces[i].status = "published" => \E x \in posted : x.piece = i
    /\ \A x \in posted : \/ x \in posts \/ x.id \in removed
                         \/ \E p \in Posters : poster[p].pc = "save" /\ poster[p].id = x.id

ContentInv == /\ UsedTyped /\ JobsInv /\ AuthInv /\ PostsInv
              /\ metrics \subseteq PieceIds /\ refused \in Nat

LEMMA PlacesOfCallback ==
    ASSUME NEW r \in CallbackType
    PROVE  /\ r.pc \in {"idle", "delete", "store"} /\ (r.pc = "idle" => r = Idle)
           /\ r.pc # "idle" => r \in [pc: {"delete", "store"}, state: States, known: BOOLEAN]
<1>1. Idle.pc = "idle" BY DEF Idle
<1>2. \A q \in [pc: {"delete", "store"}, state: States, known: BOOLEAN] : q.pc \in {"delete", "store"}
  OBVIOUS
<1> QED BY <1>1, <1>2 DEF CallbackType

LEMMA PlacesOfPoster ==
    ASSUME NEW r \in PosterType
    PROVE  /\ r.pc \in {"idle", "post", "save", "mark"} /\ (r.pc = "idle" => r = Idle)
           /\ r.pc # "idle" => r \in [pc: {"post", "save", "mark"}, piece: PieceIds \cup {None},
                                      id: Nat]
<1>1. Idle.pc = "idle" BY DEF Idle
<1>2. \A q \in [pc: {"post", "save", "mark"}, piece: PieceIds \cup {None}, id: Nat] :
          q.pc \in {"post", "save", "mark"}
  OBVIOUS
<1> QED BY <1>1, <1>2 DEF PosterType

\* What is used of the budget never becomes less.
Uses == \/ used' = used \/ \E w \in BudgetNames : Use(w)
LEMMA UsedGrows ==
    ASSUME UsedTyped, Uses, budget' = budget
    PROVE  UsedTyped' /\ \A k \in BudgetNames : used[k] <= used'[k]
<1>1. CASE used' = used BY <1>1 DEF UsedTyped
<1>2. ASSUME NEW w \in BudgetNames, Use(w)
      PROVE  UsedTyped' /\ \A k \in BudgetNames : used[k] <= used'[k]
  BY <1>2 DEF UsedTyped, Use
<1> QED BY <1>1, <1>2 DEF Uses

LEMMA NoneIsNoPiece == ASSUME ContentConstants PROVE None \notin PieceIds
BY DEF ContentConstants, None, PieceIds

LEMMA ContentInitSatisfies == ASSUME ContentConstants, ContentInit PROVE ContentInv
<1>1. UsedTyped
  <2>1. budget \in [BudgetNames -> Nat] /\ used = [k \in BudgetNames |-> 0]
    BY DEF ContentInit, ContentConstants
  <2> QED BY <2>1 DEF UsedTyped
<1>2. JobsInv
  <2>1. JobsTyped
    <3>1. [pc |-> "idle", results |-> <<>>, status |-> "none"] \in JobType
      BY DEF JobType, JobPc
    <3>2. NoPiece \in PieceType BY DEF NoPiece, PieceType
    <3> QED BY <3>1, <3>2 DEF ContentInit, JobsTyped
  <2>2. ASSUME NEW j \in JobIds PROVE JobFits(j)
    <3>1. job[j].pc = "idle" /\ job[j].results = <<>> /\ job[j].status = "none"
      BY DEF ContentInit
    <3>2. DOMAIN <<>> = {} OBVIOUS
    <3>3. PiecesOf(j) = {} BY <3>1, <3>2 DEF PiecesOf
    <3>4. \A p \in PieceIds : pieces[p] = NoPiece BY DEF ContentInit
    <3> QED BY <3>1, <3>3, <3>4 DEF JobFits
  <2> QED BY <2>1, <2>2 DEF JobsInv, ContentInit
<1>3. AuthInv
  <2>1. AuthTyped BY DEF ContentInit, AuthTyped, CallbackType
  <2>2. \A c \in Callbacks : callback[c].pc = "idle" BY DEF ContentInit, Idle
  <2>3. \A s \in States : connects[s] = 0 /\ s \notin states BY DEF ContentInit
  <2> QED BY <2>1, <2>2, <2>3 DEF AuthInv, StateFits, Fresh, Active
<1>4. PostsInv
  <2>1. PostsTyped BY DEF ContentInit, PostsTyped, PosterType
  <2>2. Publishing = {} BY DEF ContentInit, Publishing, Idle
  <2>3. \A i \in PieceIds : pieces[i].status = "none" BY DEF ContentInit, NoPiece
  <2> QED BY <2>1, <2>2, <2>3 DEF PostsInv, ContentInit
<1> QED BY <1>1, <1>2, <1>3, <1>4 DEF ContentInv, ContentInit

LEMMA JobsStay == ASSUME JobsInv, UNCHANGED jobVars PROVE JobsInv'
BY DEF JobsInv, JobsTyped, JobFits, PiecesOf, Ended, jobVars

LEMMA AuthStays ==
    ASSUME ContentConstants, AuthInv, UsedTyped, Uses, budget' = budget, UNCHANGED authVars
    PROVE  AuthInv'
<1>1. used.states <= used'.states /\ used.states \in Nat /\ used'.states \in Nat
  BY UsedGrows DEF BudgetNames, UsedTyped
<1>2. AuthTyped' BY DEF AuthInv, AuthTyped, authVars
<1>3. \A s \in States \ racedStates' : StateFits(s)'
  BY DEF AuthInv, StateFits, Active, authVars
<1>4. \A s \in States : s > used'.states => Fresh(s)'
  <2>1. \A s \in States : Fresh(s)' = Fresh(s) BY DEF Fresh, Active, authVars
  <2>2. \A s \in States : s \in Nat BY DEF ContentConstants
  <2>3. \A s \in States : s > used'.states => s > used.states BY <1>1, <2>2
  <2> QED BY <2>1, <2>3 DEF AuthInv
<1> QED BY <1>2, <1>3, <1>4 DEF AuthInv, authVars

\* Pieces do not disappear, and are not published.
PiecesLast == /\ pieces' \in [PieceIds -> PieceType]
              /\ \A i \in PieceIds : pieces[i] # NoPiece => pieces'[i] # NoPiece
PiecesStay == /\ PiecesLast
              /\ \A i \in PieceIds :
                    pieces'[i].status = "published" => pieces[i].status = "published"
LEMMA PostsStay ==
    ASSUME PostsInv, UsedTyped, Uses, budget' = budget, UNCHANGED postVars, PiecesStay,
           conn' = conn \/ conn' # 0
    PROVE  PostsInv'
<1>1. used.publishes <= used'.publishes /\ used.publishes \in Nat /\ used'.publishes \in Nat
  BY UsedGrows DEF BudgetNames, UsedTyped
<1>2. PostsTyped' BY DEF PostsInv, PostsTyped, postVars
<1>3. Publishing' = Publishing BY DEF Publishing, postVars
<1>4. ASSUME NEW p \in Publishing PROVE PosterFits(p)'
  <2>1. PosterFits(p) /\ poster[p] \in PosterType /\ poster[p].pc # "idle"
    BY <1>4 DEF PostsInv, PostsTyped, Publishing
  <2>2. poster[p].id \in Nat /\ poster[p].piece \in PieceIds \cup {None}
    BY <2>1, PlacesOfPoster
  <2>3. /\ poster' = poster /\ posted' = posted /\ crossed' = crossed /\ leaving' = leaving
        /\ conn' = 0 => conn = 0
    BY DEF postVars
  <2>4. poster[p].id <= used'.publishes BY <1>1, <2>1, <2>2 DEF PosterFits
  <2>5. poster[p].piece # None => pieces'[poster[p].piece] # NoPiece
    BY <2>1, <2>2 DEF PosterFits, PiecesStay, PiecesLast
  <2> QED BY <2>1, <2>3, <2>4, <2>5 DEF PosterFits
<1>5. \A x \in posted' : x.id <= used'.publishes
  BY <1>1 DEF PostsInv, PostsTyped, PostType, postVars
<1>6. \A i \in PieceIds : pieces'[i].status = "published" => \E x \in posted' : x.piece = i
  <2>1. \A i \in PieceIds : pieces[i].status = "published" => \E x \in posted : x.piece = i
    BY DEF PostsInv
  <2>2. \A i \in PieceIds : pieces'[i].status = "published" => pieces[i].status = "published"
    BY DEF PiecesStay
  <2>3. posted' = posted BY DEF postVars
  <2> QED BY <2>1, <2>2, <2>3
<1> QED BY <1>2, <1>3, <1>4, <1>5, <1>6 DEF PostsInv, postVars

-----------------------------------------------------------------------------
(* Jobs.                                                                    *)

\* A job goes on; its results are those it had.
Goes(j, r) == /\ job' = [job EXCEPT ![j] = r] /\ r.results = job[j].results
              /\ r.pc = "write" => Len(r.results) < JobSize
              /\ r.pc \in {"publish", "store"} \/ r.status = "completed" => Len(r.results) = JobSize
              /\ r.status # "none"

LEMMA JobGoes ==
    ASSUME ContentConstants, JobsInv, NEW j \in JobIds, NEW r \in JobType, Goes(j, r),
           UNCHANGED <<pieces, perf>>, inbox' \in {inbox, inbox \cup {PiecesOf(j)}},
           inbox' = inbox \/ Ended(j)
    PROVE  JobsInv'
<1>1. /\ job \in [JobIds -> JobType] /\ job' \in [JobIds -> JobType] /\ job'[j] = r
      /\ \A k \in JobIds \ {j} : job'[k] = job[k]
      /\ \A k \in JobIds : job'[k].results = job[k].results
  BY DEF JobsInv, JobsTyped, Goes
<1>2. \A k \in JobIds : PiecesOf(k)' = PiecesOf(k) /\ Ended(k)' = Ended(k)
  BY <1>1 DEF PiecesOf, Ended
<1>3. ASSUME NEW k \in JobIds PROVE JobFits(k)'
  <2>1. PiecesOf(k)' = {p \in PieceIds : p[1] = k /\ pieces'[p] # NoPiece}
    BY <1>2 DEF JobsInv, JobFits
  <2>2. CASE k = j BY <1>1, <2>1, <2>2 DEF Goes, JobFits, Ended
  <2>3. CASE k # j BY <1>1, <2>1, <2>3 DEF JobsInv, JobFits, Ended
  <2> QED BY <2>2, <2>3
<1>4. PiecesOf(j) \subseteq PieceIds /\ \A p \in PiecesOf(j) : p[1] = j
  BY DEF JobsInv, JobFits
<1>5. JobsTyped' BY <1>1, <1>4 DEF JobsInv, JobsTyped
<1>6. \A p \in PieceIds : p[1] \in JobIds BY DEF PieceIds
<1>7. \A p \in perf' : pieces'[p] # NoPiece /\ Ended(p[1])'
  BY <1>2, <1>6 DEF JobsInv, JobsTyped
<1>8. \A ids \in inbox' : \A p \in ids : Ended(p[1])'
  BY <1>2, <1>4, <1>6 DEF JobsInv, JobsTyped
<1> QED BY <1>3, <1>5, <1>7, <1>8 DEF JobsInv

\* A product has its answer, and its piece if there is one.
LEMMA ProductKeeps ==
    ASSUME ContentConstants, JobsInv, NEW j \in JobIds, WriteProduct(j)
    PROVE  JobsInv' /\ PiecesStay
<1> DEFINE old == job[j].results
           n == Len(old) + 1
           id == <<j, n>>
<1>1. /\ job[j] \in JobType /\ old \in Seq({"piece", "error", "content"}) /\ n \in 1..JobSize
      /\ job[j].pc = "write" /\ id \in PieceIds /\ n = Len(old) + 1 /\ Len(old) \in Nat
      /\ Len(old) < JobSize
  <2>1. job[j] \in JobType /\ job[j].pc = "write" BY DEF JobsInv, JobsTyped, WriteProduct
  <2>2. old \in Seq({"piece", "error", "content"}) BY <2>1 DEF JobType
  <2>3. Len(old) \in Nat BY <2>2
  <2>4. Len(old) < JobSize BY <2>1 DEF JobsInv, JobFits
  <2>5. n \in 1..JobSize BY <2>3, <2>4 DEF ContentConstants
  <2> QED BY <2>1, <2>2, <2>3, <2>4, <2>5 DEF PieceIds
<1>2. PICK a \in {"piece", "error", "content"} :
         /\ job' = [job EXCEPT ![j].results = Append(job[j].results, a),
                               ![j].pc = NextProduct(Append(job[j].results, a))]
         /\ a = "piece" => pieces' = [pieces EXCEPT ![id] =
                                         [status |-> "generated", platform |-> ""]]
         /\ a # "piece" => pieces' = pieces
  BY DEF WriteProduct
<1> DEFINE new == Append(old, a)
           r == [job[j] EXCEPT !.results = new, !.pc = NextProduct(new)]
<1>3. /\ new \in Seq({"piece", "error", "content"}) /\ Len(new) = n
      /\ \A i \in 1..Len(old) : new[i] = old[i]
      /\ new[n] = a /\ DOMAIN new = DOMAIN old \cup {n} /\ n \notin DOMAIN old
      /\ DOMAIN old = 1..Len(old)
  BY <1>1
<1>4. NextProduct(new) \in {"publish", "write"}
      /\ (NextProduct(new) = "publish" <=> n = JobSize)
  BY <1>3 DEF NextProduct
<1>5. r \in JobType /\ r.results = new /\ r.pc = NextProduct(new) /\ r.status = job[j].status
  BY <1>1, <1>3, <1>4 DEF JobType, JobPc
<1>6. job' = [job EXCEPT ![j] = r] BY <1>1, <1>2
<1> HIDE DEF r, new
<1>7. /\ job \in [JobIds -> JobType] /\ job' \in [JobIds -> JobType] /\ job'[j] = r
      /\ \A k \in JobIds \ {j} : job'[k] = job[k]
  BY <1>5, <1>6 DEF JobsInv, JobsTyped
<1>8. /\ pieces \in [PieceIds -> PieceType] /\ pieces' \in [PieceIds -> PieceType]
      /\ \A i \in PieceIds \ {id} : pieces'[i] = pieces[i]
      /\ a # "piece" => pieces'[id] = pieces[id]
      /\ a = "piece" => pieces'[id] = [status |-> "generated", platform |-> ""]
  <2>1. [status |-> "generated", platform |-> ""] \in PieceType BY DEF PieceType
  <2>2. pieces \in [PieceIds -> PieceType] BY DEF JobsInv, JobsTyped
  <2> QED BY <1>1, <1>2, <2>1, <2>2
<1>20. \A p : p[1] # j => p # id OBVIOUS
<1>9. [status |-> "generated", platform |-> ""] # NoPiece BY DEF NoPiece
<1>10. PiecesStay
  <2>1. ASSUME NEW i \in PieceIds
        PROVE  /\ pieces[i] # NoPiece => pieces'[i] # NoPiece
               /\ pieces'[i].status = "published" => pieces[i].status = "published"
    <3>1. pieces'[i] = pieces[i] \/ pieces'[i] = [status |-> "generated", platform |-> ""]
      BY <1>8
    <3>2. [status |-> "generated", platform |-> ""].status # "published" OBVIOUS
    <3>3. CASE pieces'[i] = pieces[i] BY <3>3
    <3>4. CASE pieces'[i] = [status |-> "generated", platform |-> ""]
      BY <1>9, <3>2, <3>4
    <3> QED BY <3>1, <3>3, <3>4
  <2> QED BY <1>8, <2>1 DEF PiecesStay, PiecesLast
<1>11. pieces[id] = NoPiece
  <2>1. id \notin PiecesOf(j) BY <1>1, <1>3 DEF PiecesOf
  <2> QED BY <1>1, <2>1 DEF JobsInv, JobFits
<1>12. ASSUME NEW k \in JobIds
       PROVE  PiecesOf(k)' = {p \in PieceIds : p[1] = k /\ pieces'[p] # NoPiece}
  <2>1. PiecesOf(k) = {p \in PieceIds : p[1] = k /\ pieces[p] # NoPiece} BY DEF JobsInv, JobFits
  <2>2. CASE k # j
    <3>1. PiecesOf(k)' = PiecesOf(k) BY <1>7, <2>2 DEF PiecesOf
    <3>2. \A p \in PieceIds : p[1] = k => pieces'[p] = pieces[p] BY <1>8, <1>20, <2>2
    <3> QED BY <2>1, <3>1, <3>2
  <2>3. CASE k = j
    <3>1. PiecesOf(k)' = {<<j, i>> : i \in {m \in DOMAIN new : new[m] = "piece"}}
      BY <1>5, <1>7, <2>3 DEF PiecesOf
    <3>2. {m \in DOMAIN new : new[m] = "piece"}
          = {m \in DOMAIN old : old[m] = "piece"} \cup (IF a = "piece" THEN {n} ELSE {})
      BY <1>3
    <3>3. PiecesOf(k)' = PiecesOf(k) \cup (IF a = "piece" THEN {id} ELSE {})
      BY <2>3, <3>1, <3>2 DEF PiecesOf
    <3>4. CASE a = "piece"
      <4>1. pieces'[id] # NoPiece BY <1>8, <1>9, <3>4
      <4>2. id[1] = j OBVIOUS
      <4>3. PiecesOf(k)' = PiecesOf(k) \cup {id} BY <3>3, <3>4
      <4> HIDE DEF id
      <4> QED BY <1>1, <1>8, <2>1, <2>3, <4>1, <4>2, <4>3
    <3>5. CASE a # "piece"
      <4>1. \A p \in PieceIds : pieces'[p] = pieces[p] BY <1>2, <3>5
      <4> QED BY <2>1, <3>3, <3>5, <4>1
    <3> QED BY <3>4, <3>5
  <2> QED BY <2>2, <2>3
<1>13. \A k \in JobIds : Ended(k) => k # j /\ Ended(k)'
  BY <1>1, <1>7 DEF Ended
<1>14. ASSUME NEW k \in JobIds PROVE JobFits(k)'
  <2>1. CASE k # j BY <1>7, <1>12, <1>13, <2>1 DEF JobsInv, JobFits, Ended
  <2>2. CASE k = j
    <3>1. job[j].status # "completed" /\ job[j].status # "none"
      <4>1. JobFits(j) /\ ~Ended(j) BY <1>1 DEF JobsInv, Ended
      <4> QED BY <1>1, <4>1 DEF JobFits
    <3>2. Len(new) = JobSize \/ (Len(new) < JobSize /\ r.pc = "write")
      <4>1. JobSize \in Nat /\ Len(new) \in 1..JobSize BY <1>1, <1>3 DEF ContentConstants
      <4>2. Len(new) = JobSize \/ (Len(new) # JobSize /\ Len(new) < JobSize) BY <4>1
      <4> QED BY <1>3, <1>4, <1>5, <4>2
    <3>3. /\ job'[j].pc = r.pc /\ job'[j].results = new /\ job'[j].status = job[j].status
          /\ r.pc \in {"publish", "write"} /\ (r.pc = "publish" <=> Len(new) = JobSize)
      BY <1>3, <1>4, <1>5, <1>7
    <3>4. PiecesOf(j)' = {p \in PieceIds : p[1] = j /\ pieces'[p] # NoPiece} BY <1>12
    <3> QED BY <2>2, <3>1, <3>2, <3>3, <3>4 DEF JobFits, Ended
  <2> QED BY <2>1, <2>2
<1>15. perf' = perf /\ inbox' = inbox BY DEF WriteProduct
<1>16. JobsTyped' BY <1>7, <1>8, <1>15 DEF JobsInv, JobsTyped
<1>17. \A p \in PieceIds : p[1] \in JobIds BY DEF PieceIds
<1>18. \A p \in perf' : pieces'[p] # NoPiece /\ Ended(p[1])'
  BY <1>10, <1>13, <1>15, <1>17 DEF JobsInv, JobsTyped, PiecesStay, PiecesLast
<1>19. \A ids \in inbox' : \A p \in ids : Ended(p[1])'
  BY <1>13, <1>15, <1>17 DEF JobsInv, JobsTyped
<1> QED BY <1>10, <1>14, <1>16, <1>18, <1>19 DEF JobsInv

LEMMA JobsKeep ==
    ASSUME ContentConstants, JobsInv,
           \/ \E j \in JobIds : Generate(j) \/ WriteProduct(j) \/ PublishGenerated(j)
                                \/ StoreJob(j) \/ JobDies(j)
           \/ \E ids \in inbox : OnContentGenerated(ids)
    PROVE  JobsInv' /\ PiecesStay
<1>1. JobsTyped /\ \A j \in JobIds : JobFits(j) BY DEF JobsInv
<1>2. pieces' = pieces => PiecesStay BY <1>1 DEF PiecesStay, PiecesLast, JobsTyped
<1>3. ASSUME NEW j \in JobIds, Generate(j) PROVE JobsInv' /\ PiecesStay
  <2> DEFINE r == [pc |-> "write", results |-> <<>>, status |-> "processing"]
  <2>1. job[j].results = <<>> BY <1>1, <1>3 DEF Generate, JobFits
  <2>2. r \in JobType BY DEF JobType, JobPc
  <2>3. Len(<<>>) = 0 /\ 0 < JobSize BY DEF ContentConstants
  <2>4. Goes(j, r) BY <1>3, <2>1, <2>3 DEF Goes, Generate
  <2>5. UNCHANGED <<pieces, inbox, perf>> BY <1>3 DEF Generate
  <2> HIDE DEF r
  <2> QED BY <1>2, <2>2, <2>4, <2>5, JobGoes
<1>4. ASSUME NEW j \in JobIds, WriteProduct(j) PROVE JobsInv' /\ PiecesStay
  BY <1>4, ProductKeeps
<1>5. ASSUME NEW j \in JobIds, PublishGenerated(j) \/ StoreJob(j) \/ JobDies(j)
      PROVE  JobsInv' /\ PiecesStay
  <2>1. PICK r : /\ job' = [job EXCEPT ![j] = r]
                 /\ \/ r = [job[j] EXCEPT !.pc = "store"] /\ job[j].pc = "publish"
                    \/ r = [job[j] EXCEPT !.pc = "done", !.status = "completed"]
                          /\ job[j].pc = "store"
                    \/ r = [job[j] EXCEPT !.pc = "done"]
                          /\ job[j].pc \in {"write", "publish", "store"}
    BY <1>5 DEF PublishGenerated, StoreJob, JobDies
  <2>2. job[j] \in JobType /\ JobFits(j) BY <1>1 DEF JobsTyped
  <2>3. r \in JobType /\ r.results = job[j].results BY <2>1, <2>2 DEF JobType, JobPc
  <2>4. Goes(j, r)
    BY <2>1, <2>2, <2>3 DEF Goes, JobFits, Ended, JobType
  <2>5. /\ UNCHANGED <<pieces, perf>> /\ inbox' \in {inbox, inbox \cup {PiecesOf(j)}}
        /\ inbox' = inbox \/ job[j].pc = "publish"
    BY <1>5 DEF PublishGenerated, StoreJob, JobDies
  <2>6. inbox' = inbox \/ Ended(j) BY <2>2, <2>5 DEF JobFits
  <2> QED BY <1>2, <2>3, <2>4, <2>5, <2>6, JobGoes
<1>6. ASSUME NEW ids \in inbox, OnContentGenerated(ids) PROVE JobsInv' /\ PiecesStay
  <2>1. /\ job' = job /\ pieces' = pieces /\ inbox' \subseteq inbox
        /\ perf' = perf \cup {p \in ids : pieces[p] # NoPiece}
    BY <1>6 DEF OnContentGenerated
  <2>2. ids \subseteq PieceIds /\ \A p \in ids : Ended(p[1]) BY <1>6 DEF JobsInv, JobsTyped
  <2>3. JobsTyped' BY <1>1, <2>1, <2>2 DEF JobsTyped
  <2>4. \A j : Ended(j)' = Ended(j) /\ PiecesOf(j)' = PiecesOf(j) BY <2>1 DEF Ended, PiecesOf
  <2>5. \A j \in JobIds : JobFits(j)' BY <1>1, <2>1, <2>4 DEF JobFits
  <2>6. \A p \in perf' : pieces'[p] # NoPiece /\ Ended(p[1])'
    BY <2>1, <2>2, <2>4 DEF JobsInv
  <2>7. \A q \in inbox' : \A p \in q : Ended(p[1])'
    BY <2>1, <2>4 DEF JobsInv
  <2> QED BY <1>2, <2>1, <2>3, <2>5, <2>6, <2>7 DEF JobsInv
<1> QED BY <1>3, <1>4, <1>5, <1>6

-----------------------------------------------------------------------------
(* The connection.                                                          *)
LEMMA AuthKeeps ==
    ASSUME ContentConstants, UsedTyped, AuthInv, Uses, budget' = budget,
           \/ \E s \in States : AuthURL(s) \/ StateExpires(s) \/ \E c \in Callbacks : ReadState(c, s)
           \/ \E c \in Callbacks : DeleteState(c) \/ StoreConnection(c)
           \/ DeleteConnection
    PROVE  AuthInv'
<1>0. /\ AuthTyped /\ \A s \in States \ racedStates : StateFits(s)
      /\ \A s \in States : s > used.states => Fresh(s)
      /\ \A c \in Callbacks : callback[c].pc = "store" => callback[c].known
  BY DEF AuthInv
<1>1. used.states <= used'.states /\ used.states \in Nat /\ used'.states \in Nat
  BY UsedGrows DEF BudgetNames, UsedTyped
<1>2. \A s \in States : s \in Nat /\ (s > used'.states => s > used.states)
  BY <1>1 DEF ContentConstants
<1>3. ASSUME NEW s \in States, AuthURL(s) PROVE AuthInv'
  <2>1. /\ s = used.states + 1 /\ used'.states = used.states + 1 /\ states' = states \cup {s}
        /\ UNCHANGED <<callback, conn, connects, racedStates>>
    BY <1>3 DEF AuthURL, Use, UsedTyped, BudgetNames
  <2>2. Fresh(s) BY <1>0, <1>1, <1>2, <2>1
  <2>3. AuthTyped' BY <1>0, <2>1 DEF AuthTyped
  <2>4. \A t \in States \ racedStates' : StateFits(t)'
    <3>1. ASSUME NEW t \in States \ racedStates PROVE StateFits(t)'
      <4>1. CASE t = s BY <1>0, <2>1, <2>2, <4>1 DEF StateFits, Fresh, Active
      <4>2. CASE t # s BY <1>0, <2>1, <4>2 DEF StateFits, Active
      <4> QED BY <4>1, <4>2
    <3> QED BY <2>1, <3>1
  <2>5. \A t \in States : t > used'.states => Fresh(t)'
    <3>1. ASSUME NEW t \in States, t > used'.states PROVE Fresh(t)'
      <4>1. t # s /\ Fresh(t) BY <1>0, <1>1, <1>2, <2>1, <3>1
      <4> QED BY <2>1, <4>1 DEF Fresh, Active
    <3> QED BY <3>1
  <2> QED BY <1>0, <2>1, <2>3, <2>4, <2>5 DEF AuthInv
<1>4. ASSUME NEW s \in States, StateExpires(s) PROVE AuthInv'
  <2>1. /\ states' = states \ {s} /\ UNCHANGED <<callback, conn, connects, racedStates>>
    BY <1>4 DEF StateExpires
  <2>2. AuthTyped' BY <1>0, <2>1 DEF AuthTyped
  <2>3. \A t \in States \ racedStates' : StateFits(t)' BY <1>0, <2>1 DEF StateFits, Active
  <2>4. \A t \in States : t > used'.states => Fresh(t)' BY <1>0, <1>2, <2>1 DEF Fresh, Active
  <2> QED BY <1>0, <2>1, <2>2, <2>3, <2>4 DEF AuthInv
<1>5. ASSUME NEW s \in States, NEW c \in Callbacks, ReadState(c, s) PROVE AuthInv'
  <2> DEFINE r == [pc |-> "delete", state |-> s, known |-> s \in states]
  <2>1. /\ callback[c].pc = "idle" /\ callback' = [callback EXCEPT ![c] = r]
        /\ UNCHANGED <<states, conn, connects>>
        /\ racedStates' = IF \E d \in Callbacks : Active(d, s)
                          THEN racedStates \cup {s} ELSE racedStates
    BY <1>5 DEF ReadState, Active
  <2>2. r \in CallbackType /\ r.pc = "delete" /\ r.state = s /\ r.known = (s \in states)
    BY DEF CallbackType
  <2> HIDE DEF r
  <2>3. /\ callback' \in [Callbacks -> CallbackType] /\ callback'[c] = r
        /\ \A d \in Callbacks \ {c} : callback'[d] = callback[d]
    BY <1>0, <2>1, <2>2 DEF AuthTyped
  <2>4. AuthTyped' BY <1>0, <2>1, <2>3 DEF AuthTyped
  <2>5. ASSUME NEW t \in States \ racedStates' PROVE StateFits(t)'
    <3>1. t \in States \ racedStates /\ StateFits(t) BY <1>0, <2>1, <2>5
    <3>2. CASE t # s
      <4>1. \A d \in Callbacks : Active(d, t)' => d # c /\ Active(d, t) /\ callback'[d] = callback[d]
        BY <2>2, <2>3, <3>2 DEF Active
      <4> QED BY <2>1, <3>1, <4>1 DEF StateFits
    <3>3. CASE t = s
      <4>1. \A d \in Callbacks : ~Active(d, s) BY <2>1, <2>5, <3>3
      <4>2. \A d \in Callbacks : Active(d, s)' => d = c BY <2>3, <4>1 DEF Active
      <4> QED BY <2>1, <2>2, <2>3, <3>1, <3>3, <4>2 DEF StateFits
    <3> QED BY <3>2, <3>3
  <2>6. ASSUME NEW t \in States, t > used'.states PROVE Fresh(t)'
    <3>1. Fresh(t) BY <1>0, <1>2, <2>6
    <3>2. CASE t # s
      <4>1. \A d \in Callbacks : Active(d, t)' => Active(d, t) /\ callback'[d] = callback[d]
        BY <2>2, <2>3, <3>2 DEF Active
      <4> QED BY <2>1, <3>1, <4>1 DEF Fresh
    <3>3. CASE t = s
      <4>1. \A d \in Callbacks \ {c} : Active(d, t)' => Active(d, t) /\ callback'[d] = callback[d]
        BY <2>3 DEF Active
      <4>2. callback'[c].pc = "delete" /\ ~callback'[c].known BY <2>2, <2>3, <3>1, <3>3 DEF Fresh
      <4> QED BY <2>1, <3>1, <4>1, <4>2 DEF Fresh
    <3> QED BY <3>2, <3>3
  <2>7. \A d \in Callbacks : callback'[d].pc = "store" => callback'[d].known BY <1>0, <2>2, <2>3
  <2> QED BY <2>4, <2>5, <2>6, <2>7 DEF AuthInv
<1>6. ASSUME NEW c \in Callbacks, DeleteState(c) PROVE AuthInv'
  <2> DEFINE s == callback[c].state
             r == IF callback[c].known THEN [callback[c] EXCEPT !.pc = "store"] ELSE Idle
  <2>1. /\ callback[c].pc = "delete" /\ states' = states \ {s}
        /\ callback' = [callback EXCEPT ![c] = r] /\ UNCHANGED <<conn, connects, racedStates>>
    BY <1>6 DEF DeleteState
  <2>2. callback[c] \in [pc: {"delete", "store"}, state: States, known: BOOLEAN]
    BY <1>0, <2>1, PlacesOfCallback DEF AuthTyped
  <2>3. /\ s \in States /\ r \in CallbackType
        /\ \/ r.pc = "idle"
           \/ r.pc = "store" /\ r.state = s /\ r.known = callback[c].known /\ callback[c].known
    <3>1. CASE callback[c].known BY <2>2, <3>1 DEF CallbackType
    <3>2. CASE ~callback[c].known BY <2>2, <3>2 DEF CallbackType, Idle
    <3> QED BY <3>1, <3>2
  <2> HIDE DEF r, s
  <2>0. s = callback[c].state BY DEF s
  <2>4. /\ callback' \in [Callbacks -> CallbackType] /\ callback'[c] = r
        /\ \A d \in Callbacks \ {c} : callback'[d] = callback[d]
    BY <1>0, <2>1, <2>3 DEF AuthTyped
  <2>5. AuthTyped' BY <1>0, <2>1, <2>4 DEF AuthTyped
  <2>6. \A d \in Callbacks, t \in States : Active(d, t)' =>
            /\ Active(d, t) /\ callback'[d].known = callback[d].known
            /\ callback'[d].pc = callback[d].pc \/ (t = s /\ callback'[d].known)
    BY <2>0, <2>1, <2>3, <2>4 DEF Active
  <2>7. ASSUME NEW t \in States \ racedStates' PROVE StateFits(t)'
    <3>1. StateFits(t) BY <1>0, <2>1, <2>7
    <3> QED BY <2>1, <2>6, <3>1 DEF StateFits
  <2>8. ASSUME NEW t \in States, t > used'.states PROVE Fresh(t)'
    <3>1. Fresh(t) BY <1>0, <1>2, <2>8
    <3> QED BY <2>1, <2>6, <3>1 DEF Fresh
  <2>9. \A d \in Callbacks : callback'[d].pc = "store" => callback'[d].known BY <1>0, <2>3, <2>4
  <2> QED BY <2>5, <2>7, <2>8, <2>9 DEF AuthInv
<1>7. ASSUME NEW c \in Callbacks, StoreConnection(c) PROVE AuthInv'
  <2> DEFINE s == callback[c].state
  <2>1. /\ callback[c].pc = "store" /\ callback' = [callback EXCEPT ![c] = Idle]
        /\ \/ conn' = s /\ connects' = [connects EXCEPT ![s] = connects[s] + 1]
           \/ UNCHANGED <<conn, connects>>
        /\ UNCHANGED <<states, racedStates>>
    BY <1>7 DEF StoreConnection
  <2>2. callback[c] \in [pc: {"delete", "store"}, state: States, known: BOOLEAN]
    BY <1>0, <2>1, PlacesOfCallback DEF AuthTyped
  <2>3. s \in States BY <2>2
  <2> HIDE DEF s
  <2>0. s = callback[c].state BY DEF s
  <2>4. /\ callback' \in [Callbacks -> CallbackType] /\ callback'[c] = Idle
        /\ \A d \in Callbacks \ {c} : callback'[d] = callback[d]
    BY <1>0, <2>1 DEF AuthTyped, CallbackType
  <2>5. /\ connects' \in [States -> Nat] /\ connects'[s] \in {connects[s], connects[s] + 1}
        /\ \A t \in States \ {s} : connects'[t] = connects[t]
        /\ conn' \in States \cup {0}
    BY <1>0, <2>1, <2>3 DEF AuthTyped
  <2>6. AuthTyped' BY <1>0, <2>1, <2>4, <2>5 DEF AuthTyped
  <2>7. \A d \in Callbacks, t \in States : Active(d, t)' =>
            Active(d, t) /\ callback'[d] = callback[d] /\ d # c
    BY <2>4 DEF Active, Idle
  <2>8. Active(c, s) /\ callback[c].known BY <1>0, <2>0, <2>1 DEF Active
  <2>9. ASSUME NEW t \in States \ racedStates' PROVE StateFits(t)'
    <3>1. StateFits(t) BY <1>0, <2>1, <2>9
    <3>2. CASE t # s BY <2>1, <2>5, <2>7, <3>1, <3>2 DEF StateFits
    <3>3. CASE t = s
      <4>1. connects[s] = 0 /\ s \notin states BY <2>1, <2>8, <3>1, <3>3 DEF StateFits
      <4>2. \A d \in Callbacks : ~Active(d, t)'
        <5>1. ASSUME NEW d \in Callbacks, Active(d, t)' PROVE FALSE
          <6>1. Active(d, t) /\ d # c BY <2>7, <5>1
          <6>2. Active(c, t) BY <2>8, <3>3
          <6> QED BY <3>1, <6>1, <6>2 DEF StateFits
        <5> QED BY <5>1
      <4>3. connects'[t] <= 1 BY <2>5, <3>3, <4>1
      <4>4. t \notin states' BY <2>1, <3>3, <4>1
      <4> QED BY <4>2, <4>3, <4>4 DEF StateFits
    <3> QED BY <3>2, <3>3
  <2>10. ASSUME NEW t \in States, t > used'.states PROVE Fresh(t)'
    <3>1. Fresh(t) BY <1>0, <1>2, <2>10
    <3>2. t # s BY <2>1, <2>8, <3>1 DEF Fresh
    <3> QED BY <2>1, <2>5, <2>7, <3>1, <3>2 DEF Fresh
  <2>11. \A d \in Callbacks : callback'[d].pc = "store" => callback'[d].known
    BY <1>0, <2>4 DEF Idle
  <2> QED BY <2>6, <2>9, <2>10, <2>11 DEF AuthInv
<1>8. CASE DeleteConnection
  <2>1. conn' = 0 /\ UNCHANGED <<states, callback, connects, racedStates>>
    BY <1>8 DEF DeleteConnection
  <2>2. AuthTyped' BY <1>0, <2>1 DEF AuthTyped
  <2>3. \A s \in States \ racedStates' : StateFits(s)' BY <1>0, <2>1 DEF StateFits, Active
  <2>4. \A s \in States : s > used'.states => Fresh(s)' BY <1>0, <1>2, <2>1 DEF Fresh, Active
  <2> QED BY <1>0, <2>1, <2>2, <2>3, <2>4 DEF AuthInv
<1> QED BY <1>3, <1>4, <1>5, <1>6, <1>7, <1>8

-----------------------------------------------------------------------------
(* Publications.                                                            *)

\* A publication goes on, or ends, and keeps its piece and number.
Publishes(p, r) == /\ poster' = [poster EXCEPT ![p] = r] /\ poster[p].pc # "idle"
                   /\ r.pc # "idle" => r.id = poster[p].id /\ r.piece = poster[p].piece

Post(p) == [id |-> poster[p].id, piece |-> poster[p].piece]
Posts(p, r) == /\ r.pc \in {"save", "mark"} => Post(p) \in posted'
               /\ posted' \in {posted, posted \cup {Post(p)}}

LEMMA PublishGoes ==
    ASSUME ContentConstants, UsedTyped, PostsInv, Uses, budget' = budget, PiecesLast,
           NEW p \in Posters, NEW r \in PosterType, Publishes(p, r), Posts(p, r),
           UNCHANGED <<leaving, crossed, conn>>
    PROVE  /\ \A q \in Publishing' : q \in Publishing /\ PosterFits(q)'
           /\ \A q, o \in Publishing' : poster'[q].id = poster'[o].id => q = o
           /\ \A x \in posted' : x.id <= used'.publishes
           /\ posted' \subseteq PostType /\ poster' \in [Posters -> PosterType]
           /\ poster'[p] = r /\ \A q \in Posters \ {p} : poster'[q] = poster[q]
<1>0. PostsTyped BY DEF PostsInv
<1>1. used.publishes <= used'.publishes /\ used.publishes \in Nat /\ used'.publishes \in Nat
  BY UsedGrows DEF BudgetNames, UsedTyped
<1>2. /\ poster' \in [Posters -> PosterType] /\ poster'[p] = r
      /\ \A q \in Posters \ {p} : poster'[q] = poster[q]
  BY <1>0 DEF PostsTyped, Publishes
<1>3. p \in Publishing BY DEF Publishing, Publishes
<1>4. \A q \in Publishing' : /\ q \in Publishing /\ q \in Posters
                             /\ poster'[q].id = poster[q].id /\ poster'[q].piece = poster[q].piece
                             /\ q # p => poster'[q] = poster[q]
  BY <1>2 DEF Publishing, Publishes
<1>5. \A q \in Publishing : /\ PosterFits(q) /\ poster[q].id \in Nat
                            /\ poster[q].piece \in PieceIds \cup {None}
  <2>1. \A q \in Publishing : poster[q] \in PosterType /\ poster[q].pc # "idle"
    BY <1>0 DEF PostsTyped, Publishing
  <2> QED BY <2>1, PlacesOfPoster DEF PostsInv
<1>6. ASSUME NEW x \in posted'
      PROVE  /\ x \in PostType /\ x.id \in Nat /\ x.id <= used.publishes
             /\ x \in posted \/ (x.id = poster[p].id /\ x.piece = poster[p].piece)
  <2>1. CASE x \in posted BY <1>0, <2>1 DEF PostsInv, PostsTyped, PostType
  <2>2. CASE x = Post(p)
    BY <1>3, <1>5, <2>2 DEF PostType, PosterFits, Post
  <2> QED BY <1>6, <2>1, <2>2 DEF Posts
<1>7. \A x \in posted' : x.id <= used'.publishes BY <1>1, <1>6
<1>8. \A q, o \in Publishing' : poster'[q].id = poster'[o].id => q = o
  BY <1>4 DEF PostsInv
<1>9. ASSUME NEW q \in Publishing' PROVE PosterFits(q)'
  <2>1. PosterFits(q) /\ poster[q].id \in Nat /\ poster[q].piece \in PieceIds \cup {None}
    BY <1>4, <1>5, <1>9
  <2>2. poster'[q].id = poster[q].id /\ poster'[q].piece = poster[q].piece BY <1>4, <1>9
  <2>3. poster'[q].id <= used'.publishes BY <1>1, <2>1, <2>2 DEF PosterFits
  <2>4. poster'[q].piece # None => pieces'[poster'[q].piece] # NoPiece
    BY <2>1, <2>2 DEF PosterFits, PiecesLast
  <2>5. \A x \in posted' : x.id = poster'[q].id => x.piece = poster'[q].piece
    <3>1. ASSUME NEW x \in posted', x.id = poster[q].id PROVE x.piece = poster[q].piece
      <4>1. CASE x \in posted BY <2>1, <3>1, <4>1 DEF PosterFits
      <4>2. CASE x.id = poster[p].id /\ x.piece = poster[p].piece
        <5>1. \A o \in Publishing : poster[q].id = poster[o].id => q = o
          BY <1>4, <1>9 DEF PostsInv
        <5>2. poster[q].id = poster[p].id BY <3>1, <4>2
        <5>3. q = p BY <1>3, <5>1, <5>2
        <5> QED BY <4>2, <5>3
      <4> QED BY <1>6, <4>1, <4>2
    <3> QED BY <2>2, <3>1
  <2>6. poster'[q].pc \in {"save", "mark"} =>
            [id |-> poster'[q].id, piece |-> poster'[q].piece] \in posted'
    <3>1. CASE q = p BY <1>2, <2>2, <3>1 DEF Posts, Post
    <3>2. CASE q # p BY <1>4, <1>9, <2>1, <3>2 DEF PosterFits, Posts
    <3> QED BY <3>1, <3>2
  <2>7. leaving' \/ conn' = 0 => poster'[q].id \in crossed' BY <2>1, <2>2 DEF PosterFits
  <2> QED BY <2>3, <2>4, <2>5, <2>6, <2>7 DEF PosterFits
<1>10. posted' \subseteq PostType BY <1>6
<1> QED BY <1>2, <1>4, <1>7, <1>8, <1>9, <1>10

\* What the step of a publication of post x does to the posts.
Files(p, r, x) ==
    /\ PiecesLast
    /\ poster[p].pc = "save" => x \in posts' \/ x.id \in removed'
    /\ r.pc \in {"save", "mark"} => x \in posted'
    /\ posted' \in {posted, posted \cup {x}} /\ posts' \subseteq posted'
    /\ posts \subseteq posts' /\ posts' \subseteq posts \cup {x}
    /\ removed \subseteq removed' /\ removed' \subseteq Nat
    /\ x \in posted' \ posted => r.pc = "save"
    /\ \A i \in PieceIds : pieces'[i].status = "published" =>
          pieces[i].status = "published" \/ (x \in posted /\ x.piece = i)

LEMMA PublicationsKeep ==
    ASSUME ContentConstants, UsedTyped, JobsInv, PostsInv, Uses, budget' = budget,
           NEW p \in Posters, PostToPlatform(p) \/ SavePost(p) \/ MarkPublished(p)
    PROVE  PostsInv' /\ JobsInv'
<1>0. /\ PostsTyped /\ \A q \in Publishing : PosterFits(q)
      /\ posts \subseteq posted
  BY DEF PostsInv
<1>1. poster[p].pc # "idle" /\ poster[p].pc \in {"post", "save", "mark"} /\ p \in Publishing
  BY DEF PostToPlatform, SavePost, MarkPublished, Publishing
<1>2. /\ poster[p] \in [pc: {"post", "save", "mark"}, piece: PieceIds \cup {None}, id: Nat]
      /\ PosterFits(p)
  BY <1>0, <1>1, PlacesOfPoster DEF PostsTyped
<1>3. UNCHANGED <<leaving, crossed, conn>>
  BY DEF PostToPlatform, SavePost, MarkPublished, authVars
<1> DEFINE x == Post(p)
<1>4. x.id = poster[p].id /\ x.piece = poster[p].piece /\ x.id \in Nat /\ x \in PostType
  BY <1>2 DEF PostType, Post
<1>5. pieces \in [PieceIds -> PieceType] BY DEF JobsInv, JobsTyped
<1>6. ASSUME NEW r \in PosterType, Publishes(p, r), Files(p, r, x)
      PROVE  PostsInv'
  <2>0. /\ PiecesLast /\ (poster[p].pc = "save" => x \in posts' \/ x.id \in removed')
        /\ posted' \in {posted, posted \cup {x}} /\ posts' \subseteq posted'
        /\ posts \subseteq posts' /\ posts' \subseteq posts \cup {x}
        /\ removed \subseteq removed' /\ removed' \subseteq Nat
        /\ (x \in posted' \ posted => r.pc = "save")
        /\ (r.pc \in {"save", "mark"} => x \in posted')
        /\ \A i \in PieceIds : pieces'[i].status = "published" =>
              pieces[i].status = "published" \/ (x \in posted /\ x.piece = i)
    BY <1>6 DEF Files
  <2>1. /\ \A q \in Publishing' : q \in Publishing /\ PosterFits(q)'
        /\ \A q, o \in Publishing' : poster'[q].id = poster'[o].id => q = o
        /\ \A y \in posted' : y.id <= used'.publishes
        /\ posted' \subseteq PostType /\ poster' \in [Posters -> PosterType]
        /\ poster'[p] = r /\ \A q \in Posters \ {p} : poster'[q] = poster[q]
    <3>1. PiecesLast /\ Posts(p, r) BY <2>0 DEF Posts
    <3> QED BY <1>3, <1>6, <3>1, PublishGoes
  <2>2. PostsTyped' BY <1>0, <1>3, <1>4, <2>0, <2>1 DEF PostsTyped
  <2>3. leaving' \/ conn' = 0 => \A y \in posts' : y.id \in crossed'
    <3>1. leaving \/ conn = 0 => x.id \in crossed /\ \A y \in posts : y.id \in crossed
      BY <1>2, <1>4 DEF PosterFits, PostsInv
    <3> QED BY <1>3, <2>0, <3>1
  <2>4. \A i \in PieceIds : pieces'[i].status = "published" => \E y \in posted' : y.piece = i
    <3>1. \A i \in PieceIds : pieces[i].status = "published" => \E y \in posted : y.piece = i
      BY DEF PostsInv
    <3>2. posted \subseteq posted' BY <2>0
    <3> QED BY <2>0, <3>1, <3>2
  <2>5. ASSUME NEW y \in posted'
        PROVE  \/ y \in posts' \/ y.id \in removed'
               \/ \E q \in Posters : poster'[q].pc = "save" /\ poster'[q].id = y.id
    <3>1. CASE y \in posted
      <4>1. \/ y \in posts \/ y.id \in removed
            \/ \E q \in Posters : poster[q].pc = "save" /\ poster[q].id = y.id
        BY <3>1 DEF PostsInv
      <4>2. CASE y \in posts \/ y.id \in removed BY <2>0, <4>2
      <4>3. ASSUME NEW q \in Posters, poster[q].pc = "save", poster[q].id = y.id
            PROVE  \/ y \in posts' \/ y.id \in removed'
                   \/ \E o \in Posters : poster'[o].pc = "save" /\ poster'[o].id = y.id
        <5>1. CASE q # p BY <2>1, <4>3, <5>1
        <5>2. CASE q = p
          <6>1. y.piece = poster[p].piece BY <1>2, <3>1, <4>3, <5>2 DEF PosterFits
          <6>2. y = x
            <7>1. y \in PostType BY <1>0, <3>1 DEF PostsTyped
            <7> QED BY <1>4, <4>3, <5>2, <6>1, <7>1 DEF PostType
          <6>3. x \in posts' \/ x.id \in removed' BY <2>0, <4>3, <5>2
          <6> QED BY <6>2, <6>3
        <5> QED BY <5>1, <5>2
      <4> QED BY <4>1, <4>2, <4>3
    <3>2. CASE y \notin posted
      <4>1. y = x /\ r.pc = "save" BY <2>0, <2>5, <3>2
      <4>2. r.id = poster[p].id BY <1>6, <4>1 DEF Publishes
      <4> QED BY <1>4, <2>1, <4>1, <4>2
    <3> QED BY <3>1, <3>2
  <2> QED BY <2>0, <2>1, <2>2, <2>3, <2>4, <2>5 DEF PostsInv
<1>14. UNCHANGED <<job, inbox, perf>>
  BY DEF PostToPlatform, SavePost, MarkPublished, jobVars
<1>15. pieces' = pieces => JobsInv' BY <1>14, JobsStay DEF jobVars
<1> HIDE DEF x
<1>7. /\ pieces' = pieces => PiecesLast
      /\ pieces' = pieces => \A i \in PieceIds : pieces'[i].status = "published" =>
             pieces[i].status = "published" \/ (x \in posted /\ x.piece = i)
  BY <1>5 DEF PiecesLast
<1>8. Idle \in PosterType /\ Idle.pc = "idle" BY DEF PosterType, Idle
<1>9. ASSUME NEW c \in {"save", "mark"}
      PROVE  LET r == [poster[p] EXCEPT !.pc = c]
             IN  r \in PosterType /\ r.pc = c /\ r.id = poster[p].id /\ r.piece = poster[p].piece
  BY <1>2 DEF PosterType
<1>10. removed \subseteq Nat BY <1>0 DEF PostsTyped
<1>11. ASSUME PostToPlatform(p) PROVE PostsInv' /\ JobsInv'
  <2>1. pieces' = pieces /\ posts' = posts /\ removed' = removed /\ poster[p].pc = "post"
    BY <1>11 DEF PostToPlatform, jobVars
  <2>2. CASE poster' = [poster EXCEPT ![p].pc = "save"] /\ posted' = posted \cup {x}
    <3> DEFINE r == [poster[p] EXCEPT !.pc = "save"]
    <3>1. r \in PosterType /\ r.pc = "save" /\ Publishes(p, r)
      BY <1>1, <1>9, <2>2 DEF Publishes
    <3> HIDE DEF r
    <3>2. Files(p, r, x) BY <1>0, <1>7, <1>10, <2>1, <2>2, <3>1 DEF Files
    <3> QED BY <1>6, <1>15, <2>1, <3>1, <3>2
  <2>3. CASE poster' = [poster EXCEPT ![p] = Idle] /\ posted' = posted
    <3>1. Publishes(p, Idle) BY <1>1, <1>8, <2>3 DEF Publishes
    <3>2. Files(p, Idle, x) BY <1>0, <1>7, <1>8, <1>10, <2>1, <2>3 DEF Files
    <3> QED BY <1>6, <1>8, <1>15, <2>1, <3>1, <3>2
  <2> QED BY <1>11, <2>2, <2>3 DEF PostToPlatform, Post, x
<1>12. ASSUME SavePost(p) PROVE PostsInv' /\ JobsInv'
  <2> DEFINE r == [poster[p] EXCEPT !.pc = "mark"]
  <2>1. /\ pieces' = pieces /\ posted' = posted /\ poster' = [poster EXCEPT ![p] = r]
        /\ poster[p].pc = "save"
        /\ \/ posts' = posts \cup {x} /\ removed' = removed
           \/ posts' = posts /\ removed' = removed \cup {x.id}
    BY <1>4, <1>12 DEF SavePost, jobVars, Post, x
  <2>2. r \in PosterType /\ r.pc = "mark" /\ Publishes(p, r)
    BY <1>1, <1>9, <2>1 DEF Publishes
  <2> HIDE DEF r
  <2>3. x \in posted BY <1>2, <2>1 DEF PosterFits, Post, x
  <2>4. posts' \subseteq posted' /\ posts \subseteq posts' /\ posts' \subseteq posts \cup {x}
        /\ removed \subseteq removed' /\ removed' \subseteq Nat
        /\ (x \in posts' \/ x.id \in removed')
    BY <1>0, <1>4, <1>10, <2>1, <2>3
  <2>5. Files(p, r, x) BY <1>7, <2>1, <2>2, <2>3, <2>4 DEF Files
  <2> QED BY <1>6, <1>15, <2>1, <2>2, <2>5
<1>13. ASSUME MarkPublished(p) PROVE PostsInv' /\ JobsInv'
  <2>1. /\ posts' = posts /\ posted' = posted /\ removed' = removed
        /\ poster' = [poster EXCEPT ![p] = Idle] /\ poster[p].pc = "mark"
        /\ pieces' \in {pieces, IF poster[p].piece = None THEN pieces
                                ELSE [pieces EXCEPT ![poster[p].piece].status = "published"]}
    BY <1>13 DEF MarkPublished
  <2>2. Publishes(p, Idle) BY <1>1, <1>8, <2>1 DEF Publishes
  <2>3. x \in posted /\ x.piece = poster[p].piece BY <1>2, <1>4, <2>1 DEF PosterFits, Post, x
  <2>4. /\ PiecesLast /\ JobsInv'
        /\ \A i \in PieceIds : pieces'[i].status = "published" =>
              pieces[i].status = "published" \/ (x \in posted /\ x.piece = i)
    <3>1. CASE pieces' = pieces BY <1>7, <1>15, <3>1
    <3>2. CASE poster[p].piece # None
               /\ pieces' = [pieces EXCEPT ![poster[p].piece].status = "published"]
      <4>1. PICK i \in PieceIds : i = poster[p].piece BY <1>2, <3>2
      <4>2. pieces[i] \in PieceType /\ pieces[i] # NoPiece BY <1>2, <1>5, <3>2, <4>1 DEF PosterFits
      <4> DEFINE e == [pieces[i] EXCEPT !.status = "published"]
      <4>3. e \in PieceType /\ e.status = "published" /\ e # NoPiece
        BY <4>2 DEF PieceType, NoPiece
      <4>4. pieces' = [pieces EXCEPT ![i] = e] BY <3>2, <4>1
      <4> HIDE DEF e
      <4>5. /\ pieces' \in [PieceIds -> PieceType] /\ pieces'[i] = e
            /\ \A j \in PieceIds \ {i} : pieces'[j] = pieces[j]
        BY <1>5, <4>3, <4>4
      <4>6. \A j \in PieceIds : pieces[j] # NoPiece <=> pieces'[j] # NoPiece BY <4>2, <4>3, <4>5
      <4>7. \A j \in PieceIds : pieces'[j].status = "published" =>
                pieces[j].status = "published" \/ (x \in posted /\ x.piece = j)
        BY <2>3, <4>1, <4>5
      <4>8. JobsInv'
        <5>1. \A j : PiecesOf(j)' = PiecesOf(j) /\ Ended(j)' = Ended(j)
          BY <1>14 DEF PiecesOf, Ended
        <5>2. ASSUME NEW j \in JobIds PROVE JobFits(j)'
          <6>1. JobFits(j) BY DEF JobsInv
          <6> QED BY <1>14, <4>6, <5>1, <6>1 DEF JobFits
        <5>3. JobsTyped' BY <1>14, <4>5 DEF JobsInv, JobsTyped
        <5>4. \A q \in perf' : pieces'[q] # NoPiece /\ Ended(q[1])'
          BY <1>14, <4>6, <5>1 DEF JobsInv, JobsTyped
        <5>5. \A ids \in inbox' : \A q \in ids : Ended(q[1])' BY <1>14, <5>1 DEF JobsInv
        <5> QED BY <5>2, <5>3, <5>4, <5>5 DEF JobsInv
      <4> QED BY <4>5, <4>6, <4>7, <4>8 DEF PiecesLast
    <3> QED BY <2>1, <3>1, <3>2
  <2>5. Files(p, Idle, x) BY <1>0, <1>8, <1>10, <2>1, <2>3, <2>4 DEF Files
  <2> QED BY <1>6, <1>8, <2>2, <2>4, <2>5
<1> QED BY <1>11, <1>12, <1>13

LEMMA BeginKeeps ==
    ASSUME ContentConstants, UsedTyped, JobsInv, PostsInv, NEW p \in Posters,
           NEW piece \in PieceIds \cup {None}, BeginPublish(p, piece)
    PROVE  PostsInv'
<1> DEFINE n == used.publishes + 1
           r == [pc |-> "post", piece |-> piece, id |-> n]
<1>1. /\ poster[p].pc = "idle" /\ conn # 0 /\ poster' = [poster EXCEPT ![p] = r]
      /\ UNCHANGED <<pieces, conn, posts, posted, leaving, removed>>
      /\ crossed' = IF leaving THEN crossed \cup {n} ELSE crossed
      /\ piece # None => pieces[piece] # NoPiece
  BY NoneIsNoPiece DEF BeginPublish, jobVars, authVars
<1>2. used.publishes \in Nat /\ used'.publishes = n
  BY DEF UsedTyped, BeginPublish, Use, BudgetNames
<1>3. n \in Nat /\ n = used.publishes + 1 BY <1>2
<1>4. r \in PosterType /\ r.pc = "post" /\ r.piece = piece /\ r.id = n
  BY <1>3 DEF PosterType
<1> HIDE DEF r, n
<1>0. PostsTyped BY DEF PostsInv
<1>5. /\ poster' \in [Posters -> PosterType] /\ poster'[p] = r
      /\ \A q \in Posters \ {p} : poster'[q] = poster[q]
  BY <1>0, <1>1, <1>4 DEF PostsTyped
<1>6. PostsTyped' BY <1>0, <1>1, <1>3, <1>5 DEF PostsTyped
<1>7. \A q \in Publishing' : q # p => q \in Publishing /\ poster'[q] = poster[q]
  BY <1>5 DEF Publishing
<1>8. \A q \in Publishing : q # p /\ poster[q].id \in Nat /\ poster[q].id <= used.publishes
  <2>1. \A q \in Publishing : poster[q] \in PosterType /\ poster[q].pc # "idle" /\ q # p
    BY <1>0, <1>1 DEF PostsTyped, Publishing
  <2>2. \A q \in Publishing : poster[q].id \in Nat BY <2>1, PlacesOfPoster
  <2>3. \A q \in Publishing : PosterFits(q) BY DEF PostsInv
  <2>4. \A q \in Publishing : poster[q].id <= used.publishes BY <2>3 DEF PosterFits
  <2> QED BY <2>1, <2>2, <2>4
<1>9. \A x \in posted : x.id \in Nat /\ x.id <= used.publishes
  BY <1>0 DEF PostsInv, PostsTyped, PostType
<1>10. \A k \in Nat : k <= used.publishes => k # n /\ k <= n BY <1>2, <1>3
<1>11. \A q, o \in Publishing' : poster'[q].id = poster'[o].id => q = o
  <2>1. \A q \in Publishing' : q # p => poster'[q].id # n BY <1>7, <1>8, <1>10
  <2>2. poster'[p].id = n BY <1>4, <1>5
  <2>3. \A q, o \in Publishing : poster[q].id = poster[o].id => q = o BY DEF PostsInv
  <2> QED BY <1>7, <2>1, <2>2, <2>3
<1>12. ASSUME NEW q \in Publishing' PROVE PosterFits(q)'
  <2>1. CASE q = p
    <3>1. poster'[q].id <= used'.publishes BY <1>2, <1>3, <1>4, <1>5, <2>1
    <3>2. \A x \in posted' : x.id # poster'[q].id BY <1>1, <1>4, <1>5, <1>9, <1>10, <2>1
    <3>3. leaving' \/ conn' = 0 => poster'[q].id \in crossed' BY <1>1, <1>4, <1>5, <2>1
    <3>4. poster'[q].piece # None => pieces'[poster'[q].piece] # NoPiece
      BY <1>1, <1>4, <1>5, <2>1
    <3>5. poster'[q].pc = "post" BY <1>4, <1>5, <2>1
    <3> QED BY <3>1, <3>2, <3>3, <3>4, <3>5 DEF PosterFits
  <2>2. CASE q # p
    <3>1. q \in Publishing /\ poster'[q] = poster[q] /\ PosterFits(q) BY <1>7, <1>12, <2>2 DEF PostsInv
    <3>2. poster'[q].id <= used'.publishes BY <1>2, <1>8, <1>10, <3>1
    <3>3. crossed \subseteq crossed' BY <1>1
    <3> QED BY <1>1, <3>1, <3>2, <3>3 DEF PosterFits
  <2> QED BY <2>1, <2>2
<1>13. \A x \in posted' : x.id <= used'.publishes BY <1>1, <1>2, <1>9, <1>10
<1>14. leaving' \/ conn' = 0 => \A x \in posts' : x.id \in crossed'
  BY <1>1 DEF PostsInv
<1>15. \A x \in posted' : \/ x \in posts' \/ x.id \in removed'
                          \/ \E q \in Posters : poster'[q].pc = "save" /\ poster'[q].id = x.id
  <2>1. \A q \in Posters : poster[q].pc = "save" => q # p /\ poster'[q] = poster[q] BY <1>1, <1>5
  <2> QED BY <1>1, <2>1 DEF PostsInv
<1> QED BY <1>1, <1>6, <1>11, <1>12, <1>13, <1>14, <1>15 DEF PostsInv

\* The posts of the shop are deleted, all or one, or its connection.
LEMMA DeletionsKeep ==
    ASSUME ContentConstants, PostsInv,
           DeletePosts \/ DeleteConnection \/ \E x \in posts : DeletePost(x)
    PROVE  PostsInv'
<1>1. UNCHANGED <<pieces, poster, posted, used>>
  BY DEF DeletePosts, DeleteConnection, DeletePost, jobVars
<1>2. /\ posts' \subseteq posts /\ removed \subseteq removed' /\ crossed \subseteq crossed'
      /\ removed' \subseteq Nat /\ crossed' \subseteq Nat /\ leaving' \in BOOLEAN
      /\ \A x \in posts : x \in posts' \/ x.id \in removed'
      /\ \/ leaving' \/ conn' = 0 => leaving \/ conn = 0
         \/ /\ (leaving' = TRUE /\ posts' = {}) \/ leaving
            /\ \A q \in Publishing : poster[q].id \in crossed'
  <2>0. PostsTyped BY DEF PostsInv
  <2>1. \A q \in Publishing : poster[q].id \in Nat
    <3>1. \A q \in Publishing : poster[q] \in PosterType /\ poster[q].pc # "idle"
      BY <2>0 DEF PostsTyped, Publishing
    <3> QED BY <3>1, PlacesOfPoster
  <2>2. \A x \in posts : x.id \in Nat BY <2>0 DEF PostsTyped, PostType
  <2>3. removed \subseteq Nat /\ crossed \subseteq Nat /\ leaving \in BOOLEAN BY <2>0 DEF PostsTyped
  <2>4. CASE DeletePosts BY <2>1, <2>2, <2>3, <2>4 DEF DeletePosts, authVars
  <2>5. CASE DeleteConnection BY <2>1, <2>2, <2>3, <2>5 DEF DeleteConnection
  <2>6. ASSUME NEW x \in posts, DeletePost(x)
        PROVE  /\ posts' = posts \ {x} /\ removed' = removed \cup {x.id}
               /\ UNCHANGED <<crossed, leaving, conn>>
    BY <2>6 DEF DeletePost, authVars
  <2> QED BY <2>2, <2>3, <2>4, <2>5, <2>6
<1>3. PostsTyped' BY <1>1, <1>2 DEF PostsInv, PostsTyped
<1>4. Publishing' = Publishing BY <1>1 DEF Publishing
<1>5. leaving' \/ conn' = 0 =>
          /\ \A q \in Publishing : poster[q].id \in crossed'
          /\ \A x \in posts' : x.id \in crossed'
  BY <1>2 DEF PostsInv, PosterFits
<1>6. \A q \in Publishing' : PosterFits(q)'
  BY <1>1, <1>4, <1>5 DEF PostsInv, PosterFits
<1>7. \A x \in posted' : \/ x \in posts' \/ x.id \in removed'
                         \/ \E q \in Posters : poster'[q].pc = "save" /\ poster'[q].id = x.id
  BY <1>1, <1>2 DEF PostsInv
<1> QED BY <1>1, <1>2, <1>3, <1>4, <1>5, <1>6, <1>7 DEF PostsInv

-----------------------------------------------------------------------------
LEMMA ContentNextKeeps ==
    ASSUME ContentConstants, ContentInv, [ContentNext]_contentVars PROVE ContentInv'
<1>0. /\ UsedTyped /\ JobsInv /\ AuthInv /\ PostsInv /\ metrics \subseteq PieceIds
      /\ refused \in Nat /\ JobsTyped
  BY DEF ContentInv, JobsInv
<1>1. pieces' = pieces => PiecesStay
  BY <1>0 DEF PiecesStay, PiecesLast, JobsTyped
<1>2. CASE \/ \E j \in JobIds : Generate(j) \/ WriteProduct(j) \/ PublishGenerated(j)
                                \/ StoreJob(j) \/ JobDies(j)
           \/ \E ids \in inbox : OnContentGenerated(ids)
  <2>1. Uses /\ budget' = budget /\ UNCHANGED <<authVars, postVars, pullVars>>
    BY <1>2 DEF Generate, WriteProduct, PublishGenerated, StoreJob, JobDies,
                OnContentGenerated, Uses, BudgetNames
  <2>2. JobsInv' /\ PiecesStay BY <1>0, <1>2, JobsKeep
  <2>3. UsedTyped' /\ AuthInv' BY <1>0, <2>1, UsedGrows, AuthStays
  <2>4. conn' = conn /\ UNCHANGED <<metrics, refused>> BY <2>1 DEF authVars, pullVars
  <2>5. PostsInv' BY <1>0, <2>1, <2>2, <2>4, PostsStay
  <2> QED BY <1>0, <2>2, <2>3, <2>4, <2>5 DEF ContentInv
<1>3. CASE \/ \E s \in States : \/ AuthURL(s) \/ StateExpires(s)
                                \/ \E c \in Callbacks : ReadState(c, s)
           \/ \E c \in Callbacks : DeleteState(c) \/ StoreConnection(c)
  <2>1. Uses /\ budget' = budget /\ UNCHANGED <<jobVars, postVars, pullVars>>
    BY <1>3 DEF AuthURL, StateExpires, ReadState, DeleteState, StoreConnection, Uses, BudgetNames
  <2>2. UsedTyped' /\ AuthInv' BY <1>0, <1>3, <2>1, UsedGrows, AuthKeeps
  <2>3. JobsInv' /\ PiecesStay BY <1>0, <1>1, <2>1, JobsStay DEF jobVars
  <2>4. conn' = conn \/ conn' # 0
    <3>1. ASSUME NEW c \in Callbacks, StoreConnection(c) PROVE conn' = conn \/ conn' # 0
      <4>1. callback[c].pc = "store" /\ conn' \in {conn, callback[c].state}
        BY <3>1 DEF StoreConnection
      <4>2. callback[c] \in CallbackType BY <1>0 DEF AuthInv, AuthTyped
      <4>3. callback[c].state \in States BY <4>1, <4>2, PlacesOfCallback
      <4> QED BY <4>1, <4>3 DEF ContentConstants
    <3> QED BY <1>3, <3>1 DEF AuthURL, StateExpires, ReadState, DeleteState
  <2>5. PostsInv' BY <1>0, <2>1, <2>3, <2>4, PostsStay
  <2> QED BY <1>0, <2>1, <2>2, <2>3, <2>5 DEF ContentInv, pullVars
<1>4. CASE DeletePosts \/ DeleteConnection \/ \E x \in posts : DeletePost(x)
  <2>1. Uses /\ budget' = budget /\ UNCHANGED <<jobVars, pullVars>>
    BY <1>4 DEF DeletePosts, DeleteConnection, DeletePost, Uses
  <2>2. DeleteConnection \/ UNCHANGED authVars BY <1>4 DEF DeletePosts, DeletePost
  <2>3. UsedTyped' /\ AuthInv' BY <1>0, <2>1, <2>2, UsedGrows, AuthStays, AuthKeeps
  <2>4. JobsInv' BY <1>0, <2>1, JobsStay
  <2>5. PostsInv' BY <1>0, <1>4, DeletionsKeep
  <2> QED BY <1>0, <2>1, <2>3, <2>4, <2>5 DEF ContentInv, pullVars
<1>5. ASSUME NEW p \in Posters, NEW piece \in PieceIds \cup {None}, BeginPublish(p, piece)
      PROVE  ContentInv'
  <2>1. Uses /\ budget' = budget /\ UNCHANGED <<jobVars, authVars, pullVars>>
    BY <1>5 DEF BeginPublish, Uses, BudgetNames
  <2>2. UsedTyped' /\ AuthInv' /\ JobsInv' BY <1>0, <2>1, UsedGrows, AuthStays, JobsStay
  <2>3. PostsInv' BY <1>0, <1>5, BeginKeeps
  <2> QED BY <1>0, <2>1, <2>2, <2>3 DEF ContentInv, pullVars
<1>6. ASSUME NEW p \in Posters, PostToPlatform(p) \/ SavePost(p) \/ MarkPublished(p)
      PROVE  ContentInv'
  <2>1. Uses /\ budget' = budget /\ UNCHANGED <<authVars, pullVars>>
    BY <1>6 DEF PostToPlatform, SavePost, MarkPublished, Uses, BudgetNames
  <2>2. UsedTyped' /\ AuthInv' BY <1>0, <2>1, UsedGrows, AuthStays
  <2>3. PostsInv' /\ JobsInv' BY <1>0, <1>6, <2>1, PublicationsKeep
  <2> QED BY <1>0, <2>1, <2>2, <2>3 DEF ContentInv, pullVars
<1>7. CASE PullMetrics \/ AttributeOrder \/ UNCHANGED contentVars
  <2>1. Uses /\ budget' = budget /\ UNCHANGED <<jobVars, authVars, postVars>>
    BY <1>7 DEF PullMetrics, AttributeOrder, contentVars, Uses, BudgetNames
  <2>2. UsedTyped' /\ AuthInv' /\ JobsInv' BY <1>0, <2>1, UsedGrows, AuthStays, JobsStay
  <2>3. PiecesStay /\ conn' = conn BY <1>1, <2>1 DEF jobVars, authVars
  <2>4. PostsInv' BY <1>0, <2>1, <2>3, PostsStay
  <2>5. metrics' \subseteq PieceIds /\ refused' \in Nat
    BY <1>0, <1>7 DEF PullMetrics, AttributeOrder, contentVars, pullVars, Pulled
  <2> QED BY <2>2, <2>4, <2>5 DEF ContentInv
<1> QED BY <1>2, <1>3, <1>4, <1>5, <1>6, <1>7 DEF ContentNext

\* Completed jobs are whole, performance rows are of ended jobs, a state connects once,
\* posts without a connection were met by a Disconnect, and what is stored of posts and
\* published pieces is what the platform has.
THEOREM ContentIsSound ==
    ASSUME ContentConstants PROVE ContentSpec => [](ContentTypeOK /\ ContentSound)
<1>1. ContentInit => ContentInv BY ContentInitSatisfies
<1>2. ContentInv /\ [ContentNext]_contentVars => ContentInv' BY ContentNextKeeps
<1>3. ContentInv => ContentTypeOK /\ ContentSound
  <2> SUFFICES ASSUME ContentInv PROVE ContentTypeOK /\ ContentSound OBVIOUS
  <2>0. UsedTyped /\ JobsInv /\ AuthInv /\ PostsInv BY DEF ContentInv
  <2>1. ContentTypeOK
    <3>1. DOMAIN budget = BudgetNames BY <2>0 DEF UsedTyped
    <3> QED BY <2>0, <3>1 DEF ContentInv, UsedTyped, JobsInv, JobsTyped, AuthInv, AuthTyped,
                              ContentTypeOK
  <2>2. JobsWhole /\ RowsAfterJobs BY <2>0 DEF JobsWhole, RowsAfterJobs, JobsInv, JobFits, Ended
  <2>3. StateOnce BY <2>0 DEF StateOnce, AuthInv, StateFits
  <2>4. NoOrphans /\ PostsTrue
    <3>1. \A p \in Posters : poster[p].pc = "save" => p \in Publishing BY DEF Publishing
    <3> QED BY <2>0, <3>1 DEF NoOrphans, PostsTrue, PostsInv
  <2> QED BY <2>1, <2>2, <2>3, <2>4 DEF ContentSound
<1> QED BY <1>1, <1>2, <1>3, PTL DEF ContentSpec

(***************************************************************************)
(* The knowledge base: chunks on their way into a shop's collection, and   *)
(* requests that share one fetcher.                                        *)
(***************************************************************************)
ChunkType == [no: Nat, shop: RagShops, source: Indexers, topic: Topics]
IndexType == [pc: {"idle", "embed", "look", "create", "upsert"}, chunk: ChunkType \cup {NoChunk}]
SearchType == [pc: {"idle", "set", "fetch", "search", "done"}, kind: ReaderKinds \cup {""},
               shop: RagShops \cup {""}, asked: Topics \cup {""}, filter: SUBSET All,
               used: Topics \cup {""}, by: SUBSET All, hits: SUBSET ChunkType, apart: BOOLEAN]

CountsTyped == /\ ragBudget \in [chunks: Nat, searches: Nat] /\ chunks \in 0..ragBudget.chunks
               /\ ragFailures \in 0..MaxRagFailures /\ embeddings \subseteq Topics

\* A consumer is idle and has no chunk, or has one of its own source.
IndexFits(c) == /\ index[c].pc = "idle" => index[c].chunk = NoChunk
                /\ index[c].pc # "idle" => index[c].chunk \in ChunkType /\ index[c].chunk.source = c
\* A collection has chunks of its shop only.
PointsOwn == \A s \in RagShops : \A p \in points[CollectionName(s)] : p \in ChunkType /\ p.shop = s
\* Chunk n is stored, known to be lost or with a consumer.
Here(n) == \/ \E s \in RagShops : \E p \in points[CollectionName(s)] : p.no = n
           \/ \E p \in lostChunks : p.no = n
           \/ \E c \in Indexers : index[c].chunk.no = n
\* What is lost without a failure found the collection there, and so will whatever
\* the same consumer brings for the same shop.
LostInv == /\ lostChunks \subseteq ChunkType
           /\ ragFailures = 0 => \A p \in lostChunks :
                  /\ HasCollection(p.shop)
                  /\ index[p.source].pc = "create" => index[p.source].chunk.shop # p.shop
                  /\ \A q \in lostChunks : p.shop = q.shop /\ p.source = q.source => p = q
IndexInv == /\ index \in [Indexers -> IndexType] /\ \A c \in Indexers : IndexFits(c)
            /\ points \in [{CollectionName(s) : s \in RagShops} -> SUBSET ChunkType] /\ PointsOwn
            /\ \A n \in 1..chunks : Here(n)
            /\ LostInv /\ created \subseteq RagShops /\ CreatedExist

\* What a request has, and what the shared fields are to one that is alone.
SearchFits(r) ==
    /\ search[r].pc # "idle" => search[r].shop \in RagShops
    /\ search[r].pc \in {"idle", "set", "fetch"} => search[r].used = ""
    /\ \A h \in search[r].hits : h.shop = search[r].shop
    /\ search[r].apart /\ search[r].pc \in {"set", "fetch"} /\ search[r].kind # "admin"
          => sources = search[r].filter
    /\ search[r].apart /\ search[r].pc = "fetch" /\ search[r].asked # "" => query = search[r].asked
    /\ search[r].apart /\ search[r].used # "" =>
          /\ search[r].asked # "" => search[r].used = search[r].asked
          /\ search[r].kind # "admin" => search[r].by = search[r].filter
Alone == \A r \in Underway : search[r].apart => \A q \in Underway : q = r
SearchInv == /\ search \in [Readers -> SearchType] /\ \A r \in Readers : SearchFits(r) /\ Alone
             /\ query \in Topics \cup {""} /\ sources \subseteq All

RagInv == CountsTyped /\ IndexInv /\ SearchInv

LEMMA RagInitSatisfies == ASSUME RagConstants, RagInit PROVE RagInv
<1>1. CountsTyped
  <2>1. ragBudget \in [chunks: Nat, searches: Nat] /\ ragBudget.chunks \in Nat
    BY DEF RagInit, RagConstants
  <2>2. 0 \in 0..ragBudget.chunks /\ 0 \in 0..MaxRagFailures BY <2>1 DEF RagConstants
  <2> QED BY <2>1, <2>2 DEF RagInit, CountsTyped
<1>2. IndexInv
  <2>1. IdleIndex \in IndexType /\ IdleIndex.pc = "idle" /\ IdleIndex.chunk = NoChunk
    BY DEF IdleIndex, IndexType
  <2>2. \A s \in RagShops : points[CollectionName(s)] = {} BY DEF RagInit
  <2>3. chunks = 0 BY DEF RagInit
  <2>4. \A n \in 1..chunks : Here(n) BY <2>3
  <2> QED BY <2>1, <2>2, <2>4 DEF RagInit, IndexInv, IndexFits, PointsOwn, LostInv, CreatedExist
<1>3. SearchInv
  <2>1. IdleSearch \in SearchType /\ IdleSearch.pc = "idle" /\ IdleSearch.used = ""
        /\ IdleSearch.hits = {}
    BY DEF IdleSearch, SearchType
  <2>2. \A r \in Readers : search[r] = IdleSearch BY DEF RagInit
  <2>3. \A r \in Readers : SearchFits(r) BY <2>1, <2>2 DEF SearchFits
  <2>4. Underway = {} BY <2>1, <2>2 DEF Underway
  <2> QED BY <2>1, <2>3, <2>4 DEF RagInit, SearchInv, Alone
<1> QED BY <1>1, <1>2, <1>3 DEF RagInv

(***************************************************************************)
(* Indexing                                                                *)
(***************************************************************************)
\* The consumer c goes on and has y; the others stay.
IndexMoves(c, y) == /\ index' \in [Indexers -> IndexType] /\ index'[c] = y
                    /\ \A d \in Indexers \ {c} : index'[d] = index[d]

LEMMA MovesOfIndex ==
    ASSUME index \in [Indexers -> IndexType], NEW c \in Indexers, NEW y \in IndexType,
           index' = [index EXCEPT ![c] = y]
    PROVE  IndexMoves(c, y)
BY DEF IndexMoves

\* Nothing that is here goes without being stored or counted as lost.
LEMMA ChunksStay ==
    ASSUME NEW n \in Nat \ {0}, Here(n), lostChunks \subseteq lostChunks',
           \A s \in RagShops : points[CollectionName(s)] \subseteq points'[CollectionName(s)],
           \A c \in Indexers :
               \/ index'[c].chunk = index[c].chunk \/ index[c].chunk = NoChunk
               \/ index[c].chunk \in lostChunks'
               \/ \E s \in RagShops : index[c].chunk \in points'[CollectionName(s)]
    PROVE  Here(n)'
<1>1. NoChunk.no = 0 BY DEF NoChunk
<1>2. \A s : CollectionName(s)' = CollectionName(s) BY DEF CollectionName
<1>3. CASE \E s \in RagShops : \E p \in points[CollectionName(s)] : p.no = n
  BY <1>2, <1>3 DEF Here
<1>4. CASE \E p \in lostChunks : p.no = n BY <1>4 DEF Here
<1>5. CASE \E c \in Indexers : index[c].chunk.no = n
  BY <1>1, <1>2, <1>5 DEF Here
<1> QED BY <1>3, <1>4, <1>5 DEF Here

\* A chunk is dropped, or a consumer goes on with the one it has.
LEMMA ChunkGoesOn ==
    ASSUME IndexInv, chunks \in Nat, NEW c \in Indexers, NEW y \in IndexType,
           IndexMoves(c, y), index[c].pc # "idle", UNCHANGED <<points, chunks>>,
           collections \subseteq collections', CreatedExist', created' \subseteq RagShops,
           \/ /\ y.chunk = index[c].chunk /\ y.pc # "idle" /\ lostChunks' = lostChunks
              /\ y.pc = "create" => ~HasCollection(y.chunk.shop)
           \/ /\ y = IdleIndex /\ lostChunks' = lostChunks \cup {index[c].chunk}
              /\ ragFailures' # 0 \/ (index[c].pc = "create" /\ HasCollection(index[c].chunk.shop)),
           ragFailures' # 0 \/ ragFailures' = ragFailures
    PROVE  IndexInv'
<1>0. index[c].chunk \in ChunkType /\ index[c].chunk.source = c BY DEF IndexInv, IndexFits
<1>1. IdleIndex.pc = "idle" /\ IdleIndex.chunk = NoChunk BY DEF IdleIndex
<1>2. index' \in [Indexers -> IndexType] /\ index'[c] = y
      /\ \A d \in Indexers \ {c} : index'[d] = index[d]
  BY DEF IndexMoves
<1>3. \A d \in Indexers : IndexFits(d)' BY <1>0, <1>1, <1>2 DEF IndexInv, IndexFits
<1>4. \A n \in 1..chunks : Here(n)'
  <2> SUFFICES ASSUME NEW n \in 1..chunks PROVE Here(n)' OBVIOUS
  <2>1. Here(n) /\ n \in Nat \ {0} BY DEF IndexInv
  <2>2. \A d \in Indexers : index'[d].chunk = index[d].chunk \/ index[d].chunk \in lostChunks'
    BY <1>2
  <2> QED BY <2>1, <2>2, ChunksStay
<1>5. lostChunks' \subseteq ChunkType BY <1>0 DEF IndexInv, LostInv
<1>6. ASSUME ragFailures' = 0, NEW p \in lostChunks'
      PROVE  /\ HasCollection(p.shop)'
             /\ index'[p.source].pc = "create" => index'[p.source].chunk.shop # p.shop
             /\ \A q \in lostChunks' : p.shop = q.shop /\ p.source = q.source => p = q
  <2>1. ragFailures = 0 BY <1>6
  <2>2. p.source \in Indexers BY <1>5, <1>6 DEF ChunkType
  <2>3. \A s : HasCollection(s) => HasCollection(s)' BY DEF HasCollection, CollectionName
  <2>4. \A q \in lostChunks :
            /\ HasCollection(q.shop)
            /\ index[q.source].pc = "create" => index[q.source].chunk.shop # q.shop
            /\ \A o \in lostChunks : o.shop = q.shop /\ o.source = q.source => o = q
    BY <2>1 DEF IndexInv, LostInv
  <2>5. CASE lostChunks' = lostChunks /\ (y.pc = "create" => ~HasCollection(y.chunk.shop))
    BY <1>2, <2>2, <2>3, <2>4, <2>5, <1>6
  <2>6. CASE /\ y = IdleIndex /\ lostChunks' = lostChunks \cup {index[c].chunk}
             /\ index[c].pc = "create" /\ HasCollection(index[c].chunk.shop)
    <3>1. \A q \in lostChunks : q.source = c => q.shop # index[c].chunk.shop BY <2>4, <2>6
    <3>2. index'[c].pc = "idle" BY <1>1, <1>2, <2>6
    <3>3. HasCollection(p.shop)' BY <1>6, <2>3, <2>4, <2>6
    <3>4. index'[p.source].pc = "create" => index'[p.source].chunk.shop # p.shop
      BY <1>0, <1>2, <1>6, <2>2, <2>4, <2>6, <3>2
    <3>5. \A q \in lostChunks' : p.shop = q.shop /\ p.source = q.source => p = q
      BY <1>0, <1>6, <2>4, <2>6, <3>1
    <3> QED BY <3>3, <3>4, <3>5
  <2> QED BY <1>6, <2>5, <2>6
<1>7. LostInv' BY <1>5, <1>6 DEF LostInv
<1>8. PointsOwn' BY DEF IndexInv, PointsOwn, CollectionName
<1> QED BY <1>2, <1>3, <1>4, <1>7, <1>8 DEF IndexInv, CollectionName

LEMMA CountsAreNat == ASSUME CountsTyped
                      PROVE  chunks \in Nat /\ ragFailures \in Nat /\ ragBudget.chunks \in Nat
BY DEF CountsTyped

\* What the four steps of a consumer that has a chunk do.
LEMMA ConsumerKeeps ==
    ASSUME RagConstants, CountsTyped, IndexInv, NEW c \in Indexers,
           Embed(c) \/ LookForCollection(c) \/ CreateCollection(c) \/ UpsertBatch(c)
    PROVE  CountsTyped' /\ IndexInv'
<1> DEFINE e == index[c]
           y(pc) == [e EXCEPT !.pc = pc]
<1>1. /\ e \in IndexType /\ e.pc # "idle" /\ e.chunk \in ChunkType /\ e.chunk.source = c
      /\ e.chunk.shop \in RagShops
  BY DEF IndexInv, IndexFits, Embed, LookForCollection, CreateCollection, UpsertBatch, ChunkType
<1>2. \A pc \in {"look", "create", "upsert"} : y(pc) \in IndexType /\ y(pc).pc = pc
                                               /\ y(pc).chunk = e.chunk
  BY <1>1 DEF IndexType
<1>3. IdleIndex \in IndexType BY DEF IdleIndex, IndexType
<1>4. \A s \in IndexType : index' = [index EXCEPT ![c] = s] => IndexMoves(c, s)
  BY MovesOfIndex DEF IndexInv
<1>5. CountsTyped' /\ (ragFailures' # 0 \/ ragFailures' = ragFailures)
      /\ (RagFail => ragFailures' # 0) /\ UNCHANGED chunks
  <2>1. RagFail => ragFailures' \in 0..MaxRagFailures /\ ragFailures' # 0
    BY DEF RagFail, CountsTyped, RagConstants
  <2> QED BY <2>1 DEF CountsTyped, Embed, LookForCollection, CreateCollection, UpsertBatch, searchVars
<1>0. chunks \in Nat BY CountsAreNat
<1>6. CASE Embed(c)
  <2>1. UNCHANGED <<points, collections, created>> /\ CreatedExist' /\ created' \subseteq RagShops
    BY <1>6 DEF Embed, IndexInv, CreatedExist, CollectionName
  <2>2. CASE index' = [index EXCEPT ![c] = y("look")] /\ lostChunks' = lostChunks
    <3>1. IndexMoves(c, y("look")) BY <1>2, <1>4, <2>2
    <3> QED BY <1>0, <1>1, <1>2, <1>5, <2>1, <2>2, <3>1, ChunkGoesOn
  <2>3. CASE index' = [index EXCEPT ![c] = y("upsert")] /\ lostChunks' = lostChunks
    <3>1. IndexMoves(c, y("upsert")) BY <1>2, <1>4, <2>3
    <3> QED BY <1>0, <1>1, <1>2, <1>5, <2>1, <2>3, <3>1, ChunkGoesOn
  <2>4. CASE RagFail /\ DropChunk(c)
    <3>1. IndexMoves(c, IdleIndex) BY <1>3, <1>4, <2>4 DEF DropChunk
    <3>2. lostChunks' = lostChunks \cup {index[c].chunk} /\ ragFailures' # 0
      BY <1>5, <2>4 DEF DropChunk
    <3> QED BY <1>0, <1>1, <1>3, <1>5, <2>1, <3>1, <3>2, ChunkGoesOn
  <2> QED BY <1>6, <2>2, <2>3, <2>4 DEF Embed
<1>7. CASE LookForCollection(c)
  <2>1. UNCHANGED <<points, collections>> /\ CreatedExist' /\ created' \subseteq RagShops
    BY <1>1, <1>7 DEF LookForCollection, IndexInv, CreatedExist, HasCollection, CollectionName
  <2>2. CASE /\ index' = [index EXCEPT ![c] = y("upsert")] /\ lostChunks' = lostChunks
    <3>1. IndexMoves(c, y("upsert")) BY <1>2, <1>4, <2>2
    <3> QED BY <1>0, <1>1, <1>2, <1>5, <2>1, <2>2, <3>1, ChunkGoesOn
  <2>3. CASE /\ index' = [index EXCEPT ![c] = y("create")] /\ lostChunks' = lostChunks
             /\ ~HasCollection(e.chunk.shop)
    <3>1. IndexMoves(c, y("create")) BY <1>2, <1>4, <2>3
    <3> QED BY <1>0, <1>1, <1>2, <1>5, <2>1, <2>3, <3>1, ChunkGoesOn
  <2>4. CASE RagFail /\ DropChunk(c)
    <3>1. IndexMoves(c, IdleIndex) BY <1>3, <1>4, <2>4 DEF DropChunk
    <3>2. lostChunks' = lostChunks \cup {index[c].chunk} /\ ragFailures' # 0
      BY <1>5, <2>4 DEF DropChunk
    <3> QED BY <1>0, <1>1, <1>3, <1>5, <2>1, <3>1, <3>2, ChunkGoesOn
  <2> QED BY <1>7, <2>2, <2>3, <2>4 DEF LookForCollection
<1>8. CASE CreateCollection(c)
  <2>1. /\ points' = points /\ collections \subseteq collections' /\ CreatedExist'
        /\ created' \subseteq RagShops
    BY <1>1, <1>8 DEF CreateCollection, IndexInv, CreatedExist, HasCollection, CollectionName
  <2>2. CASE /\ index' = [index EXCEPT ![c] = y("upsert")] /\ lostChunks' = lostChunks
    <3>1. IndexMoves(c, y("upsert")) BY <1>2, <1>4, <2>2
    <3> QED BY <1>0, <1>1, <1>2, <1>5, <2>1, <2>2, <3>1, ChunkGoesOn
  <2>3. CASE DropChunk(c) /\ (RagFail \/ HasCollection(e.chunk.shop))
    <3>1. IndexMoves(c, IdleIndex) BY <1>3, <1>4, <2>3 DEF DropChunk
    <3>2. index[c].pc = "create" BY <1>8 DEF CreateCollection
    <3>3. lostChunks' = lostChunks \cup {index[c].chunk} BY <2>3 DEF DropChunk
    <3>4. ragFailures' # 0 \/ (index[c].pc = "create" /\ HasCollection(index[c].chunk.shop))
      BY <1>5, <2>3, <3>2
    <3> QED BY <1>0, <1>1, <1>3, <1>5, <2>1, <3>1, <3>3, <3>4, ChunkGoesOn
  <2> QED BY <1>8, <2>2, <2>3 DEF CreateCollection
<1>9. CASE UpsertBatch(c)
  <2>1. UNCHANGED <<collections, created>> /\ CreatedExist' /\ created' \subseteq RagShops
    BY <1>9 DEF UpsertBatch, IndexInv, CreatedExist, CollectionName
  <2>2. CASE RagFail /\ DropChunk(c) /\ UNCHANGED points
    <3>1. IndexMoves(c, IdleIndex) BY <1>3, <1>4, <2>2 DEF DropChunk
    <3>2. lostChunks' = lostChunks \cup {index[c].chunk} /\ ragFailures' # 0
      BY <1>5, <2>2 DEF DropChunk
    <3> QED BY <1>0, <1>1, <1>3, <1>5, <2>1, <2>2, <3>1, <3>2, ChunkGoesOn
  <2>3. CASE /\ points' = [points EXCEPT ![CollectionName(e.chunk.shop)] = @ \cup {e.chunk}]
             /\ index' = [index EXCEPT ![c] = IdleIndex] /\ UNCHANGED <<ragFailures, lostChunks>>
    <3> DEFINE k == CollectionName(e.chunk.shop)
    <3>1. /\ index' \in [Indexers -> IndexType] /\ index'[c] = IdleIndex
          /\ \A d \in Indexers \ {c} : index'[d] = index[d]
      BY <1>3, <1>4, <2>3 DEF IndexMoves
    <3>2. /\ points' \in [{CollectionName(s) : s \in RagShops} -> SUBSET ChunkType]
          /\ points'[k] = points[k] \cup {e.chunk}
          /\ \A s \in RagShops : s # e.chunk.shop => points'[CollectionName(s)] = points[CollectionName(s)]
      <4>1. points \in [{CollectionName(s) : s \in RagShops} -> SUBSET ChunkType] BY DEF IndexInv
      <4>2. k \in {CollectionName(s) : s \in RagShops} BY <1>1
      <4>3. \A s \in RagShops : s # e.chunk.shop => CollectionName(s) # k BY DEF CollectionName
      <4> QED BY <1>1, <2>3, <4>1, <4>2, <4>3
    <3>3. PointsOwn' 
      <4>1. \A s : CollectionName(s)' = CollectionName(s) BY DEF CollectionName
      <4>2. PointsOwn BY DEF IndexInv
      <4> QED BY <1>1, <3>2, <4>1, <4>2 DEF PointsOwn
    <3>4. \A d \in Indexers : IndexFits(d)'
      BY <3>1 DEF IndexInv, IndexFits, IdleIndex
    <3>5. \A n \in 1..chunks : Here(n)'
      <4> SUFFICES ASSUME NEW n \in 1..chunks PROVE Here(n)' OBVIOUS
      <4>1. Here(n) /\ n \in Nat \ {0} BY <1>0 DEF IndexInv
      <4>2. \A s \in RagShops : points[CollectionName(s)] \subseteq points'[CollectionName(s)]
        BY <3>2
      <4>3. \A d \in Indexers : \/ index'[d].chunk = index[d].chunk
                                \/ \E s \in RagShops : index[d].chunk \in points'[CollectionName(s)]
        BY <1>1, <3>1, <3>2
      <4> QED BY <2>3, <4>1, <4>2, <4>3, ChunksStay
    <3>6. LostInv'
      <4>1. \A s : HasCollection(s)' = HasCollection(s) BY <2>1 DEF HasCollection, CollectionName
      <4>2. \A d \in Indexers : index'[d].pc = "create" => index'[d] = index[d]
        BY <3>1 DEF IdleIndex
      <4>3. LostInv BY DEF IndexInv
      <4>4. \A p \in lostChunks : p.source \in Indexers BY <4>3 DEF LostInv, ChunkType
      <4> QED BY <2>3, <4>1, <4>2, <4>3, <4>4 DEF LostInv
    <3> QED BY <1>5, <2>1, <3>1, <3>2, <3>3, <3>4, <3>5, <3>6 DEF IndexInv, CollectionName
  <2> QED BY <1>5, <1>9, <2>2, <2>3 DEF UpsertBatch
<1> QED BY <1>6, <1>7, <1>8, <1>9

LEMMA EventKeeps ==
    ASSUME RagConstants, CountsTyped, IndexInv, NEW c \in Indexers, NEW s \in RagShops,
           NEW t \in Topics, IndexEvent(c, s, t)
    PROVE  CountsTyped' /\ IndexInv'
<1> DEFINE k == MakeChunk(c, s, t)
           y == [chunk |-> k, pc |-> "embed"]
<1>0. chunks \in Nat /\ chunks < ragBudget.chunks /\ ragBudget.chunks \in Nat
  BY CountsAreNat DEF IndexEvent
<1>1. UNCHANGED <<points, collections, created, ragFailures, lostChunks, ragBudget, embeddings>>
  BY DEF IndexEvent, searchVars
<1>2. CountsTyped' BY <1>0, <1>1 DEF CountsTyped, IndexEvent
<1>3. \A p \in RagShops : HasCollection(p)' = HasCollection(p)
  BY <1>1 DEF HasCollection, CollectionName
<1>4. CASE UNCHANGED <<index, chunks>>
  <2>1. \A n : Here(n)' = Here(n) BY <1>1, <1>4 DEF Here, CollectionName
  <2>2. \A d \in Indexers : IndexFits(d)' BY <1>4 DEF IndexInv, IndexFits
  <2>3. LostInv'
    <3>1. LostInv BY DEF IndexInv
    <3>2. \A p \in lostChunks : p.shop \in RagShops BY <3>1 DEF LostInv, ChunkType
    <3> QED BY <1>1, <1>3, <1>4, <3>1, <3>2 DEF LostInv
  <2> QED BY <1>1, <1>2, <1>4, <2>1, <2>2, <2>3
          DEF IndexInv, PointsOwn, CreatedExist, CollectionName
<1>5. CASE index' = [index EXCEPT ![c] = y] /\ chunks' = chunks + 1
  <2>1. k \in ChunkType /\ k.source = c /\ k.no = chunks + 1 BY <1>0 DEF MakeChunk, ChunkType
  <2>2. y \in IndexType /\ y.pc = "embed" /\ y.chunk = k BY <2>1 DEF IndexType
  <2>3. /\ index' \in [Indexers -> IndexType] /\ index'[c] = y
        /\ \A d \in Indexers \ {c} : index'[d] = index[d]
    BY <1>5, <2>2, MovesOfIndex DEF IndexInv, IndexMoves
  <2>4. \A d \in Indexers : IndexFits(d)' BY <2>1, <2>2, <2>3 DEF IndexInv, IndexFits
  <2>5. index[c].chunk = NoChunk BY DEF IndexInv, IndexFits, IndexEvent
  <2>6. \A n \in 1..chunks' : Here(n)'
    <3> SUFFICES ASSUME NEW n \in 1..chunks' PROVE Here(n)' OBVIOUS
    <3>1. CASE n = chunks + 1 BY <2>1, <2>2, <2>3, <3>1 DEF Here
    <3>2. CASE n \in 1..chunks
      <4>1. Here(n) /\ n \in Nat \ {0} BY <1>0, <3>2 DEF IndexInv
      <4> QED BY <1>1, <2>3, <2>5, <4>1, ChunksStay
    <3> QED BY <1>0, <1>5, <3>1, <3>2
  <2>7. LostInv'
    <3>1. LostInv BY DEF IndexInv
    <3>2. \A p \in lostChunks : p.source \in Indexers /\ p.shop \in RagShops
      BY <3>1 DEF LostInv, ChunkType
    <3>3. \A d \in Indexers : index'[d].pc = "create" => index'[d] = index[d] BY <2>2, <2>3
    <3> QED BY <1>1, <1>3, <3>1, <3>2, <3>3 DEF LostInv
  <2> QED BY <1>1, <1>2, <2>3, <2>4, <2>6, <2>7
          DEF IndexInv, PointsOwn, CreatedExist, CollectionName
<1> QED BY <1>4, <1>5 DEF IndexEvent

LEMMA RestartKeepsChunks ==
    ASSUME RagConstants, CountsTyped, IndexInv, Restart
    PROVE  CountsTyped' /\ IndexInv'
<1>1. /\ UNCHANGED <<points, collections, embeddings, ragBudget, chunks>> /\ created' = {}
      /\ lostChunks' = lostChunks \cup {index[c].chunk : c \in {d \in Indexers : index[d].pc # "idle"}}
      /\ index' = [c \in Indexers |-> IdleIndex]
  BY DEF Restart
<1>2. CountsTyped' /\ ragFailures' # 0
  <2>1. RagFail BY DEF Restart
  <2>2. ragFailures' \in 0..MaxRagFailures /\ ragFailures' # 0
    BY <2>1 DEF RagFail, CountsTyped, RagConstants
  <2> QED BY <1>1, <2>2 DEF CountsTyped
<1>3. IdleIndex \in IndexType /\ IdleIndex.pc = "idle" /\ IdleIndex.chunk = NoChunk
  BY DEF IdleIndex, IndexType
<1>4. \A d \in Indexers : IndexFits(d)' BY <1>1, <1>3 DEF IndexFits
<1>5. \A d \in Indexers : \/ index[d].chunk = NoChunk
                          \/ index[d].chunk \in lostChunks'
  BY <1>1 DEF IndexInv, IndexFits
<1>6. \A n \in 1..chunks : Here(n)'
  <2> SUFFICES ASSUME NEW n \in 1..chunks PROVE Here(n)' OBVIOUS
  <2>1. Here(n) /\ n \in Nat \ {0} BY CountsAreNat DEF IndexInv
  <2> QED BY <1>1, <1>5, <2>1, ChunksStay
<1>7. LostInv' BY <1>1, <1>2 DEF LostInv, IndexInv, IndexFits
<1> QED BY <1>1, <1>2, <1>3, <1>4, <1>6, <1>7 DEF IndexInv, PointsOwn, CreatedExist, CollectionName

\* Searches make collections and fail, and leave the chunks.
LEMMA SearchesLeaveChunks ==
    ASSUME IndexInv, UNCHANGED <<points, indexVars>>, collections \subseteq collections',
           ragFailures' = 0 => ragFailures = 0
    PROVE  IndexInv'
<1>0. UNCHANGED <<points, index, created, chunks, lostChunks>> BY DEF indexVars
<1>1. \A s : HasCollection(s) => HasCollection(s)' BY DEF HasCollection, CollectionName
<1>2. \A n : Here(n)' = Here(n) BY <1>0 DEF Here, CollectionName
<1>3. \A d \in Indexers : IndexFits(d)' BY <1>0 DEF IndexInv, IndexFits
<1>4. LostInv' BY <1>0, <1>1 DEF IndexInv, LostInv
<1>5. CreatedExist' BY <1>0 DEF IndexInv, CreatedExist, CollectionName
<1> QED BY <1>0, <1>2, <1>3, <1>4, <1>5 DEF IndexInv, PointsOwn, CollectionName

(***************************************************************************)
(* Searching                                                               *)
(***************************************************************************)
LEMMA SearchStays == ASSUME SearchInv, UNCHANGED <<search, query, sources>> PROVE SearchInv'
BY DEF SearchInv, SearchFits, Alone, Underway

\* The request r goes on and has y; the others stay.
SearchMoves(r, y) == /\ search' \in [Readers -> SearchType] /\ search'[r] = y
                     /\ \A q \in Readers \ {r} : search'[q] = search[q]

\* A request goes on with what is in the shared fields; it changes the query only as
\* it has set it.
LEMMA RequestGoesOn ==
    ASSUME SearchInv, NEW r \in Readers, NEW y \in SearchType, SearchMoves(r, y), SearchFits(r)',
           y.pc \in {"idle", "done"} \/ (y.apart = search[r].apart /\ r \in Underway),
           query' = query \/ r \in Underway, sources' = sources,
           query' \in Topics \cup {""}
    PROVE  SearchInv'
<1>1. /\ search' \in [Readers -> SearchType] /\ search'[r] = y
      /\ \A q \in Readers \ {r} : search'[q] = search[q]
  BY DEF SearchMoves
<1>2. Underway' \subseteq Underway BY <1>1 DEF Underway
<1>3. Alone'
  <2>1. \A q \in Underway' : search'[q].apart = search[q].apart
    BY <1>1 DEF Underway
  <2>2. Alone BY DEF SearchInv
  <2> QED BY <1>2, <2>1, <2>2 DEF Alone
<1>4. ASSUME NEW q \in Readers \ {r} PROVE SearchFits(q)'
  <2>1. SearchFits(q) /\ search'[q] = search[q] BY <1>1 DEF SearchInv
  <2>2. search[q].pc = "fetch" /\ search[q].apart => query' = query
    <3>1. search[q].pc = "fetch" => q \in Underway BY DEF Underway
    <3> QED BY <1>4, <3>1 DEF SearchInv, Alone
  <2> QED BY <2>1, <2>2 DEF SearchFits
<1> QED BY <1>1, <1>3, <1>4 DEF SearchInv

LEMMA RequestKeeps ==
    ASSUME RagConstants, RagInv, NEW r \in Readers,
           \/ \E q \in Topics \cup {""} : SetQuery(r, q)
           \/ Fetch(r) \/ SearchWithText(r) \/ Answer(r)
    PROVE  SearchInv'
<1> DEFINE x == search[r]
<1>0. /\ x \in SearchType /\ SearchFits(r) /\ search \in [Readers -> SearchType]
      /\ query \in Topics \cup {""} /\ sources \subseteq All /\ SearchInv
  BY DEF RagInv, SearchInv
<1>1. \A y \in SearchType : search' = [search EXCEPT ![r] = y] => SearchMoves(r, y)
  BY <1>0 DEF SearchMoves
<1>2. x.pc \in {"set", "fetch", "search"} => r \in Underway BY DEF Underway
<1>3. ASSUME NEW q \in Topics \cup {""}, SetQuery(r, q) PROVE SearchInv'
  <2> DEFINE y == [x EXCEPT !.pc = "fetch", !.asked = q]
  <2>1. /\ x.pc = "set" /\ search' = [search EXCEPT ![r] = y] /\ sources' = sources
        /\ query' = IF q # "" THEN q ELSE query
    BY <1>3 DEF SetQuery
  <2>2. /\ y \in SearchType /\ y.pc = "fetch" /\ y.asked = q /\ y.apart = x.apart
        /\ y.used = x.used /\ y.hits = x.hits /\ y.shop = x.shop /\ y.kind = x.kind
        /\ y.filter = x.filter
    BY <1>0 DEF SearchType
  <2> HIDE DEF y
  <2>3. SearchMoves(r, y) BY <1>1, <2>1, <2>2
  <2>4. SearchFits(r)' BY <1>0, <2>1, <2>2, <2>3 DEF SearchFits, SearchMoves
  <2> QED BY <1>0, <1>2, <2>1, <2>2, <2>3, <2>4, RequestGoesOn
<1>4. CASE Fetch(r)
  <2>1. x.pc = "fetch" /\ UNCHANGED <<query, sources>> BY <1>4 DEF Fetch
  <2>2. CASE query # "" /\ search' = [search EXCEPT ![r].pc = "search", ![r].used = query,
                                                    ![r].by = sources]
    <3> DEFINE y == [x EXCEPT !.pc = "search", !.used = query, !.by = sources]
    <3>1. search' = [search EXCEPT ![r] = y] BY <2>2
    <3>2. /\ y \in SearchType /\ y.pc = "search" /\ y.used = query /\ y.by = sources
          /\ y.apart = x.apart /\ y.asked = x.asked /\ y.hits = x.hits /\ y.shop = x.shop
          /\ y.kind = x.kind /\ y.filter = x.filter
      BY <1>0 DEF SearchType
    <3> HIDE DEF y
    <3>3. SearchMoves(r, y) BY <1>1, <3>1, <3>2
    <3>4. SearchFits(r)' BY <1>0, <2>1, <3>2, <3>3 DEF SearchFits, SearchMoves
    <3> QED BY <1>0, <1>2, <2>1, <3>2, <3>3, <3>4, RequestGoesOn
  <2>3. CASE search' = [search EXCEPT ![r].pc = "done"]
    <3> DEFINE y == [x EXCEPT !.pc = "done"]
    <3>1. search' = [search EXCEPT ![r] = y] BY <2>3
    <3>2. /\ y \in SearchType /\ y.pc = "done" /\ y.used = x.used /\ y.hits = x.hits
          /\ y.shop = x.shop
      BY <1>0 DEF SearchType
    <3> HIDE DEF y
    <3>3. SearchMoves(r, y) BY <1>1, <3>1, <3>2
    <3>4. SearchFits(r)' BY <1>0, <2>1, <3>2, <3>3 DEF SearchFits, SearchMoves
    <3> QED BY <1>0, <2>1, <3>2, <3>3, <3>4, RequestGoesOn
  <2> QED BY <1>4, <2>2, <2>3 DEF Fetch
<1>5. CASE SearchWithText(r)
  <2>1. x.pc = "search" /\ UNCHANGED <<query, sources>> BY <1>5 DEF SearchWithText
  <2>2. x.shop \in RagShops BY <1>0, <2>1 DEF SearchFits
  <2>3. ASSUME NEW h \in FilteredHits(r), search' = [search EXCEPT ![r].pc = "done", ![r].hits = h]
        PROVE  SearchInv'
    <3> DEFINE y == [x EXCEPT !.pc = "done", !.hits = h]
    <3>1. search' = [search EXCEPT ![r] = y] BY <2>3
    <3>2. h \subseteq points[CollectionName(x.shop)] BY DEF FilteredHits
    <3>3. \A p \in h : p \in ChunkType /\ p.shop = x.shop
      BY <2>2, <3>2 DEF RagInv, IndexInv, PointsOwn
    <3>4. /\ y \in SearchType /\ y.pc = "done" /\ y.used = x.used /\ y.hits = h
          /\ y.apart = x.apart /\ y.asked = x.asked /\ y.shop = x.shop /\ y.by = x.by
          /\ y.kind = x.kind /\ y.filter = x.filter
      BY <1>0, <3>3 DEF SearchType
    <3> HIDE DEF y
    <3>5. SearchMoves(r, y) BY <1>1, <3>1, <3>4
    <3>6. SearchFits(r)' BY <1>0, <2>1, <2>2, <3>3, <3>4, <3>5 DEF SearchFits, SearchMoves
    <3> QED BY <1>0, <2>1, <3>4, <3>5, <3>6, RequestGoesOn
  <2>4. CASE search' = [search EXCEPT ![r].pc = "done"]
    <3> DEFINE y == [x EXCEPT !.pc = "done"]
    <3>1. search' = [search EXCEPT ![r] = y] BY <2>4
    <3>2. /\ y \in SearchType /\ y.pc = "done" /\ y.used = x.used /\ y.hits = x.hits
          /\ y.apart = x.apart /\ y.asked = x.asked /\ y.shop = x.shop /\ y.by = x.by
          /\ y.kind = x.kind /\ y.filter = x.filter
      BY <1>0 DEF SearchType
    <3> HIDE DEF y
    <3>3. SearchMoves(r, y) BY <1>1, <3>1, <3>2
    <3>4. SearchFits(r)' BY <1>0, <2>1, <2>2, <3>2, <3>3 DEF SearchFits, SearchMoves
    <3> QED BY <1>0, <2>1, <3>2, <3>3, <3>4, RequestGoesOn
  <2> QED BY <1>5, <2>3, <2>4 DEF SearchWithText
<1>6. CASE Answer(r)
  <2>1. IdleSearch \in SearchType /\ IdleSearch.pc = "idle" /\ IdleSearch.used = ""
        /\ IdleSearch.hits = {}
    BY DEF IdleSearch, SearchType
  <2>2. SearchMoves(r, IdleSearch) /\ UNCHANGED <<query, sources>> BY <1>1, <1>6, <2>1 DEF Answer
  <2>3. SearchFits(r)' BY <2>1, <2>2 DEF SearchFits, SearchMoves
  <2> QED BY <1>0, <2>1, <2>2, <2>3, RequestGoesOn
<1> QED BY <1>3, <1>4, <1>5, <1>6

\* A request begins, or a job goes on to its next product: whoever is under way is no
\* longer alone.
LEMMA BeginningKeeps ==
    ASSUME SearchInv, NEW r \in Readers, r \notin Underway, NEW y \in SearchType,
           search' = [q \in Readers |-> IF q = r THEN y
                      ELSE [search[q] EXCEPT !.apart = @ /\ q \notin Underway]],
           y.pc = "set" /\ y.used = "" /\ y.hits = {} /\ y.shop \in RagShops,
           y.apart => Underway = {} /\ (y.kind # "admin" => sources' = y.filter),
           sources' \subseteq All, query' = query
    PROVE  SearchInv'
<1>1. ASSUME NEW q \in Readers \ {r}
      PROVE  /\ search'[q] \in SearchType
             /\ search'[q].pc = search[q].pc /\ search'[q].kind = search[q].kind
             /\ search'[q].shop = search[q].shop /\ search'[q].asked = search[q].asked
             /\ search'[q].filter = search[q].filter /\ search'[q].used = search[q].used
             /\ search'[q].by = search[q].by /\ search'[q].hits = search[q].hits
             /\ search'[q].apart => search[q].apart /\ q \notin Underway
  <2>1. search[q] \in SearchType BY DEF SearchInv
  <2>2. search'[q] = [search[q] EXCEPT !.apart = search[q].apart /\ q \notin Underway] OBVIOUS
  <2> QED BY <2>1, <2>2 DEF SearchType
<1>2. search'[r] = y OBVIOUS
<1>3. search' \in [Readers -> SearchType] BY <1>1, <1>2
<1>4. SearchFits(r)' BY <1>2 DEF SearchFits
<1>5. ASSUME NEW q \in Readers \ {r} PROVE SearchFits(q)'
  <2>1. SearchFits(q) BY DEF SearchInv
  <2>2. search[q].pc \in {"set", "fetch"} => ~search'[q].apart BY <1>1 DEF Underway
  <2>3. search'[q].pc # "idle" => search'[q].shop \in RagShops BY <1>1, <2>1 DEF SearchFits
  <2>6. search'[q].pc \in {"idle", "set", "fetch"} => search'[q].used = ""
    BY <1>1, <2>1 DEF SearchFits
  <2>7. \A h \in search'[q].hits : h.shop = search'[q].shop
    <3>1. \A h \in search[q].hits : h.shop = search[q].shop BY <2>1 DEF SearchFits
    <3>2. search'[q].hits = search[q].hits /\ search'[q].shop = search[q].shop BY <1>1
    <3> QED BY <3>1, <3>2
  <2>4. search'[q].apart => search'[q].pc \notin {"set", "fetch"} BY <1>1, <2>2
  <2>5. search'[q].apart /\ search'[q].used # "" =>
          /\ search'[q].asked # "" => search'[q].used = search'[q].asked
          /\ search'[q].kind # "admin" => search'[q].by = search'[q].filter
    BY <1>1, <2>1 DEF SearchFits
  <2> QED BY <2>3, <2>4, <2>5, <2>6, <2>7 DEF SearchFits
<1>6. Alone'
  <2>1. \A q \in Underway' : q = r \/ (q \in Underway /\ ~search'[q].apart) BY <1>1 DEF Underway
  <2> QED BY <1>2, <2>1 DEF Alone
<1> QED BY <1>3, <1>4, <1>5, <1>6 DEF SearchInv
LEMMA RestartKeepsSearches ==
    ASSUME Restart PROVE SearchInv'
<1>1. IdleSearch \in SearchType /\ IdleSearch.pc = "idle" /\ IdleSearch.used = ""
      /\ IdleSearch.hits = {}
  BY DEF IdleSearch, SearchType
<1>2. query' = "" /\ sources' = {} /\ search' = [r \in Readers |-> IdleSearch] BY DEF Restart
<1>3. \A r \in Readers : SearchFits(r)' BY <1>1, <1>2 DEF SearchFits
<1>4. Underway' = {} BY <1>1, <1>2 DEF Underway
<1> QED BY <1>1, <1>2, <1>3, <1>4 DEF SearchInv, Alone

LEMMA FiltersTyped == ASSUME NEW k PROVE FilterOf(k) \subseteq All
BY DEF FilterOf, All

LEMMA RagNextKeeps == ASSUME RagConstants, RagInv, [RagNext]_ragVars PROVE RagInv'
<1>0. CountsTyped /\ IndexInv /\ SearchInv BY DEF RagInv
<1>f. RagFail => ragFailures' \in 0..MaxRagFailures /\ ragFailures' # 0
  BY <1>0 DEF RagFail, CountsTyped, RagConstants
<1>1. CASE UNCHANGED ragVars
  <2>1. UNCHANGED <<points, collections, indexVars, search, query, sources, embeddings,
                    ragFailures, chunks, ragBudget>>
    BY <1>1 DEF ragVars, indexVars
  <2> QED BY <1>0, <2>1, SearchStays, SearchesLeaveChunks DEF RagInv, CountsTyped
<1>2. ASSUME NEW c \in Indexers, NEW s \in RagShops, NEW t \in Topics, IndexEvent(c, s, t)
      PROVE  RagInv'
  <2>1. UNCHANGED <<search, query, sources>> BY <1>2 DEF IndexEvent, searchVars
  <2> QED BY <1>0, <1>2, <2>1, EventKeeps, SearchStays DEF RagInv
<1>3. ASSUME NEW c \in Indexers,
             Embed(c) \/ LookForCollection(c) \/ CreateCollection(c) \/ UpsertBatch(c)
      PROVE  RagInv'
  <2>1. UNCHANGED <<search, query, sources>>
    BY <1>3 DEF Embed, LookForCollection, CreateCollection, UpsertBatch, searchVars
  <2> QED BY <1>0, <1>3, <2>1, ConsumerKeeps, SearchStays DEF RagInv
<1>4. CASE Restart
  BY <1>0, <1>4, RestartKeepsChunks, RestartKeepsSearches DEF RagInv
<1>5. ASSUME NEW q \in Topics, EmbeddingExpires(q) PROVE RagInv'
  <2>1. UNCHANGED <<points, collections, indexVars, search, query, sources, ragFailures>>
        /\ embeddings' \subseteq Topics
    BY <1>0, <1>5 DEF EmbeddingExpires, CountsTyped
  <2>2. CountsTyped' BY <1>0, <2>1 DEF CountsTyped, indexVars
  <2> QED BY <1>0, <2>1, <2>2, SearchStays, SearchesLeaveChunks DEF RagInv
<1>6. ASSUME NEW r \in Readers,
             \/ \E q \in Topics \cup {""} : SetQuery(r, q)
             \/ Fetch(r) \/ SearchWithText(r) \/ Answer(r)
      PROVE  RagInv'
  <2>1. SearchInv' BY <1>6, RequestKeeps
  <2>2. UNCHANGED <<points, indexVars>> /\ collections \subseteq collections'
    BY <1>6 DEF SetQuery, Fetch, SearchWithText, Answer
  <2>3. embeddings' \subseteq Topics
    <3>1. query \in Topics \cup {""} /\ embeddings \subseteq Topics
      BY <1>0 DEF CountsTyped, SearchInv
    <3>2. embeddings' = embeddings \/ (query # "" /\ embeddings' \in {embeddings, embeddings \cup {query}})
      BY <1>6 DEF SetQuery, Fetch, SearchWithText, Answer
    <3> QED BY <3>1, <3>2
  <2>4. ragFailures' = ragFailures \/ RagFail
    BY <1>6 DEF SetQuery, Fetch, SearchWithText, Answer
  <2>5. CountsTyped' BY <1>0, <1>f, <2>2, <2>3, <2>4 DEF CountsTyped, indexVars
  <2>6. ragFailures' = 0 => ragFailures = 0 BY <1>f, <2>4
  <2> QED BY <1>0, <2>1, <2>2, <2>5, <2>6, SearchesLeaveChunks DEF RagInv
<1>7. ASSUME NEW r \in Readers,
             \/ \E k \in ReaderKinds, s \in RagShops : SetSources(r, k, s)
             \/ NextQuery(r)
      PROVE  RagInv'
  <2>1. /\ UNCHANGED <<points, collections, indexVars, embeddings, query, ragFailures>>
    BY <1>7 DEF SetSources, NextQuery
  <2>2. CountsTyped' BY <1>0, <2>1 DEF CountsTyped, indexVars
  <2>3. r \notin Underway BY <1>7 DEF SetSources, NextQuery, Underway
  <2>4. SearchInv'
    <3>1. ASSUME NEW k \in ReaderKinds, NEW s \in RagShops, SetSources(r, k, s)
          PROVE  SearchInv'
      <4> DEFINE y == [IdleSearch EXCEPT !.pc = "set", !.kind = k, !.shop = s,
                                         !.filter = FilterOf(k), !.apart = Underway = {}]
      <4>1. /\ search' = [q \in Readers |-> IF q = r THEN y
                          ELSE [search[q] EXCEPT !.apart = @ /\ q \notin Underway]]
            /\ sources' = IF k = "admin" THEN sources ELSE FilterOf(k)
        BY <3>1 DEF SetSources
      <4>2. /\ y \in SearchType /\ y.pc = "set" /\ y.used = "" /\ y.hits = {} /\ y.shop = s
            /\ y.kind = k /\ y.filter = FilterOf(k) /\ (y.apart => Underway = {})
        BY FiltersTyped DEF SearchType, IdleSearch
      <4> HIDE DEF y
      <4>3. sources' \subseteq All BY <1>0, <4>1, FiltersTyped DEF SearchInv
      <4> QED BY <1>0, <2>1, <2>3, <4>1, <4>2, <4>3, BeginningKeeps
    <3>2. CASE NextQuery(r)
      <4> DEFINE y == [search[r] EXCEPT !.pc = "set", !.hits = {}, !.used = "", !.by = {},
                                        !.apart = FALSE]
      <4>1. /\ search' = [q \in Readers |-> IF q = r THEN y
                          ELSE [search[q] EXCEPT !.apart = @ /\ q \notin Underway]]
            /\ sources' = sources
        BY <3>2 DEF NextQuery
      <4>2. search[r] \in SearchType /\ search[r].shop \in RagShops
        BY <1>0, <3>2 DEF SearchInv, SearchFits, NextQuery
      <4>3. /\ y \in SearchType /\ y.pc = "set" /\ y.used = "" /\ y.hits = {}
            /\ y.shop \in RagShops /\ ~y.apart
        BY <4>2 DEF SearchType
      <4> HIDE DEF y
      <4> QED BY <1>0, <2>1, <2>3, <4>1, <4>3, BeginningKeeps DEF SearchInv
    <3> QED BY <1>7, <3>1, <3>2
  <2> QED BY <1>0, <2>1, <2>2, <2>4, SearchesLeaveChunks DEF RagInv
<1> QED BY <1>1, <1>2, <1>3, <1>4, <1>5, <1>6, <1>7 DEF RagNext

\* However consumers and requests interleave, a shop's chunks are never in another
\* shop's prompt, a request that ran alone searched with its own query and filter, a
\* collection that is believed to exist exists, and every chunk is stored, on its way
\* or lost to a failure or to the one moment in which another consumer makes the
\* collection (rag/service.go, fetcher.go, index.go).
THEOREM RagIsSound == ASSUME RagConstants PROVE RagSpec => [](RagTypeOK /\ RagSound)
<1>1. RagInit => RagInv BY RagInitSatisfies
<1>2. RagInv /\ [RagNext]_ragVars => RagInv' BY RagNextKeeps
<1>3. RagInv => RagTypeOK /\ RagSound
  <2> SUFFICES ASSUME RagInv PROVE RagTypeOK /\ RagSound OBVIOUS
  <2>0. CountsTyped /\ IndexInv /\ SearchInv BY DEF RagInv
  <2>1. \A c \in DOMAIN points : \A p \in points[c] : p.source \in Indexers
    BY <2>0 DEF IndexInv, ChunkType
  <2>2. RagTypeOK BY <2>0, <2>1 DEF RagTypeOK, CountsTyped, IndexInv, SearchInv
  <2>3. HitsOfOwnShop /\ AloneIsOwn BY <2>0 DEF HitsOfOwnShop, AloneIsOwn, SearchInv, SearchFits
  <2>4. \A n \in 1..chunks : \E p \in (UNION {points[c] : c \in DOMAIN points}) \cup lostChunks
                                       \cup {index[c].chunk : c \in Indexers} : p.no = n
    <3>1. DOMAIN points = {CollectionName(s) : s \in RagShops} BY <2>0 DEF IndexInv
    <3>2. \A n \in 1..chunks : Here(n) BY <2>0 DEF IndexInv
    <3> QED BY <3>1, <3>2 DEF Here
  <2>5. ragFailures = 0 => \A p, q \in lostChunks : p.shop = q.shop /\ p.source = q.source => p = q
    BY <2>0 DEF IndexInv, LostInv
  <2>6. CreatedExist BY <2>0 DEF IndexInv
  <2> QED BY <2>2, <2>3, <2>4, <2>5, <2>6 DEF RagSound, ChunksKept
<1> QED BY <1>1, <1>2, <1>3, PTL DEF RagSpec

(***************************************************************************)
(* The insights: rows that evaluations write, and the snapshot.            *)
(***************************************************************************)
FigureType == [orders: Nat, returns: Nat]
EvalType == [pc: {"idle", "returns", "persist", "alert"}, orders: Nat, returns: Nat, ratio: Nat]
RefreshType == [pc: {"idle", "rest", "store"}, figures: FigureType, ratio: Nat, since: Nat]
SnapshotType == [figures: FigureType, ratio: Nat, since: Nat]

\* What a row of a kind is about, its title, and the row it makes.
DataOf(k) == IF k = "pricing" THEN [ratio: Nat] ELSE FigureType
TitleFor(k, d) == IF k = "pricing" THEN PriceTitle(d.ratio) ELSE ReturnTitle(d)
RowFor(k, d) == [severity |-> Severity(TitleFor(k, d)), data |-> d]
RowsOf(k) == {NoRow} \cup {RowFor(k, d) : d \in DataOf(k)}
CurrentData(k) == IF k = "pricing" THEN [ratio |-> ratio] ELSE figures
CurrentRow(k) == rows[k][TitleFor(k, CurrentData(k))] = RowFor(k, CurrentData(k))

FiguresTyped ==
    /\ figures \in Figures /\ ratio \in Ratios
    /\ insightBudget \in [changes: Nat, refreshes: Nat]
    /\ dataVersion \in 1..(insightBudget.changes + 1)
    /\ alerts \subseteq Figures /\ silent \subseteq InsightKinds /\ mixed \in BOOLEAN
    /\ refreshes \in 0..insightBudget.refreshes /\ insightFailures \in 0..MaxInsightFailures
EvalTyped == /\ queue \in [Evaluators -> Nat] /\ eval \in [Evaluators -> EvalType]
             /\ \A c \in Evaluators : eval[c].pc = "returns" => KindOf(c) # "pricing"
RowsTyped == /\ rows = [k \in InsightKinds |-> rows[k]]
             /\ \A k \in InsightKinds : rows[k] \in [Titles -> RowsOf(k)]

\* An evaluation has read what is current.
Matches(c) == /\ eval[c].pc = "returns" => eval[c].orders = figures.orders
              /\ eval[c].pc = "persist" => Found(c) = CurrentData(KindOf(c))
Working(c) == eval[c].pc \in {"returns", "persist"}
\* An event of the kind waits; or what runs and what is stored is current.
Waiting(k) == \E c \in Evaluators : KindOf(c) = k /\ queue[c] > 0
Current(k) == /\ \A c \in Evaluators : KindOf(c) = k => Matches(c)
              /\ CurrentRow(k) \/ \E c \in Evaluators : KindOf(c) = k /\ Working(c)
OneAtATime == \A c, d \in Evaluators :
    eval[c].pc # "idle" /\ eval[d].pc # "idle" /\ KindOf(c) = KindOf(d) => c = d
EvalInv ==
    /\ EvalTyped /\ RowsTyped
    /\ ~mixed => OneAtATime
    /\ insightFailures = 0 /\ ~mixed => \A k \in InsightKinds \ silent : Waiting(k) \/ Current(k)

\* What a refresh has read, and what is stored, is current if nothing has changed since.
RefreshFits(r) == refresh[r].pc # "idle" =>
    /\ refresh[r].since \in 1..dataVersion
    /\ insightFailures = 0 /\ refresh[r].since = dataVersion =>
          /\ refresh[r].figures = figures
          /\ refresh[r].pc = "store" => refresh[r].ratio = ratio
SnapshotFits == snapshot # NoSnapshot =>
    /\ snapshot \in SnapshotType /\ snapshot.since \in 1..dataVersion /\ snapshot.since = served
    /\ insightFailures = 0 /\ snapshot.since = dataVersion =>
          snapshot.figures = figures /\ snapshot.ratio = ratio
SnapInv == /\ refresh \in [Refreshers -> RefreshType] /\ \A r \in Refreshers : RefreshFits(r)
           /\ SnapshotFits

InsightInv == FiguresTyped /\ EvalInv /\ SnapInv

LEMMA KindsOf == ASSUME NEW c PROVE KindOf(c) \in InsightKinds
BY DEF KindOf, InsightKinds

LEMMA TitlesOf == ASSUME NEW k, NEW d PROVE TitleFor(k, d) \in Titles
BY DEF TitleFor, PriceTitle, ReturnTitle, Titles

LEMMA IdleTyped == IdleEval \in EvalType /\ IdleEval.pc = "idle"
BY DEF IdleEval, EvalType

LEMMA FoundData ==
    ASSUME EvalTyped, NEW c \in Evaluators
    PROVE  Found(c) \in DataOf(KindOf(c)) /\ TitleOf(c) = TitleFor(KindOf(c), Found(c))
<1>1. eval[c] \in EvalType BY DEF EvalTyped
<1>2. CASE KindOf(c) = "pricing"
  BY <1>1, <1>2 DEF EvalType, Found, DataOf, TitleOf, TitleFor
<1>3. CASE KindOf(c) # "pricing"
  BY <1>1, <1>3 DEF EvalType, Found, DataOf, TitleOf, TitleFor, FigureType
<1> QED BY <1>2, <1>3

LEMMA InsightInitSatisfies == ASSUME InsightConstants, InsightInit PROVE InsightInv
<1>1. FiguresTyped
  <2>1. insightBudget \in [changes: Nat, refreshes: Nat] /\ insightBudget.changes \in Nat
        /\ insightBudget.refreshes \in Nat
    BY DEF InsightInit, InsightConstants
  <2>2. 1 \in 1..(insightBudget.changes + 1) /\ 0 \in 0..insightBudget.refreshes
        /\ 0 \in 0..MaxInsightFailures
    BY <2>1 DEF InsightConstants
  <2> QED BY <2>1, <2>2 DEF InsightInit, FiguresTyped
<1>2. EvalInv
  <2>1. EvalTyped BY IdleTyped DEF InsightInit, EvalTyped
  <2>2. RowsTyped BY DEF InsightInit, RowsTyped, RowsOf
  <2>3. OneAtATime BY IdleTyped DEF InsightInit, OneAtATime
  <2>4. InsightKinds \ silent = {} BY DEF InsightInit
  <2> QED BY <2>1, <2>2, <2>3, <2>4 DEF EvalInv
<1>3. SnapInv
  <2>1. IdleRefresh \in RefreshType /\ IdleRefresh.pc = "idle"
    BY DEF IdleRefresh, RefreshType, NoFigures, FigureType
  <2> QED BY <2>1 DEF InsightInit, SnapInv, RefreshFits, SnapshotFits
<1> QED BY <1>1, <1>2, <1>3 DEF InsightInv

\* A failure is counted, and then nothing is said any more.
LEMMA FailureCounts ==
    ASSUME InsightConstants, FiguresTyped, InsightFail \/ UNCHANGED insightFailures
    PROVE  /\ insightFailures' \in 0..MaxInsightFailures
           /\ insightFailures' = 0 => insightFailures = 0
           /\ InsightFail => insightFailures' # 0
BY DEF InsightConstants, FiguresTyped, InsightFail

(***************************************************************************)
(* The database changes                                                    *)
(***************************************************************************)
LEMMA ChangeKeepsSnapshot ==
    ASSUME FiguresTyped, SnapInv, dataVersion' = dataVersion + 1, UNCHANGED snapVars
    PROVE  SnapInv'
<1>0. dataVersion \in Nat BY DEF FiguresTyped
<1>1. UNCHANGED <<refresh, snapshot, served>> BY DEF snapVars
<1>2. \A n \in 1..dataVersion : n \in 1..dataVersion' /\ n # dataVersion' BY <1>0
<1>3. \A r \in Refreshers : RefreshFits(r)' BY <1>1, <1>2 DEF SnapInv, RefreshFits
<1>4. SnapshotFits' BY <1>1, <1>2 DEF SnapInv, SnapshotFits
<1> QED BY <1>1, <1>3, <1>4 DEF SnapInv

LEMMA SyncedKeeps ==
    ASSUME InsightConstants, InsightInv, NEW c \in Evaluators, NEW f \in Figures, NEW r \in Ratios,
           DataSynced(c, f, r)
    PROVE  InsightInv'
<1>0. FiguresTyped /\ EvalInv /\ SnapInv /\ EvalTyped BY DEF InsightInv, EvalInv
<1>1. /\ UNCHANGED <<eval, rows, alerts, mixed, insightBudget, insightFailures>>
      /\ UNCHANGED snapVars /\ refreshes' = refreshes
      /\ dataVersion' = dataVersion + 1 /\ dataVersion <= insightBudget.changes
      /\ queue' = [queue EXCEPT ![c] = @ + 1] /\ silent' = silent \ {KindOf(c)}
      /\ figures' = f /\ ratio' = r
      /\ KindOf(c) = "pricing" => f = figures
      /\ KindOf(c) # "pricing" => r = ratio
  BY DEF DataSynced, snapVars
<1>2. FiguresTyped' BY <1>0, <1>1 DEF FiguresTyped
<1>3. SnapInv' BY <1>0, <1>1, ChangeKeepsSnapshot
<1>4. EvalTyped' /\ RowsTyped' /\ (~mixed' => OneAtATime')
  BY <1>0, <1>1 DEF EvalInv, EvalTyped, RowsTyped, OneAtATime
<1>5. ASSUME insightFailures' = 0, ~mixed', NEW k \in InsightKinds \ silent'
      PROVE  Waiting(k)' \/ Current(k)'
  <2>1. \A d \in Evaluators : queue[d] \in Nat BY <1>0 DEF EvalTyped
  <2>2. \A d \in Evaluators : queue'[d] = IF d = c THEN queue[c] + 1 ELSE queue[d]
    BY <1>0, <1>1 DEF EvalTyped
  <2>3. CASE k = KindOf(c)
    <3>1. queue'[c] > 0 BY <2>1, <2>2
    <3> QED BY <2>3, <3>1 DEF Waiting
  <2>4. CASE k # KindOf(c)
    <3>1. k \in InsightKinds \ silent BY <1>1, <1>5, <2>4
    <3>2. Waiting(k) \/ Current(k) BY <1>0, <1>1, <1>5, <3>1 DEF EvalInv
    <3>3. Waiting(k) => Waiting(k)' BY <2>2, <2>4 DEF Waiting
    <3>4. CurrentData(k)' = CurrentData(k)
      BY <1>1, <2>4, <3>1, KindsOf DEF CurrentData, InsightKinds
    <3>5. \A d \in Evaluators : KindOf(d) = k /\ Matches(d) => Matches(d)'
      <4> SUFFICES ASSUME NEW d \in Evaluators, KindOf(d) = k, Matches(d) PROVE Matches(d)'
        OBVIOUS
      <4>1. Found(d)' = Found(d) BY <1>1 DEF Found
      <4>2. eval[d].pc = "returns" => figures' = figures
        BY <1>0, <1>1, <2>4, <3>1, KindsOf DEF EvalTyped, InsightKinds
      <4> QED BY <1>1, <3>4, <4>1, <4>2 DEF Matches
    <3>6. CurrentRow(k) => CurrentRow(k)' BY <1>1, <3>4 DEF CurrentRow
    <3>7. Current(k) => Current(k)' BY <1>1, <3>5, <3>6 DEF Current, Working
    <3> QED BY <3>2, <3>3, <3>7
  <2> QED BY <2>3, <2>4
<1> QED BY <1>2, <1>3, <1>4, <1>5 DEF InsightInv, EvalInv

LEMMA WindowKeeps ==
    ASSUME InsightConstants, InsightInv, NEW f \in Figures, WindowMoves(f)
    PROVE  InsightInv'
<1>0. FiguresTyped /\ EvalInv /\ SnapInv /\ EvalTyped BY DEF InsightInv, EvalInv
<1>1. /\ UNCHANGED <<ratio, queue, eval, rows, alerts, mixed, insightBudget, insightFailures>>
      /\ UNCHANGED snapVars /\ refreshes' = refreshes
      /\ dataVersion' = dataVersion + 1 /\ dataVersion <= insightBudget.changes
      /\ silent' = silent \cup {"return_rate"} /\ figures' = f
  BY DEF WindowMoves, snapVars
<1>2. FiguresTyped' BY <1>0, <1>1 DEF FiguresTyped, InsightKinds
<1>3. SnapInv' BY <1>0, <1>1, ChangeKeepsSnapshot
<1>4. EvalTyped' /\ RowsTyped' /\ (~mixed' => OneAtATime')
  BY <1>0, <1>1 DEF EvalInv, EvalTyped, RowsTyped, OneAtATime
<1>5. ASSUME insightFailures' = 0, ~mixed', NEW k \in InsightKinds \ silent'
      PROVE  Waiting(k)' \/ Current(k)'
  <2>1. k = "pricing" /\ k \in InsightKinds \ silent BY <1>1, <1>5 DEF InsightKinds
  <2>2. Waiting(k) \/ Current(k) BY <1>0, <1>1, <1>5, <2>1 DEF EvalInv
  <2>3. Waiting(k) => Waiting(k)' BY <1>1 DEF Waiting
  <2>4. CurrentData(k)' = CurrentData(k) BY <1>1, <2>1 DEF CurrentData
  <2>5. \A d \in Evaluators : KindOf(d) = k /\ Matches(d) => Matches(d)'
    <3> SUFFICES ASSUME NEW d \in Evaluators, KindOf(d) = k, Matches(d) PROVE Matches(d)'
      OBVIOUS
    <3>1. Found(d)' = Found(d) BY <1>1 DEF Found
    <3>2. eval[d].pc # "returns" BY <1>0, <2>1 DEF EvalTyped
    <3> QED BY <1>1, <2>4, <3>1, <3>2 DEF Matches
  <2>6. CurrentRow(k) => CurrentRow(k)' BY <1>1, <2>4 DEF CurrentRow
  <2>7. Current(k) => Current(k)' BY <1>1, <2>5, <2>6 DEF Current, Working
  <2> QED BY <2>2, <2>3, <2>7
<1> QED BY <1>2, <1>3, <1>4, <1>5 DEF InsightInv, EvalInv

(***************************************************************************)
(* Evaluations                                                             *)
(***************************************************************************)
\* The consumer c goes on and has y; the others stay.
EvalMoves(c, y) == /\ eval' \in [Evaluators -> EvalType] /\ eval'[c] = y
                   /\ \A d \in Evaluators \ {c} : eval'[d] = eval[d]

LEMMA MovesOfEval ==
    ASSUME EvalTyped, NEW c \in Evaluators, NEW y \in EvalType, eval' = [eval EXCEPT ![c] = y]
    PROVE  EvalMoves(c, y)
BY DEF EvalMoves, EvalTyped

\* What an evaluation has found stays what it has found.
LEMMA OthersStay ==
    ASSUME UNCHANGED <<figures, ratio>>, NEW c \in Evaluators, NEW y, EvalMoves(c, y),
           NEW d \in Evaluators \ {c}
    PROVE  Matches(d)' = Matches(d) /\ Working(d)' = Working(d)
BY DEF EvalMoves, Matches, Working, Found, CurrentData

LEMMA EvaluationsLeaveSnapshot ==
    ASSUME SnapInv, UNCHANGED <<figureVars, snapVars>>, insightFailures' = 0 => insightFailures = 0
    PROVE  SnapInv'
BY DEF SnapInv, RefreshFits, SnapshotFits, figureVars, snapVars

LEMMA EvaluationsKeepFigures ==
    ASSUME InsightConstants, FiguresTyped, UNCHANGED <<figureVars, snapVars, silent>>,
           alerts' \subseteq Figures, mixed' \in BOOLEAN,
           InsightFail \/ UNCHANGED insightFailures
    PROVE  FiguresTyped'
BY FailureCounts DEF FiguresTyped, figureVars, snapVars

\* An event is taken: its evaluation begins with what is current, or is given up.
LEMMA TakingKeeps ==
    ASSUME InsightConstants, InsightInv, NEW c \in Evaluators, OnEvent(c)
    PROVE  InsightInv'
<1>0. FiguresTyped /\ EvalInv /\ SnapInv /\ EvalTyped /\ RowsTyped BY DEF InsightInv, EvalInv
<1>1. /\ eval[c].pc = "idle" /\ queue[c] > 0 /\ queue' = [queue EXCEPT ![c] = @ - 1]
      /\ UNCHANGED <<figureVars, rows, alerts, silent, snapVars>>
      /\ UNCHANGED <<figures, ratio>>
  BY DEF OnEvent, figureVars
<1>2. queue' \in [Evaluators -> Nat] /\ \A d \in Evaluators \ {c} : queue'[d] = queue[d]
  <2>1. queue[c] - 1 \in Nat BY <1>0, <1>1 DEF EvalTyped
  <2> QED BY <1>0, <1>1, <2>1 DEF EvalTyped
<1>3. CASE /\ eval' = [eval EXCEPT ![c] =
                 IF KindOf(c) = "pricing" THEN [IdleEval EXCEPT !.pc = "persist", !.ratio = ratio]
                 ELSE [IdleEval EXCEPT !.pc = "returns", !.orders = figures.orders]]
           /\ mixed' = (mixed \/ Busy(KindOf(c)) # {}) /\ UNCHANGED insightFailures
  <2> DEFINE y == IF KindOf(c) = "pricing" THEN [IdleEval EXCEPT !.pc = "persist", !.ratio = ratio]
                  ELSE [IdleEval EXCEPT !.pc = "returns", !.orders = figures.orders]
  <2>1. figures.orders \in Nat /\ ratio \in Nat BY <1>0 DEF FiguresTyped, InsightConstants
  <2>2. /\ y \in EvalType
        /\ KindOf(c) = "pricing" => y.pc = "persist" /\ y.ratio = ratio
        /\ KindOf(c) # "pricing" => y.pc = "returns" /\ y.orders = figures.orders
    BY <2>1 DEF EvalType, IdleEval
  <2>3. eval' = [eval EXCEPT ![c] = y] BY <1>3
  <2> HIDE DEF y
  <2>4. EvalMoves(c, y) BY <1>0, <2>2, <2>3, MovesOfEval
  <2>5. /\ eval' \in [Evaluators -> EvalType] /\ eval'[c] = y
        /\ \A d \in Evaluators \ {c} : eval'[d] = eval[d]
    BY <2>4 DEF EvalMoves
  <2>6. FiguresTyped' /\ SnapInv'
    <3>1. mixed' \in BOOLEAN /\ alerts' \subseteq Figures BY <1>0, <1>1, <1>3 DEF FiguresTyped
    <3> QED BY <1>0, <1>1, <1>3, <3>1, EvaluationsKeepFigures, EvaluationsLeaveSnapshot
  <2>7. EvalTyped' BY <1>0, <1>2, <2>2, <2>5 DEF EvalTyped
  <2>8. ~mixed' => OneAtATime'
    <3> SUFFICES ASSUME ~mixed' PROVE OneAtATime' OBVIOUS
    <3>1. ~mixed /\ Busy(KindOf(c)) = {} BY <1>3
    <3>2. \A d \in Evaluators : KindOf(d) = KindOf(c) => eval[d].pc = "idle" BY <3>1 DEF Busy
    <3>3. OneAtATime BY <1>0, <3>1 DEF EvalInv
    <3> QED BY <2>5, <3>2, <3>3 DEF OneAtATime
  <2>9. ASSUME insightFailures' = 0, ~mixed', NEW k \in InsightKinds \ silent'
        PROVE  Waiting(k)' \/ Current(k)'
    <3>1. insightFailures = 0 /\ ~mixed /\ Busy(KindOf(c)) = {} /\ k \in InsightKinds \ silent
      BY <1>1, <1>3, <2>9
    <3>2. Waiting(k) \/ Current(k) BY <1>0, <3>1 DEF EvalInv
    <3>3. CurrentData(k)' = CurrentData(k) /\ CurrentRow(k)' = CurrentRow(k)
      BY <1>1 DEF CurrentData, CurrentRow
    <3>4. CASE k = KindOf(c)
      <4>1. \A d \in Evaluators : KindOf(d) = k => eval[d].pc = "idle"
        BY <3>1, <3>4 DEF Busy
      <4>2. \A d \in Evaluators : KindOf(d) = k /\ d # c => Matches(d)'
        BY <2>5, <4>1 DEF Matches
      <4>3. Matches(c)' BY <1>1, <2>2, <2>5 DEF Matches, Found, CurrentData
      <4>4. Working(c)' BY <2>2, <2>5 DEF Working
      <4> QED BY <3>4, <4>2, <4>3, <4>4 DEF Current
    <3>5. CASE k # KindOf(c)
      <4>1. Waiting(k) => Waiting(k)' BY <1>2, <3>5 DEF Waiting
      <4>2. \A d \in Evaluators : KindOf(d) = k => Matches(d)' = Matches(d) /\ Working(d)' = Working(d)
        BY <1>1, <2>4, <3>5, OthersStay
      <4>3. Current(k) => Current(k)' BY <3>3, <4>2 DEF Current
      <4> QED BY <3>2, <4>1, <4>3
    <3> QED BY <3>4, <3>5
  <2>10. RowsTyped' BY <1>0, <1>1 DEF RowsTyped
  <2> QED BY <2>6, <2>7, <2>8, <2>9, <2>10 DEF InsightInv, EvalInv
<1>4. CASE KindOf(c) = "pricing" /\ InsightFail /\ UNCHANGED <<eval, mixed>>
  <2>1. insightFailures' # 0 BY <1>0, <1>4, FailureCounts
  <2>2. FiguresTyped' /\ SnapInv'
    <3>1. mixed' \in BOOLEAN /\ alerts' \subseteq Figures BY <1>0, <1>1, <1>4 DEF FiguresTyped
    <3> QED BY <1>0, <1>1, <1>4, <2>1, <3>1, EvaluationsKeepFigures, EvaluationsLeaveSnapshot
  <2>3. EvalTyped' /\ RowsTyped' /\ (~mixed' => OneAtATime')
    BY <1>0, <1>1, <1>2, <1>4 DEF EvalInv, EvalTyped, RowsTyped, OneAtATime
  <2> QED BY <2>1, <2>2, <2>3 DEF InsightInv, EvalInv
<1> QED BY <1>3, <1>4 DEF OnEvent

\* The steps of an evaluation that has begun, and of the alert after it.
LEMMA GoingOnKeeps ==
    ASSUME InsightConstants, InsightInv, NEW c \in Evaluators, NEW y \in EvalType,
           EvalMoves(c, y), eval[c].pc # "idle",
           UNCHANGED <<figureVars, queue, silent, mixed, snapVars>>, alerts' \subseteq Figures,
           RowsTyped', y.pc = "returns" => KindOf(c) # "pricing",
           InsightFail \/ UNCHANGED insightFailures,
           \A k \in InsightKinds : k # KindOf(c) => rows'[k] = rows[k],
           insightFailures' = 0 /\ Matches(c) =>
               /\ Matches(c)'
               /\ Working(c) => CurrentRow(KindOf(c))' \/ Working(c)'
               /\ ~Working(c) => rows'[KindOf(c)] = rows[KindOf(c)]
    PROVE  InsightInv'
<1>0. FiguresTyped /\ EvalInv /\ SnapInv /\ EvalTyped BY DEF InsightInv, EvalInv
<1>1. UNCHANGED <<figures, ratio>> BY DEF figureVars
<1>2. insightFailures' = 0 => insightFailures = 0 BY <1>0, FailureCounts
<1>3. FiguresTyped' /\ SnapInv'
  <2>1. mixed' \in BOOLEAN BY <1>0 DEF FiguresTyped
  <2> QED BY <1>0, <1>2, <2>1, EvaluationsKeepFigures, EvaluationsLeaveSnapshot
<1>4. /\ eval' \in [Evaluators -> EvalType] /\ eval'[c] = y
      /\ \A d \in Evaluators \ {c} : eval'[d] = eval[d]
  BY DEF EvalMoves
<1>5. EvalTyped' BY <1>0, <1>4 DEF EvalTyped
<1>6. ~mixed' => OneAtATime' BY <1>0, <1>4 DEF EvalInv, OneAtATime
<1>7. ASSUME insightFailures' = 0, ~mixed', NEW k \in InsightKinds \ silent'
      PROVE  Waiting(k)' \/ Current(k)'
  <2>1. Waiting(k) \/ Current(k) BY <1>0, <1>2, <1>7 DEF EvalInv
  <2>2. Waiting(k)' = Waiting(k) BY DEF Waiting
  <2>3. \A d \in Evaluators \ {c} : Matches(d)' = Matches(d) /\ Working(d)' = Working(d)
    BY <1>1, OthersStay
  <2>4. CurrentData(k)' = CurrentData(k) BY <1>1 DEF CurrentData
  <2>5. CASE k # KindOf(c)
    <3>1. CurrentRow(k)' = CurrentRow(k) BY <1>7, <2>4, <2>5 DEF CurrentRow
    <3> QED BY <2>1, <2>2, <2>3, <2>5, <3>1 DEF Current
  <2>6. CASE k = KindOf(c) /\ Current(k)
    <3>1. Matches(c) BY <2>6 DEF Current
    <3>2. Matches(c)' BY <1>7, <3>1
    <3>3. \A d \in Evaluators : KindOf(d) = k => Matches(d)' BY <2>3, <2>6, <3>2 DEF Current
    <3>4. OneAtATime BY <1>0, <1>7 DEF EvalInv
    <3>5. \A d \in Evaluators : KindOf(d) = k /\ Working(d) => d = c
      BY <2>6, <3>4 DEF OneAtATime, Working
    <3>6. rows'[k] = rows[k] => CurrentRow(k)' = CurrentRow(k) BY <2>4 DEF CurrentRow
    <3>7. CurrentRow(k)' \/ Working(c)'
      <4>1. CASE Working(c) BY <1>7, <2>6, <3>1, <4>1
      <4>2. CASE ~Working(c)
        <5>1. CurrentRow(k) BY <2>6, <3>5, <4>2 DEF Current
        <5> QED BY <1>7, <2>6, <3>1, <3>6, <4>2, <5>1
      <4> QED BY <4>1, <4>2
    <3> QED BY <2>6, <3>3, <3>7 DEF Current
  <2> QED BY <2>1, <2>2, <2>5, <2>6
<1> QED BY <1>3, <1>5, <1>6, <1>7 DEF InsightInv, EvalInv

LEMMA ReadingKeeps ==
    ASSUME InsightConstants, InsightInv, NEW c \in Evaluators, ReadReturns(c)
    PROVE  InsightInv'
<1> DEFINE y == [eval[c] EXCEPT !.pc = "persist", !.returns = figures.returns]
<1>0. FiguresTyped /\ EvalInv /\ EvalTyped /\ RowsTyped BY DEF InsightInv, EvalInv
<1>1. /\ eval[c].pc = "returns" /\ eval' = [eval EXCEPT ![c] = y] /\ UNCHANGED <<figures, ratio>>
      /\ UNCHANGED <<figureVars, queue, rows, alerts, silent, mixed, snapVars, insightFailures>>
  BY DEF ReadReturns, figureVars
<1>2. figures \in FigureType /\ KindOf(c) # "pricing" /\ eval[c] \in EvalType
  BY <1>0, <1>1 DEF FiguresTyped, InsightConstants, FigureType, EvalTyped
<1>3. /\ y \in EvalType /\ y.pc = "persist" /\ y.returns = figures.returns
      /\ y.orders = eval[c].orders
  BY <1>2 DEF EvalType, FigureType
<1> HIDE DEF y
<1>4. EvalMoves(c, y) BY <1>0, <1>1, <1>3, MovesOfEval
<1>5. eval'[c] = y BY <1>4 DEF EvalMoves
<1>6. RowsTyped' BY <1>0, <1>1 DEF RowsTyped
<1>7. Matches(c) => Matches(c)'
  <2> SUFFICES ASSUME Matches(c) PROVE Matches(c)' OBVIOUS
  <2>1. y.orders = figures.orders BY <1>1, <1>3 DEF Matches
  <2>2. [orders |-> y.orders, returns |-> y.returns] = figures BY <1>2, <1>3, <2>1 DEF FigureType
  <2> QED BY <1>1, <1>2, <1>3, <1>5, <2>2 DEF Matches, Found, CurrentData
<1>8. Working(c)' BY <1>3, <1>5 DEF Working
<1>9. Working(c) BY <1>1 DEF Working
<1>10. alerts' \subseteq Figures BY <1>0, <1>1 DEF FiguresTyped
<1> QED BY <1>1, <1>3, <1>4, <1>6, <1>7, <1>8, <1>9, <1>10, GoingOnKeeps

LEMMA PersistKeeps ==
    ASSUME InsightConstants, InsightInv, NEW c \in Evaluators, PersistInsight(c)
    PROVE  InsightInv'
<1> DEFINE y == IF c = "return" THEN [IdleEval EXCEPT !.pc = "alert"] ELSE IdleEval
           k == KindOf(c)
           t == TitleOf(c)
           d == Found(c)
<1>0. FiguresTyped /\ EvalInv /\ EvalTyped /\ RowsTyped BY DEF InsightInv, EvalInv
<1>1. /\ eval[c].pc = "persist" /\ eval' = [eval EXCEPT ![c] = y] /\ UNCHANGED <<figures, ratio>>
      /\ UNCHANGED <<figureVars, queue, alerts, silent, mixed, snapVars>>
  BY DEF PersistInsight, figureVars
<1>2. y \in EvalType /\ y.pc \in {"alert", "idle"} BY IdleTyped DEF EvalType, IdleEval
<1> HIDE DEF y
<1>4. EvalMoves(c, y) BY <1>0, <1>1, <1>2, MovesOfEval
<1>5. Working(c) /\ ~Working(c)' /\ Matches(c)'
  <2>1. eval'[c] = y BY <1>4 DEF EvalMoves
  <2> QED BY <1>1, <1>2, <2>1 DEF Working, Matches
<1>6. d \in DataOf(k) /\ t = TitleFor(k, d) /\ t \in Titles /\ k \in InsightKinds
  BY <1>0, FoundData, TitlesOf, KindsOf
<1>7. alerts' \subseteq Figures BY <1>0, <1>1 DEF FiguresTyped
<1>8. CASE /\ rows' = [rows EXCEPT ![KindOf(c)][t] =
                          Upsert(@, [severity |-> Severity(t), data |-> Found(c)])]
           /\ UNCHANGED insightFailures
  <2>1. rows' = [rows EXCEPT ![k] = [rows[k] EXCEPT ![t] = RowFor(k, d)]]
    BY <1>6, <1>8 DEF Upsert, RowFor
  <2>2. RowFor(k, d) \in RowsOf(k) BY <1>6 DEF RowsOf
  <2> HIDE DEF k, t, d
  <2>3. /\ \A m \in InsightKinds : m # k => rows'[m] = rows[m]
        /\ rows'[k] = [rows[k] EXCEPT ![t] = RowFor(k, d)]
        /\ rows' = [m \in InsightKinds |-> rows'[m]]
    BY <1>0, <1>6, <2>1 DEF RowsTyped
  <2>4. rows'[k] \in [Titles -> RowsOf(k)] /\ rows'[k][t] = RowFor(k, d)
    BY <1>0, <1>6, <2>2, <2>3 DEF RowsTyped
  <2>5. RowsTyped'
    <3>1. \A m : RowsOf(m)' = RowsOf(m)
      BY DEF RowsOf, RowFor, DataOf, TitleFor
    <3> QED BY <1>0, <2>3, <2>4, <3>1 DEF RowsTyped
  <2>6. Matches(c) => CurrentRow(k)'
    <3> SUFFICES ASSUME Matches(c) PROVE CurrentRow(k)' OBVIOUS
    <3>1. d = CurrentData(k) BY <1>1 DEF Matches, d, k
    <3>2. CurrentData(k)' = CurrentData(k) BY <1>1 DEF CurrentData
    <3> QED BY <1>6, <2>4, <3>1, <3>2 DEF CurrentRow
  <2> QED BY <1>1, <1>2, <1>4, <1>5, <1>7, <1>8, <2>3, <2>5, <2>6, GoingOnKeeps DEF k
<1>9. CASE InsightFail /\ UNCHANGED rows
  <2>1. insightFailures' # 0 BY <1>0, <1>9, FailureCounts
  <2>2. RowsTyped' BY <1>0, <1>9 DEF RowsTyped
  <2> QED BY <1>1, <1>2, <1>4, <1>7, <1>9, <2>1, <2>2, GoingOnKeeps
<1> QED BY <1>8, <1>9 DEF PersistInsight

LEMMA AlertKeeps ==
    ASSUME InsightConstants, InsightInv, NEW c \in Evaluators, ReturnAlert(c)
    PROVE  InsightInv'
<1>0. FiguresTyped /\ EvalInv /\ EvalTyped /\ RowsTyped BY DEF InsightInv, EvalInv
<1>1. /\ eval[c].pc = "alert" /\ eval' = [eval EXCEPT ![c] = IdleEval]
      /\ UNCHANGED <<figureVars, queue, rows, silent, mixed, snapVars>>
      /\ InsightFail \/ UNCHANGED insightFailures
      /\ alerts' \in {alerts, alerts \cup {figures}}
  BY DEF ReturnAlert
<1>2. EvalMoves(c, IdleEval) BY <1>0, <1>1, IdleTyped, MovesOfEval
<1>3. ~Working(c) /\ Matches(c)'
  <2>1. eval'[c] = IdleEval BY <1>2 DEF EvalMoves
  <2> QED BY <1>1, <2>1, IdleTyped DEF Working, Matches
<1>4. RowsTyped' /\ alerts' \subseteq Figures BY <1>0, <1>1 DEF RowsTyped, FiguresTyped
<1> QED BY <1>1, <1>2, <1>3, <1>4, IdleTyped, GoingOnKeeps

(***************************************************************************)
(* The snapshot                                                            *)
(***************************************************************************)
LEMMA RefreshesLeaveRows ==
    ASSUME EvalInv, UNCHANGED <<figureVars, evalVars>>, insightFailures' = 0 => insightFailures = 0
    PROVE  EvalInv'
<1>1. UNCHANGED <<figures, ratio, queue, eval, rows, silent, mixed>> BY DEF figureVars, evalVars
<1>2. \A c : Matches(c)' = Matches(c) /\ Working(c)' = Working(c)
  BY <1>1 DEF Matches, Working, Found, CurrentData
<1>3. \A k : Waiting(k)' = Waiting(k) /\ CurrentRow(k)' = CurrentRow(k)
  BY <1>1 DEF Waiting, CurrentRow, CurrentData
<1>4. \A k : Current(k)' = Current(k) BY <1>2, <1>3 DEF Current
<1>5. EvalTyped' /\ RowsTyped' /\ OneAtATime' = OneAtATime
  BY <1>1 DEF EvalInv, EvalTyped, RowsTyped, OneAtATime
<1> QED BY <1>1, <1>3, <1>4, <1>5 DEF EvalInv

LEMMA RefreshKeeps ==
    ASSUME InsightConstants, InsightInv, NEW r \in Refreshers,
           BeginRefresh(r) \/ ReadRest(r) \/ StoreSnapshot(r)
    PROVE  InsightInv'
<1>0. FiguresTyped /\ EvalInv /\ SnapInv BY DEF InsightInv
<1>1. /\ UNCHANGED <<figureVars, evalVars>> /\ (InsightFail \/ UNCHANGED insightFailures)
      /\ refreshes' = refreshes \/ (refreshes < insightBudget.refreshes /\ refreshes' = refreshes + 1)
  BY DEF BeginRefresh, ReadRest, StoreSnapshot
<1>2. UNCHANGED <<figures, ratio, dataVersion, insightBudget, alerts, silent, mixed>>
  BY <1>1 DEF figureVars, evalVars
<1>3. /\ insightFailures' \in 0..MaxInsightFailures
      /\ insightFailures' = 0 => insightFailures = 0 
      /\ InsightFail => insightFailures' # 0
  BY <1>0, <1>1, FailureCounts
<1>4. FiguresTyped' BY <1>0, <1>1, <1>2, <1>3 DEF FiguresTyped
<1>5. EvalInv' BY <1>0, <1>1, <1>3, RefreshesLeaveRows
<1> DEFINE x == refresh[r]
<1>6. /\ refresh \in [Refreshers -> RefreshType] /\ x \in RefreshType /\ RefreshFits(r)
      /\ figures \in FigureType /\ ratio \in Nat /\ dataVersion \in Nat \ {0}
  BY <1>0 DEF SnapInv, FiguresTyped, InsightConstants, FigureType
<1>7. ASSUME NEW y \in RefreshType, refresh' = [refresh EXCEPT ![r] = y],
             y.pc # "idle" =>
                /\ y.since \in 1..dataVersion
                /\ insightFailures' = 0 /\ y.since = dataVersion =>
                      y.figures = figures /\ (y.pc = "store" => y.ratio = ratio)
      PROVE  refresh' \in [Refreshers -> RefreshType] /\ \A q \in Refreshers : RefreshFits(q)'
  <2>1. /\ refresh' \in [Refreshers -> RefreshType] /\ refresh'[r] = y
        /\ \A q \in Refreshers \ {r} : refresh'[q] = refresh[q]
    BY <1>6, <1>7
  <2>2. RefreshFits(r)' BY <1>2, <1>7, <2>1 DEF RefreshFits
  <2>3. \A q \in Refreshers \ {r} : RefreshFits(q)'
    BY <1>0, <1>2, <1>3, <2>1 DEF RefreshFits, SnapInv
  <2> QED BY <2>1, <2>2, <2>3
<1>8. UNCHANGED <<snapshot, served>> => SnapshotFits'
  BY <1>0, <1>2, <1>3 DEF SnapInv, SnapshotFits
<1>9. IdleRefresh \in RefreshType /\ IdleRefresh.pc = "idle"
  BY DEF IdleRefresh, RefreshType, NoFigures, FigureType
<1>10. CASE BeginRefresh(r)
  <2>1. CASE /\ refresh' = [refresh EXCEPT ![r] = [pc |-> "rest", figures |-> figures, ratio |-> 0,
                                                   since |-> dataVersion]]
    <3> DEFINE y == [pc |-> "rest", figures |-> figures, ratio |-> 0, since |-> dataVersion]
    <3>1. /\ y \in RefreshType /\ y.pc = "rest" /\ y.since \in 1..dataVersion
          /\ y.figures = figures
      BY <1>6 DEF RefreshType
    <3> HIDE DEF y
    <3>2. refresh' = [refresh EXCEPT ![r] = y] BY <2>1 DEF y
    <3> QED BY <1>4, <1>5, <1>7, <1>8, <1>10, <3>1, <3>2 DEF InsightInv, SnapInv, BeginRefresh
  <2>2. CASE /\ InsightFail
             /\ refresh' = [refresh EXCEPT ![r] = [IdleRefresh EXCEPT !.pc = "rest",
                                                                      !.since = dataVersion]]
    <3> DEFINE y == [IdleRefresh EXCEPT !.pc = "rest", !.since = dataVersion]
    <3>1. y \in RefreshType /\ y.since = dataVersion BY <1>6, <1>9 DEF RefreshType
    <3>4. dataVersion \in 1..dataVersion BY <1>6
    <3> HIDE DEF y
    <3>2. refresh' = [refresh EXCEPT ![r] = y] BY <2>2 DEF y
    <3>3. insightFailures' # 0 BY <1>3, <2>2
    <3> QED BY <1>4, <1>5, <1>7, <1>8, <1>10, <3>1, <3>2, <3>3, <3>4
           DEF InsightInv, SnapInv, BeginRefresh
  <2> QED BY <1>10, <2>1, <2>2 DEF BeginRefresh
<1>11. CASE ReadRest(r)
  <2>0. x.pc = "rest" BY <1>11 DEF ReadRest
  <2>1. CASE refresh' = [refresh EXCEPT ![r].pc = "store", ![r].ratio = ratio]
    <3> DEFINE y == [x EXCEPT !.pc = "store", !.ratio = ratio]
    <3>1. /\ y \in RefreshType /\ y.since = x.since /\ y.figures = x.figures /\ y.ratio = ratio
      BY <1>6 DEF RefreshType
    <3>2. refresh' = [refresh EXCEPT ![r] = y] BY <2>1
    <3> HIDE DEF y
    <3>3. /\ y.since \in 1..dataVersion
          /\ insightFailures' = 0 /\ y.since = dataVersion => y.figures = figures
      BY <1>3, <1>6, <2>0, <3>1 DEF RefreshFits
    <3> QED BY <1>4, <1>5, <1>7, <1>8, <1>11, <3>1, <3>2, <3>3 DEF InsightInv, SnapInv, ReadRest
  <2>2. CASE InsightFail /\ refresh' = [refresh EXCEPT ![r].pc = "store"]
    <3> DEFINE y == [x EXCEPT !.pc = "store"]
    <3>1. y \in RefreshType /\ y.since = x.since BY <1>6 DEF RefreshType
    <3>2. refresh' = [refresh EXCEPT ![r] = y] BY <2>2
    <3> HIDE DEF y
    <3>3. y.since \in 1..dataVersion /\ insightFailures' # 0
      BY <1>3, <1>6, <2>0, <2>2, <3>1 DEF RefreshFits
    <3> QED BY <1>4, <1>5, <1>7, <1>8, <1>11, <3>1, <3>2, <3>3 DEF InsightInv, SnapInv, ReadRest
  <2> QED BY <1>11, <2>1, <2>2 DEF ReadRest
<1>12. CASE StoreSnapshot(r)
  <2>0. x.pc = "store" /\ refresh' = [refresh EXCEPT ![r] = IdleRefresh]
    BY <1>12 DEF StoreSnapshot
  <2>1. refresh' \in [Refreshers -> RefreshType] /\ \A q \in Refreshers : RefreshFits(q)'
    BY <1>7, <1>9, <2>0
  <2>2. CASE /\ snapshot' = [figures |-> x.figures, ratio |-> x.ratio, since |-> x.since]
             /\ served' = x.since
    <3>1. snapshot' \in SnapshotType BY <1>6, <2>2 DEF SnapshotType, RefreshType
    <3>2. x.since \in 1..dataVersion BY <1>6, <2>0 DEF RefreshFits
    <3>3. snapshot'.figures = x.figures /\ snapshot'.ratio = x.ratio /\ snapshot'.since = x.since
      BY <2>2
    <3>4. insightFailures' = 0 /\ x.since = dataVersion => x.figures = figures /\ x.ratio = ratio
      BY <1>3, <1>6, <2>0 DEF RefreshFits
    <3>5. SnapshotFits' BY <1>2, <2>2, <3>1, <3>2, <3>3, <3>4 DEF SnapshotFits
    <3> QED BY <1>4, <1>5, <2>1, <3>5 DEF InsightInv, SnapInv
  <2>3. CASE UNCHANGED <<snapshot, served>>
    BY <1>4, <1>5, <1>8, <2>1, <2>3 DEF InsightInv, SnapInv
  <2> QED BY <1>12, <2>2, <2>3 DEF StoreSnapshot
<1> QED BY <1>10, <1>11, <1>12

LEMMA InsightNextKeeps ==
    ASSUME InsightConstants, InsightInv, [InsightNext]_insightVars PROVE InsightInv'
<1>0. FiguresTyped /\ EvalInv /\ SnapInv BY DEF InsightInv
<1>1. CASE UNCHANGED insightVars
  <2>1. UNCHANGED <<figureVars, evalVars, snapVars, insightFailures, alerts, silent, mixed>>
    BY <1>1 DEF insightVars, figureVars, evalVars, snapVars
  <2>2. FiguresTyped' BY <1>0, <2>1 DEF FiguresTyped, figureVars, snapVars
  <2> QED BY <1>0, <2>1, <2>2, RefreshesLeaveRows, EvaluationsLeaveSnapshot DEF InsightInv
<1>2. CASE SnapshotExpires
  <2>1. UNCHANGED <<figureVars, evalVars, refresh, served, refreshes, insightFailures>>
        /\ snapshot' = NoSnapshot
    BY <1>2 DEF SnapshotExpires
  <2>2. FiguresTyped' BY <1>0, <2>1 DEF FiguresTyped, figureVars, evalVars
  <2>3. SnapInv' BY <1>0, <2>1 DEF SnapInv, SnapshotFits, RefreshFits, figureVars
  <2> QED BY <1>0, <2>1, <2>2, <2>3, RefreshesLeaveRows DEF InsightInv
<1> QED BY <1>1, <1>2, SyncedKeeps, WindowKeeps, TakingKeeps, ReadingKeeps, PersistKeeps,
           AlertKeeps, RefreshKeeps DEF InsightNext

\* A row's severity is that of its own numbers, even if these were read at two times;
\* without failures, overlaps and silent changes the row of the current title has the
\* current numbers once every event is worked off; and the snapshot is what the
\* database held, unless something has changed since its refresh began (insight/engine.go,
\* snapshot.go).
THEOREM InsightsAreSound ==
    ASSUME InsightConstants PROVE InsightSpec => [](InsightTypeOK /\ InsightSound)
<1>1. InsightInit => InsightInv BY InsightInitSatisfies
<1>2. InsightInv /\ [InsightNext]_insightVars => InsightInv' BY InsightNextKeeps
<1>3. InsightInv => InsightTypeOK /\ InsightSound
  <2> SUFFICES ASSUME InsightInv PROVE InsightTypeOK /\ InsightSound OBVIOUS
  <2>0. FiguresTyped /\ EvalInv /\ SnapInv /\ EvalTyped /\ RowsTyped BY DEF InsightInv, EvalInv
  <2>1. InsightTypeOK BY <2>0 DEF InsightTypeOK, FiguresTyped
  <2>2. SeverityFits
    <3> SUFFICES ASSUME NEW k \in InsightKinds, NEW t \in Titles, rows[k][t] # NoRow
                 PROVE  rows[k][t].severity = Severity(IF k = "pricing"
                                                       THEN PriceTitle(rows[k][t].data.ratio)
                                                       ELSE ReturnTitle(rows[k][t].data))
      BY DEF SeverityFits
    <3>1. PICK d \in DataOf(k) : rows[k][t] = RowFor(k, d) BY <2>0 DEF RowsTyped, RowsOf
    <3>2. RowFor(k, d).severity = Severity(TitleFor(k, d)) /\ RowFor(k, d).data = d
      BY DEF RowFor
    <3> QED BY <3>1, <3>2 DEF TitleFor
  <2>3. RowsCurrent
    <3> SUFFICES ASSUME insightFailures = 0, ~mixed, NEW k \in InsightKinds \ silent, AtRest(k)
                 PROVE  CurrentRow(k)
      BY DEF RowsCurrent, CurrentRow, CurrentData, RowFor, TitleFor
    <3>1. \A c \in Evaluators : KindOf(c) = k => queue[c] = 0 /\ eval[c].pc = "idle"
      BY DEF AtRest
    <3> QED BY <2>0, <3>1 DEF EvalInv, Waiting, Current, Working
  <2>4. SnapshotTrue BY <2>0 DEF SnapshotTrue, SnapInv, SnapshotFits, FiguresTyped
  <2> QED BY <2>1, <2>2, <2>3, <2>4 DEF InsightSound
<1> QED BY <1>1, <1>2, <1>3, PTL DEF InsightSpec
=============================================================================
