--------------------------- MODULE MarketingFlow ---------------------------
(***************************************************************************)
(* The marketing flows of one shop around one customer (marketing_flow.go, *)
(* handler/marketing.go): templates seeded when a server starts, flows the *)
(* merchant makes and switches, and the executions that events and the     *)
(* scan for dormant customers start.                                       *)
(*                                                                         *)
(* An execution runs all actions of a flow at once: delay_hours is stored  *)
(* and read by nobody.                                                     *)
(***************************************************************************)
EXTENDS Naturals, FiniteSets, Sequences

CONSTANTS Templates,   \* kinds of flow: of those in GetTemplates, and "custom"
          Copies,      \* bound: flows of one kind
          Execs,       \* slots of concurrent executions and seedings
          MaxBegun, MaxFlowFailures  \* bounds

VARIABLES
    flows,    \* flows[t]: the flows of kind t: <<>> of "on" and "off"
    orderRow, checkoutRow, \* the customer's rows: "none", "open", "fulfilled" / "ordered"
    exec,     \* exec[x]: what a slot runs, and how far it is
    begun,    \* executions begun
    seeds,    \* seedings that began while another one ran
    afterOff, \* afterOff[t]: messages of flows of kind t since all of them were off
    flowFailures  \* messages that failed

flowVars == <<flows, orderRow, checkoutRow, exec, begun, seeds, afterOff, flowFailures>>
rowVars  == <<orderRow, checkoutRow>>
flowDataVars == <<rowVars, begun, seeds>>

\* Each template's event, and for each of its mails the status_trigger or "";
\* "custom" is a flow of the merchant.
GetTemplates ==
    [welcome        |-> [trigger |-> "order.created", mails |-> <<"", "", "">>],
     abandoned_cart |-> [trigger |-> "checkout.abandoned", mails |-> <<"", "", "">>],
     repurchase     |-> [trigger |-> "order.fulfilled", mails |-> <<"">>],
     dormant_wakeup |-> [trigger |-> "customer.dormant", mails |-> <<"", "">>],
     logistics_care |-> [trigger |-> "fulfillment.status_changed",
                         mails |-> <<"SHIPPED", "OUT_FOR_DELIVERY", "DELIVERED">>],
     custom         |-> [trigger |-> "customer.dormant", mails |-> <<"SHIPPED", "">>]]
FlowsConstants == /\ Templates \subseteq DOMAIN GetTemplates /\ IsFiniteSet(Execs)
                  /\ {Copies, MaxBegun, MaxFlowFailures} \subseteq Nat
Trigger == [t \in Templates |-> GetTemplates[t].trigger]
Actions == [t \in Templates |-> GetTemplates[t].mails]
IdleExec == [pc |-> "idle"]
Flow == {<<t, n>> : t \in Templates, n \in 1..Copies}
On(f) == f[2] \in DOMAIN flows[f[1]] /\ flows[f[1]][f[2]] = "on"
AllOff(t) == \A n \in DOMAIN flows[t] : flows[t][n] = "off"

FlowsInit == /\ flows = [t \in Templates |-> <<>>]
             /\ orderRow = "none" /\ checkoutRow = "none"
             /\ exec = [x \in Execs |-> IdleExec]
             /\ begun = 0 /\ seeds = 0 /\ flowFailures = 0
             /\ afterOff = [t \in Templates |-> 0]

OrderChanges == /\ orderRow' \in (IF orderRow = "none" THEN {"open"} ELSE {"fulfilled"})
                /\ orderRow' # orderRow
                /\ UNCHANGED <<flows, checkoutRow, exec, begun, seeds, afterOff, flowFailures>>
CheckoutChanges == /\ checkoutRow' \in (IF checkoutRow = "none" THEN {"open"} ELSE {"ordered"})
                   /\ checkoutRow' # checkoutRow
                   /\ UNCHANGED <<flows, orderRow, exec, begun, seeds, afterOff, flowFailures>>

\* SeedTemplates, of every server that starts: look for the template, create it.
\* Seeded bug: the template is not looked for.
SeedAgain(x, t) ==
    /\ exec[x] = IdleExec /\ t # "custom" /\ begun < MaxBegun
    /\ exec' = [exec EXCEPT ![x] = [pc |-> "seed", kind |-> t]]
    /\ begun' = begun + 1
    /\ seeds' = IF \E y \in Execs : exec[y] = [pc |-> "seed", kind |-> t] THEN seeds + 1 ELSE seeds
    /\ UNCHANGED <<flows, rowVars, afterOff, flowFailures>>
Seed(x, t) ==
    /\ exec[x] = IdleExec /\ t # "custom" /\ flows[t] = <<>> /\ begun < MaxBegun
    /\ exec' = [exec EXCEPT ![x] = [pc |-> "seed", kind |-> t]]
    /\ begun' = begun + 1
    /\ seeds' = IF \E y \in Execs : exec[y] = [pc |-> "seed", kind |-> t] THEN seeds + 1 ELSE seeds
    /\ UNCHANGED <<flows, rowVars, afterOff, flowFailures>>
SeedCreate(x) ==
    /\ exec[x].pc = "seed"
    /\ LET t == exec[x].kind IN
         /\ Len(flows[t]) < Copies
         /\ flows' = [flows EXCEPT ![t] = Append(@, "on")]
         /\ afterOff' = [afterOff EXCEPT ![t] = 0]
    /\ exec' = [exec EXCEPT ![x] = IdleExec]
    /\ UNCHANGED <<flowDataVars, flowFailures>>

\* CreateFlow: enabled has the default TRUE, so FALSE is left out and not stored.
CreateFlow(enabled) ==
    /\ "custom" \in Templates /\ Len(flows["custom"]) < Copies
    /\ flows' = [flows EXCEPT !["custom"] = Append(@, "on")]
    /\ afterOff' = [afterOff EXCEPT !["custom"] = 0]
    /\ UNCHANGED <<rowVars, begun, seeds, exec, flowFailures>>
\* UpdateFlow writes a map, so that FALSE is stored.
UpdateFlow(f, enabled) ==
    /\ f[2] \in DOMAIN flows[f[1]]
    /\ flows' = [flows EXCEPT ![f[1]][f[2]] = IF enabled THEN "on" ELSE "off"]
    /\ afterOff' = [afterOff EXCEPT ![f[1]] = 0]
    /\ UNCHANGED <<flowDataVars, exec, flowFailures>>

\* TriggerFlow: the enabled flows are read once.
TriggerFlow(x, trigger, key, entity) ==
    /\ exec[x] = IdleExec /\ begun < MaxBegun /\ begun' = begun + 1
    /\ exec' = [exec EXCEPT ![x] = [pc |-> "flows", key |-> key, entity |-> entity,
                                    left |-> {f \in Flow : Trigger[f[1]] = trigger /\ On(f)}]]
    /\ UNCHANGED <<flows, rowVars, seeds, afterOff, flowFailures>>

HandleOrderCreated(x) == orderRow # "none" /\ TriggerFlow(x, "order.created", "", "order")
HandleOrderUpdated(x) == orderRow = "fulfilled" /\ TriggerFlow(x, "order.fulfilled", "", "order")
HandleCheckoutSynced(x) ==
    checkoutRow = "open" /\ TriggerFlow(x, "checkout.abandoned", "", "checkout")
\* The event fulfillment.status_changed starts nothing: its handler asks for a
\* customer_email, which the tracker does not put into it.
\* ScanDormantCustomers, at every start and by its ticker; it names no entity.
ScanDormantCustomers(x) ==
    orderRow # "none" /\ TriggerFlow(x, "customer.dormant", "dormant", "")

\* executeFlow: a condition of a merchant's flow may not hold; then the actions.
ExecuteFlow(x, f) ==
    /\ exec[x].pc = "flows" /\ f \in exec[x].left
    /\ \/ /\ exec' = [exec EXCEPT ![x].left = @ \ {f}] /\ f[1] = "custom"
                                                          \* a condition does not hold
       \/ /\ exec' = [exec EXCEPT ![x] = [pc |-> "act", flow |-> f, i |-> 1, key |-> @.key,
                                          entity |-> @.entity, left |-> @.left \ {f}]]
    /\ UNCHANGED <<flows, flowDataVars, afterOff, flowFailures>>

\* A run of the last day with the event's key would stop the action; what is
\* stored is the entity, so that a key that is not empty is never found.
Duplicate(e) == e.key # "" /\ e.key = e.entity
\* No event that starts a flow carries a fulfillment status.
Matches(e) == Actions[e.flow[1]][e.i] = ""
Resume(x) == [pc |-> "flows", key |-> exec[x].key, entity |-> exec[x].entity, left |-> exec[x].left]

\* executeEmailAction: skipped, sent and recorded, or failed, which ends the flow.
ActSkips(x) ==
    /\ exec[x].pc = "act" /\ exec[x].i \in DOMAIN Actions[exec[x].flow[1]]
    /\ Duplicate(exec[x]) \/ ~Matches(exec[x])
    /\ exec' = [exec EXCEPT ![x].i = @ + 1]
    /\ UNCHANGED <<flows, flowDataVars, afterOff, flowFailures>>
ActSends(x) ==
    /\ exec[x].pc = "act" /\ exec[x].i \in DOMAIN Actions[exec[x].flow[1]]
    /\ ~Duplicate(exec[x]) /\ Matches(exec[x])
    /\ LET t == exec[x].flow[1] IN
         afterOff' = [afterOff EXCEPT ![t] = IF AllOff(t) THEN @ + 1 ELSE 0]
    /\ exec' = [exec EXCEPT ![x].i = @ + 1]
    /\ UNCHANGED <<flows, flowDataVars, flowFailures>>
ActFails(x) ==
    /\ exec[x].pc = "act" /\ exec[x].i \in DOMAIN Actions[exec[x].flow[1]] /\ Matches(exec[x])
    /\ flowFailures < MaxFlowFailures /\ flowFailures' = flowFailures + 1
    /\ exec' = [exec EXCEPT ![x] = Resume(x)]
    /\ UNCHANGED <<flows, flowDataVars, afterOff>>
\* After the last action a run is recorded as sent, whatever was sent.
FlowEnds(x) ==
    /\ exec[x].pc = "act" /\ exec[x].i = Len(Actions[exec[x].flow[1]]) + 1
    /\ exec' = [exec EXCEPT ![x] = Resume(x)]
    /\ UNCHANGED <<flows, flowDataVars, afterOff, flowFailures>>
ExecEnds(x) ==
    /\ exec[x].pc = "flows" /\ exec[x].left = {}
    /\ exec' = [exec EXCEPT ![x] = IdleExec]
    /\ UNCHANGED <<flows, flowDataVars, afterOff, flowFailures>>

FlowsNext == \/ OrderChanges \/ CheckoutChanges
             \/ \E x \in Execs :
                  \/ \E t \in Templates : Seed(x, t)
                  \/ SeedCreate(x)
                  \/ HandleOrderCreated(x) \/ HandleOrderUpdated(x) \/ HandleCheckoutSynced(x)
                  \/ ScanDormantCustomers(x)
                  \/ \E f \in Flow : ExecuteFlow(x, f)
                  \/ ActSkips(x) \/ ActSends(x) \/ ActFails(x) \/ FlowEnds(x) \/ ExecEnds(x)
             \/ \E b \in BOOLEAN : CreateFlow(b) \/ \E f \in Flow : UpdateFlow(f, b)

FlowsSpec == FlowsInit /\ [][FlowsNext]_flowVars

FlowsTypeOK == /\ \A t \in Templates : \A n \in DOMAIN flows[t] : flows[t][n] \in {"on", "off"}
               /\ orderRow \in {"none", "open", "fulfilled"}
               /\ checkoutRow \in {"none", "open", "ordered"}
               /\ \A x \in Execs : exec[x].pc \in {"idle", "seed", "flows", "act"}
               /\ begun \in 0..MaxBegun /\ flowFailures \in 0..MaxFlowFailures
               /\ afterOff \in [Templates -> Nat]

\* A template exists twice only if two servers seeded it at the same time.
SeededOnce == \A t \in Templates \ {"custom"} : Len(flows[t]) <= 1 + seeds
\* What is sent after the last flow of a kind was switched off comes from
\* executions that had read it before: no more than their remaining mails.
WindsDown == \A t \in Templates :
    afterOff[t] <= Cardinality(Execs) * Copies
                   * Cardinality({i \in DOMAIN Actions[t] : Actions[t][i] = ""})
FlowsSound == SeededOnce /\ WindsDown
=============================================================================
