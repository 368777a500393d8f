---------------------------- MODULE Fulfillment ----------------------------
(***************************************************************************)
(* One fulfilled order of a shop: what the carrier reports to Shopify, the *)
(* syncs that copy it into fulfillment_events and into the order's row     *)
(* (fulfillment_tracker.go; webhook, dashboard and poll start them), and   *)
(* the messages to the customer (fulfillment_notifier.go).                 *)
(*                                                                         *)
(* A carrier's event is its time and status. The query names the list of   *)
(* events "nodes"; the type that decodes the answer reads "edges".         *)
(***************************************************************************)
EXTENDS Naturals, FiniteSets

CONSTANTS ListNames, \* names the answer may give the list: "nodes", "edges"
          MaxTime, MaxReports, MaxFailures, MaxSyncs,  \* bounds
          CarrierStatuses,  \* statuses a carrier reports
          Syncs      \* slots of concurrent syncs

FulfillmentConstants ==
    IsFiniteSet(Syncs) /\ {MaxTime, MaxReports, MaxFailures, MaxSyncs} \subseteq Nat

VARIABLES
    key,      \* name of the list (fixed at start)
    carrier,  \* events the carrier has reported
    unordered, \* reports that were not the newest when they came
    row,      \* of synced_orders: [exists, latest]
    events,   \* events[e]: rows of fulfillment_events for e: [linked, loose]
    sync,     \* sync[s]: what a sync has fetched and has still to do
    syncsBegun, syncOverlaps, failures,  \* syncs begun, begun while another ran, failed writes
    queue,    \* fulfillment.status_changed events not yet handled
    mails     \* mails[e]: messages sent to the customer

fulfillmentVars == <<key, carrier, unordered, row, events, sync, syncsBegun, syncOverlaps,
                     failures, queue, mails>>
syncCounts == <<syncsBegun, syncOverlaps>>
shopifyVars == <<key, carrier, unordered>>

\* The notifier has a text for some statuses only (buildEmail).
Known == {"LABEL_PRINTED", "IN_TRANSIT", "OUT_FOR_DELIVERY", "DELIVERED",
          "ATTEMPTED_DELIVERY", "FAILURE"}
Event == [at: 1..MaxTime, status: CarrierStatuses]
NoSync == [pc |-> "idle", todo |-> {}]
NoEvent == [at |-> 0, status |-> ""]
Running == [pc: {"load", "create"}, answer: SUBSET Event, found: BOOLEAN,
            todo: SUBSET Event, latest: Event \cup {NoEvent}]
Message == [event: Event, of: Syncs, named: BOOLEAN, nr: Nat]
Newest(E) == IF E = {} THEN NoEvent ELSE CHOOSE e \in E : \A x \in E : x.at <= e.at

FulfillmentInit == /\ key \in ListNames /\ carrier = {} /\ unordered = 0
                   /\ row = [exists |-> FALSE, latest |-> NoEvent]
                   /\ events = [e \in Event |-> [linked |-> 0, loose |-> 0]]
                   /\ sync = [s \in Syncs |-> NoSync]
                   /\ syncsBegun = 0 /\ syncOverlaps = 0 /\ failures = 0
                   /\ queue = {} /\ mails = [e \in Event |-> 0]

Report(e) == /\ Cardinality(carrier) < MaxReports /\ \A x \in carrier : x.at # e.at
             /\ carrier' = carrier \cup {e}
             /\ unordered' = unordered + IF Newest(carrier).at < e.at THEN 0 ELSE 1
             /\ UNCHANGED <<key, row, events, sync, syncCounts, failures, queue, mails>>
OrderSynced == /\ ~row.exists /\ row' = [row EXCEPT !.exists = TRUE]
               /\ UNCHANGED <<shopifyVars, events, sync, syncCounts, failures, queue, mails>>

\* SyncOrderFulfillments, up to its first write: the answer of Shopify, then the
\* order's row, then the rows that hold one of the answer's events already.
\* A sync that gets no answer ends without a trace.
Decoded == IF key = "edges" THEN carrier ELSE {}
Fetch(s) ==
    /\ sync[s] = NoSync /\ syncsBegun < MaxSyncs
    /\ sync' = [sync EXCEPT ![s] = [pc |-> "load", answer |-> Decoded, found |-> row.exists,
                                    todo |-> {}, latest |-> NoEvent]]
    /\ syncsBegun' = syncsBegun + 1
    /\ syncOverlaps' = IF \E x \in Syncs : sync[x] # NoSync THEN syncOverlaps + 1 ELSE syncOverlaps
    /\ UNCHANGED <<shopifyVars, row, events, failures, queue, mails>>
HandleFulfillmentCreate(s) == carrier # {} /\ Fetch(s)
Sync(s) == Fetch(s)                                  \* from the dashboard
\* PollUnfulfilled leaves out what has been delivered; an order that fails is
\* logged and the next one is tried.
Poll(s) == row.exists /\ row.latest.status # "DELIVERED" /\ Fetch(s)

Stored(e) == events[e].linked + events[e].loose > 0
\* Seeded bug: the keys of the rows are not compared.
LoadAll(s) ==
    /\ sync[s].pc = "load"
    /\ sync' = [sync EXCEPT ![s] = [@ EXCEPT !.pc = "create", !.todo = sync[s].answer]]
    /\ UNCHANGED <<shopifyVars, row, events, syncCounts, failures, queue, mails>>
LoadExisting(s) ==
    /\ sync[s].pc = "load"
    /\ sync' = [sync EXCEPT ![s] = [@ EXCEPT !.pc = "create",
                                              !.todo = {e \in sync[s].answer : ~Stored(e)}]]
    /\ UNCHANGED <<shopifyVars, row, events, syncCounts, failures, queue, mails>>

\* One new event: its row, its message on the bus, and the newest one so far.
\* Without a row of the order it is stored under no order at all.
CreateEvent(s, e) ==
    /\ sync[s].pc = "create" /\ e \in sync[s].todo
    /\ \/ /\ events' = [events EXCEPT ![e] =
                          IF sync[s].found THEN [@ EXCEPT !.linked = events[e].linked + 1]
                          ELSE [@ EXCEPT !.loose = events[e].loose + 1]]
          /\ sync' = [sync EXCEPT ![s] = [@ EXCEPT !.todo = sync[s].todo \ {e},
                                                   !.latest = Newest({sync[s].latest, e})]]
          /\ queue' \in {queue \cup {[event |-> e, of |-> s, named |-> sync[s].found,
                                      nr |-> events[e].linked + events[e].loose]},
                         queue}                       \* Publish fails, or the event is lost
          /\ failures' = failures
       \/ /\ failures < MaxFailures /\ failures' = failures + 1   \* Create fails
          /\ sync' = [sync EXCEPT ![s].todo = @ \ {e}]
          /\ UNCHANGED <<events, queue>>
    /\ UNCHANGED <<shopifyVars, row, syncCounts, mails>>

\* The newest of the events this sync has created, if it has created any.
UpdateOrder(s) ==
    /\ sync[s].pc = "create" /\ sync[s].todo = {}
    /\ \/ /\ row' = IF sync[s].found /\ sync[s].latest # NoEvent
                    THEN [row EXCEPT !.latest = sync[s].latest] ELSE row
          /\ failures' = failures
       \/ failures < MaxFailures /\ failures' = failures + 1 /\ row' = row
    /\ sync' = [sync EXCEPT ![s] = NoSync]
    /\ UNCHANGED <<shopifyVars, events, syncCounts, queue, mails>>

\* handleStatusChanged: an unknown status, an order without a row or a name, or a
\* failed message all end the handler without an error.
HandleStatusChanged(m) ==
    /\ queue' = queue \ {m}
    /\ \/ /\ m.event.status \in Known /\ m.named /\ row.exists
          /\ mails' = [mails EXCEPT ![m.event] = @ + 1]
       \/ mails' = mails
    /\ UNCHANGED <<shopifyVars, row, events, sync, syncCounts, failures>>

FulfillmentNext == \/ \E e \in Event : Report(e)
                   \/ OrderSynced
                   \/ \E s \in Syncs : \/ HandleFulfillmentCreate(s) \/ Sync(s) \/ Poll(s)
                                      \/ LoadExisting(s) \/ UpdateOrder(s)
                                      \/ \E e \in sync[s].todo : CreateEvent(s, e)
                   \/ \E m \in queue : HandleStatusChanged(m)

FulfillmentSpec == FulfillmentInit /\ [][FulfillmentNext]_fulfillmentVars

FulfillmentTypeOK == /\ key \in ListNames /\ carrier \subseteq Event
                     /\ unordered \in Nat /\ row \in [exists: BOOLEAN, latest: Event \cup {NoEvent}]
                     /\ sync \in [Syncs -> {NoSync} \cup Running]
                     /\ events \in [Event -> [linked: Nat, loose: Nat]]
                     /\ queue \subseteq Message /\ mails \in [Event -> Nat]
                     /\ failures \in 0..MaxFailures
                     /\ syncsBegun \in 0..MaxSyncs /\ syncOverlaps \in Nat

\* An event gets a second row only from syncs that overlap: each reads the rows
\* before the other has written.
RowsBounded == \A e \in Event : events[e].linked + events[e].loose <= 1 + syncOverlaps
\* The customer is told of an event at most as often as it was stored under the
\* order: what was stored before the order's row existed is never announced.
MailsBounded == \A e \in Event : mails[e] <= events[e].linked
\* What the chat tells (GetTrackingSummary: the newest event of the order) and
\* what the dashboard and the poll see (latest_event_status) agree, unless the
\* carrier reported out of order, a write failed, or a sync is or was in between.
GetFulfillmentEvents == {e \in Event : events[e].linked > 0}
Summary == Newest(GetFulfillmentEvents)
SummaryAgrees ==
    \/ row.latest = Summary
    \/ unordered > 0 \/ failures > 0 \/ syncOverlaps > 0 \/ \E s \in Syncs : sync[s] # NoSync
FulfillmentSound == RowsBounded /\ MailsBounded /\ SummaryAgrees
=============================================================================
