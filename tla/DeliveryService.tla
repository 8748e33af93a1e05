---------------------------- MODULE DeliveryService ----------------------------
(***************************************************************************)
(* delivery-service: a parcel gets a carrier, is reported on by its courier   *)
(* or partner, and waits at a station until it is picked up.                  *)
(*                                                                         *)
(* CreateShipment answers at once and leaves DispatchCarrierAssignment to a   *)
(* goroutine.  Couriers' and keepers' calls run concurrently with it and with  *)
(* each other, and their reads lock nothing (GetDeliveryOrder has no FOR       *)
(* UPDATE, whatever the comment over it says), so a read and the write that     *)
(* rests on it are two steps.  The couriers' positions live in Redis, apart     *)
(* from the couriers table that says who is online.                          *)
(***************************************************************************)
EXTENDS Integers, FiniteSets, TLC

CONSTANTS
  Deliveries,   \* the delivery orders that may come to exist
  Couriers, Stations,
  Callers,      \* goroutines serving the calls of couriers and keepers
  NoDelivery, NoCourier, NoStation,
  Reports,      \* the statuses couriers and partners report
  MaxCalls,     \* calls of couriers, keepers and partners in one behaviour
  FaultKinds    \* the faults that may happen, one in a behaviour

DeliveryStatus ==
  {"created", "assigned", "awaiting_pickup", "picked_up", "in_transit",
   "arrived_at_station", "out_for_delivery", "delivered", "failed", "returned"}

ASSUME NilAssumption ==
  NoDelivery \notin Deliveries /\ NoCourier \notin Couriers /\ NoStation \notin Stations
ASSUME ReportsAssumption  == Reports \subseteq DeliveryStatus
ASSUME FiniteAssumption   == IsFiniteSet(Deliveries)
ASSUME CallsAssumption    == MaxCalls \in Nat

VARIABLES
  delivery,   \* delivery_orders
  tasks,      \* courier_tasks, by delivery and courier
  couriers,   \* couriers: no row, offline or online (is_online)
  nearby,     \* the couriers the Redis set shows within 5 km of the sender
  credits,    \* how often each courier's wallet was credited for each delivery
  package,    \* station_packages, one row at most per delivery
  count,      \* stations.current_package_count
  dispatch,   \* the goroutine of DispatchCarrierAssignment, by delivery
  call,       \* what each goroutine serving a call is doing
  started,    \* calls made so far
  faults      \* the fault that has happened, if any

parcelVars  == <<delivery, tasks, credits>>
courierVars == <<couriers, nearby>>
stationVars == <<package, count>>
workVars    == <<dispatch, call>>
boundVars   == <<started, faults>>
vars == <<parcelVars, courierVars, stationVars, workVars, boundVars>>

Row == [status  : DeliveryStatus,
        carrier : {"none", "crowdsourced", "3pl"},
        courier : Couriers \cup {NoCourier}]

NoRow == [status |-> "absent", carrier |-> "none", courier |-> NoCourier]

Package == [station : Stations \cup {NoStation}, out : BOOLEAN]

NoPackage == [station |-> NoStation, out |-> FALSE]

\* find      the couriers near the sender are next looked up
\* offer     ... have been, and riders are still to be offered the task
\* register  the parcel is next registered with a partner
Dispatch == [at : {"done", "find", "offer", "register"}, riders : SUBSET Couriers]

Done == [at |-> "done", riders |-> {}]

\* unlist    SetCourierOnlineStatus has written offline, Redis is next
\* list      UpdateCourierLocation has read online, Redis is next; then
\*           UpdateDeliveryProgress goes on if it is what called it
\* check     UpdateDeliveryProgress next reads the delivery
\* write     ... has found it assigned to the courier
\* credit    ... has written delivered, the wallet is next
\* accept    AcceptCourierTask has found the task offered
\* assign    ... has found the delivery open to be assigned
\* checkout  CheckOutPackage has found the package unclaimed
Call ==
  [at : {"idle", "unlist", "list", "check", "write", "credit", "accept", "assign",
         "checkout"},
   courier : Couriers \cup {NoCourier}, delivery : Deliveries \cup {NoDelivery},
   report : DeliveryStatus]

Working(stage, k, d, report) ==
  [at |-> stage, courier |-> k, delivery |-> d, report |-> report]

NoCall == Working("idle", NoCourier, NoDelivery, "created")

TypeOK ==
  /\ delivery \in [Deliveries -> Row \cup {NoRow}]
  /\ tasks \in [Deliveries -> [Couriers -> {"none", "offered", "accepted"}]]
  /\ couriers \in [Couriers -> {"none", "offline", "online"}]
  /\ nearby \in SUBSET Couriers
  /\ credits \in [Couriers -> [Deliveries -> Nat]]
  /\ package \in [Deliveries -> Package]
  /\ count \in [Stations -> Int]
  /\ dispatch \in [Deliveries -> Dispatch]
  /\ call \in [Callers -> Call]
  /\ started \in 0..MaxCalls
  /\ faults \subseteq FaultKinds

\* Some couriers are online before the first parcel comes.
Init ==
  /\ delivery = [d \in Deliveries |-> NoRow]
  /\ tasks = [d \in Deliveries |-> [k \in Couriers |-> "none"]]
  /\ nearby \in SUBSET Couriers
  /\ couriers = [k \in Couriers |-> IF k \in nearby THEN "online" ELSE "none"]
  /\ credits = [k \in Couriers |-> [d \in Deliveries |-> 0]]
  /\ package = [d \in Deliveries |-> NoPackage]
  /\ count = [s \in Stations |-> 0]
  /\ dispatch = [d \in Deliveries |-> Done]
  /\ call = [g \in Callers |-> NoCall]
  /\ started = 0
  /\ faults = {}

Exists(d) == delivery[d] # NoRow

\* The one fault of a behaviour.
Fails(kind) ==
  /\ kind \in FaultKinds
  /\ faults = {}
  /\ faults' = {kind}
  /\ UNCHANGED started

\* Caller g takes up a call, and its goroutine goes on from a stage.
Begins(g, stage, k, d, report) ==
  /\ call[g] = NoCall
  /\ started < MaxCalls
  /\ started' = started + 1
  /\ call' = [call EXCEPT ![g] = Working(stage, k, d, report)]
  /\ UNCHANGED <<dispatch, faults>>

GoesTo(g, stage) == call' = [call EXCEPT ![g].at = stage]

Returns(g) == call' = [call EXCEPT ![g] = NoCall]

\* Fault for mutation: a partner's name is written for its carrier type.
AssignCarrierByName(d, carrier, k) ==
  delivery' = [delivery EXCEPT ![d] = [status |-> "assigned",
                                       carrier |-> IF carrier = "3pl" THEN "SF Express"
                                                                      ELSE carrier,
                                       courier |-> k]]

\* AssignCarrierToDeliveryOrder: whatever the row was, it is assigned now.
AssignCarrier(d, carrier, k) ==
  delivery' = [delivery EXCEPT ![d] = [status |-> "assigned", carrier |-> carrier,
                                       courier |-> k]]

SetStatus(d, status) == delivery' = [delivery EXCEPT ![d].status = status]

-----------------------------------------------------------------------------
(* A shipment and the goroutine that finds its carrier.                     *)

\* route: what RoutePackage decides from cities, distance, weight and volume.
CreateShipment(d, route) ==
  /\ ~Exists(d)
  /\ delivery' = [delivery EXCEPT ![d] = [status |-> "created", carrier |-> "none",
                                          courier |-> NoCourier]]
  /\ dispatch' = [dispatch EXCEPT ![d] =
                    [at |-> IF route = "3pl" THEN "register" ELSE "find",
                     riders |-> {}]]
  /\ UNCHANGED <<tasks, credits, courierVars, stationVars, call, boundVars>>

\* Fault for mutation: without couriers the goroutine just ends.
ToRidersOnly(d, found) ==
  /\ dispatch[d].at = "find"
  /\ dispatch' = [dispatch EXCEPT ![d] =
                    [at |-> IF found = {} THEN "done" ELSE "offer",
                     riders |-> found]]
  /\ UNCHANGED <<parcelVars, courierVars, stationVars, call>>

\* No courier found, or no answer of Redis: the parcel goes to a partner.
ToRiders(d, found) ==
  /\ dispatch[d].at = "find"
  /\ dispatch' = [dispatch EXCEPT ![d] =
                    [at |-> IF found = {} THEN "register" ELSE "offer",
                     riders |-> found]]
  /\ UNCHANGED <<parcelVars, courierVars, stationVars, call>>

FindRiders(d) == ToRiders(d, nearby) /\ UNCHANGED boundVars

FindFails(d) == Fails("redis") /\ ToRiders(d, {})

\* Fault for mutation: once the tasks are out the parcel is registered as well.
NextRiderThenPartner(d, k) ==
  LET left == dispatch[d].riders \ {k} IN
  dispatch' = [dispatch EXCEPT ![d] =
                 [at |-> IF left = {} THEN "register" ELSE "offer", riders |-> left]]

\* The loop ends with its last rider.
NextRider(d, k) ==
  LET left == dispatch[d].riders \ {k} IN
  dispatch' = [dispatch EXCEPT ![d] =
                 [at |-> IF left = {} THEN "done" ELSE "offer", riders |-> left]]

\* Fault for mutation: the loop offers a rider the task more than once.
OfferTaskAgain(d, k) ==
  /\ dispatch[d].at = "offer" /\ k \in dispatch[d].riders
  /\ tasks' = [tasks EXCEPT ![d][k] = "offered"]
  /\ dispatch' = [dispatch EXCEPT ![d] = IF Cardinality(@.riders) = 1 THEN Done ELSE @]
  /\ UNCHANGED <<delivery, credits, courierVars, stationVars, call, boundVars>>

\* CreateCourierTask inserts the task, or sets it back to offered.
OfferTask(d, k) ==
  /\ dispatch[d].at = "offer" /\ k \in dispatch[d].riders
  /\ tasks' = [tasks EXCEPT ![d][k] = "offered"]
  /\ NextRider(d, k)
  /\ UNCHANGED <<delivery, credits, courierVars, stationVars, call, boundVars>>

\* ... its error is ignored.
OfferFails(d, k) ==
  /\ dispatch[d].at = "offer" /\ k \in dispatch[d].riders
  /\ Fails("db")
  /\ NextRider(d, k)
  /\ UNCHANGED <<parcelVars, courierVars, stationVars, call>>

RegisterPartner(d) ==
  /\ dispatch[d].at = "register"
  /\ AssignCarrier(d, "3pl", NoCourier)
  /\ dispatch' = [dispatch EXCEPT ![d] = Done]
  /\ UNCHANGED <<tasks, credits, courierVars, stationVars, call, boundVars>>

\* ... its error ends the goroutine.
RegisterFails(d) ==
  /\ dispatch[d].at = "register"
  /\ Fails("db")
  /\ dispatch' = [dispatch EXCEPT ![d] = Done]
  /\ UNCHANGED <<parcelVars, courierVars, stationVars, call>>

\* The webhook of the partners finds the parcel by its own tracking number.
PartnerUpdate(d, status) ==
  /\ Exists(d)
  /\ started < MaxCalls
  /\ started' = started + 1
  /\ SetStatus(d, status)
  /\ UNCHANGED <<tasks, credits, courierVars, stationVars, workVars, faults>>

-----------------------------------------------------------------------------
(* Couriers.                                                                *)

RegisterAsCourier(k) ==
  /\ couriers[k] = "none"
  /\ couriers' = [couriers EXCEPT ![k] = "offline"]
  /\ UNCHANGED <<parcelVars, nearby, stationVars, workVars, boundVars>>

GoOnline(k) ==
  /\ couriers[k] # "none"
  /\ couriers' = [couriers EXCEPT ![k] = "online"]
  /\ UNCHANGED <<parcelVars, nearby, stationVars, workVars, boundVars>>

GoOffline(g, k) ==
  /\ couriers[k] # "none"
  /\ Begins(g, "unlist", k, NoDelivery, "created")
  /\ couriers' = [couriers EXCEPT ![k] = "offline"]
  /\ UNCHANGED <<parcelVars, nearby, stationVars>>

Unlist(g) ==
  /\ call[g].at = "unlist"
  /\ nearby' = nearby \ {call[g].courier}
  /\ Returns(g)
  /\ UNCHANGED <<parcelVars, couriers, stationVars, dispatch, boundVars>>

UpdateLocation(g, k) ==
  /\ couriers[k] = "online"
  /\ Begins(g, "list", k, NoDelivery, "created")
  /\ UNCHANGED <<parcelVars, courierVars, stationVars>>

\* The gRPC handler of UpdateDeliveryProgress first updates the location.
ReportProgress(g, k, d, report) ==
  /\ Exists(d) /\ couriers[k] # "none"
  /\ Begins(g, IF couriers[k] = "online" THEN "list" ELSE "check", k, d, report)
  /\ UNCHANGED <<parcelVars, courierVars, stationVars>>

AfterListing(g) ==
  IF call[g].delivery = NoDelivery THEN Returns(g) ELSE GoesTo(g, "check")

\* close: whether the position sent is within 5 km of the sender.
List(g, close) ==
  /\ call[g].at = "list"
  /\ nearby' = IF close THEN nearby \cup {call[g].courier}
                        ELSE nearby \ {call[g].courier}
  /\ AfterListing(g)
  /\ UNCHANGED <<parcelVars, couriers, stationVars, dispatch, boundVars>>

ListFails(g) ==
  /\ call[g].at = "list"
  /\ Fails("redis")
  /\ AfterListing(g)
  /\ UNCHANGED <<parcelVars, courierVars, stationVars, dispatch>>

\* Fault for mutation: anyone may report.
CheckReportOfAnyone(g) ==
  /\ call[g].at = "check"
  /\ GoesTo(g, "write")
  /\ UNCHANGED <<parcelVars, courierVars, stationVars, dispatch, boundVars>>

CheckReport(g) ==
  LET c == call[g] IN
  /\ c.at = "check"
  /\ IF delivery[c.delivery].courier = c.courier THEN GoesTo(g, "write") ELSE Returns(g)
  /\ UNCHANGED <<parcelVars, courierVars, stationVars, dispatch, boundVars>>

WriteReport(g) ==
  LET c == call[g] IN
  /\ c.at = "write"
  /\ SetStatus(c.delivery, c.report)
  /\ IF c.report = "delivered" THEN GoesTo(g, "credit") ELSE Returns(g)
  /\ UNCHANGED <<tasks, credits, courierVars, stationVars, dispatch, boundVars>>

CreditCourier(g) ==
  LET c == call[g] IN
  /\ c.at = "credit"
  /\ credits' = [credits EXCEPT ![c.courier][c.delivery] = @ + 1]
  /\ Returns(g)
  /\ UNCHANGED <<delivery, tasks, courierVars, stationVars, dispatch, boundVars>>

AcceptTask(g, k, d) ==
  /\ tasks[d][k] = "offered"
  /\ Begins(g, "accept", k, d, "created")
  /\ UNCHANGED <<parcelVars, courierVars, stationVars>>

ReadAccepted(g) ==
  LET c == call[g] IN
  /\ c.at = "accept"
  /\ IF delivery[c.delivery].status \in {"created", "assigned"}
       THEN GoesTo(g, "assign") ELSE Returns(g)
  /\ UNCHANGED <<parcelVars, courierVars, stationVars, dispatch, boundVars>>

CommitAccepted(g) ==
  LET c == call[g] IN
  /\ c.at = "assign"
  /\ AssignCarrier(c.delivery, "crowdsourced", c.courier)
  /\ tasks' = [tasks EXCEPT ![c.delivery][c.courier] = "accepted"]
  /\ Returns(g)
  /\ UNCHANGED <<credits, courierVars, stationVars, dispatch, boundVars>>

-----------------------------------------------------------------------------
(* Stations.                                                                *)

\* A second row for the delivery breaks a UNIQUE constraint: nothing is written.
CheckInPackage(s, d) ==
  /\ Exists(d)
  /\ package[d] = NoPackage
  /\ SetStatus(d, "arrived_at_station")
  /\ package' = [package EXCEPT ![d] = [station |-> s, out |-> FALSE]]
  /\ count' = [count EXCEPT ![s] = @ + 1]
  /\ UNCHANGED <<tasks, credits, courierVars, workVars, boundVars>>

CheckOutPackage(g, s, d) ==
  /\ package[d] = [station |-> s, out |-> FALSE]
  /\ Begins(g, "checkout", NoCourier, d, "created")
  /\ UNCHANGED <<parcelVars, courierVars, stationVars>>

\* Fault for mutation: CheckOutStationPackage without check_out_at IS NULL.
CommitCheckOutAgain(g) ==
  LET d == call[g].delivery IN
  /\ call[g].at = "checkout"
  /\ Returns(g)
  /\ SetStatus(d, "delivered")
  /\ package' = [package EXCEPT ![d].out = TRUE]
  /\ count' = [count EXCEPT ![package[d].station] = @ - 1]
  /\ UNCHANGED <<tasks, credits, courierVars, dispatch, boundVars>>

\* A package claimed since it was read: the UPDATE finds no row, and all is undone.
CommitCheckOut(g) ==
  LET d == call[g].delivery IN
  /\ call[g].at = "checkout"
  /\ Returns(g)
  /\ \/ /\ ~package[d].out
        /\ SetStatus(d, "delivered")
        /\ package' = [package EXCEPT ![d].out = TRUE]
        /\ count' = [count EXCEPT ![package[d].station] = @ - 1]
     \/ package[d].out /\ UNCHANGED <<delivery, stationVars>>
  /\ UNCHANGED <<tasks, credits, courierVars, dispatch, boundVars>>

-----------------------------------------------------------------------------
(* Faults.                                                                  *)

\* A statement fails or the client goes away: the call ends where it is.
CallFails(g) ==
  /\ call[g] # NoCall
  /\ Fails("call")
  /\ Returns(g)
  /\ UNCHANGED <<parcelVars, courierVars, stationVars, dispatch>>

\* The process dies, and with it all that goroutines had still to do.
Crash ==
  /\ Fails("crash")
  /\ dispatch' = [d \in Deliveries |-> Done]
  /\ call' = [g \in Callers |-> NoCall]
  /\ UNCHANGED <<parcelVars, courierVars, stationVars>>

-----------------------------------------------------------------------------

DispatchStep(d) ==
  \/ FindRiders(d)
  \/ \E k \in Couriers : OfferTask(d, k)
  \/ RegisterPartner(d)

CourierCalls(g, k) ==
  \/ GoOffline(g, k)
  \/ UpdateLocation(g, k)
  \/ \E d \in Deliveries, report \in Reports : ReportProgress(g, k, d, report)
  \/ \E d \in Deliveries : AcceptTask(g, k, d)

CallStep(g) ==
  \/ Unlist(g)
  \/ \E close \in BOOLEAN : List(g, close)
  \/ CheckReport(g)
  \/ WriteReport(g)
  \/ CreditCourier(g)
  \/ ReadAccepted(g)
  \/ CommitAccepted(g)
  \/ CommitCheckOut(g)

Fault ==
  \/ \E d \in Deliveries : FindFails(d)
  \/ \E d \in Deliveries, k \in Couriers : OfferFails(d, k)
  \/ \E d \in Deliveries : RegisterFails(d)
  \/ \E g \in Callers : ListFails(g)
  \/ \E g \in Callers : CallFails(g)
  \/ Crash

Next ==
  \/ \E d \in Deliveries, route \in {"crowdsourced", "3pl"} : CreateShipment(d, route)
  \/ \E d \in Deliveries : DispatchStep(d)
  \/ \E d \in Deliveries, status \in Reports : PartnerUpdate(d, status)
  \/ \E k \in Couriers : RegisterAsCourier(k) \/ GoOnline(k)
  \/ \E g \in Callers, k \in Couriers : CourierCalls(g, k)
  \/ \E g \in Callers : CallStep(g)
  \/ \E s \in Stations, d \in Deliveries : CheckInPackage(s, d)
  \/ \E g \in Callers, s \in Stations, d \in Deliveries : CheckOutPackage(g, s, d)
  \/ Fault

Spec == Init /\ [][Next]_vars

\* Goroutines that have been started run.
FairSpec == Spec /\ \A d \in Deliveries : WF_vars(DispatchStep(d))

-----------------------------------------------------------------------------
(* Safety.                                                                  *)

Unclaimed(s) == {d \in Deliveries : package[d] = [station |-> s, out |-> FALSE]}

\* The counter of a station is the number of packages that wait there, whatever
\* check-outs of one package run at a time and wherever they fail.
CountMatches == \A s \in Stations : count[s] = Cardinality(Unclaimed(s))

\* A parcel registered with a partner was offered to no courier, and never will
\* be: the fallback of the dispatch and its broadcast exclude each other.
OneCarrier ==
  \A d \in Deliveries :
    delivery[d].carrier = "3pl" => \A k \in Couriers : tasks[d][k] = "none"

\* The courier a parcel is assigned to has accepted its task, and no offer that
\* goes out late takes that back.
CourierAccepted ==
  \A d \in Deliveries, k \in Couriers :
    delivery[d].courier = k => tasks[d][k] = "accepted"

\* Wallets are credited for accepted deliveries only, even when the parcel goes
\* to another courier between a report's check and its credit.
PaidAccepted ==
  \A d \in Deliveries, k \in Couriers :
    credits[k][d] > 0 => tasks[d][k] = "accepted"

-----------------------------------------------------------------------------
(* Liveness.                                                                *)

Offered(d) == \E k \in Couriers : tasks[d][k] # "none"

\* Unless the process dies or a statement fails, a parcel that was created gets
\* a partner or is offered to a courier, also when no courier is near and when
\* Redis does not answer.
DispatchResolves ==
  \A d \in Deliveries :
    Exists(d) ~> \/ delivery[d].carrier # "none"
                 \/ Offered(d)
                 \/ faults \cap {"crash", "db"} # {}
=============================================================================
