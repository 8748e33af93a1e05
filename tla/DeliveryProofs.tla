---------------------------- MODULE DeliveryProofs ----------------------------
(***************************************************************************)
(* Proofs about DeliveryService, for any deliveries, couriers, stations,      *)
(* goroutines, reports, number of calls and kinds of fault.                  *)
(***************************************************************************)
EXTENDS DeliveryService, FiniteSetTheorems, TLAPS

-----------------------------------------------------------------------------
(* The two updates of a single field.                                       *)

DeliveryType == [Deliveries -> Row \cup {NoRow}]
CallType     == [Callers -> Call]
Stages == {"idle", "unlist", "list", "check", "write", "credit", "accept", "assign",
           "checkout"}

\* A new status leaves the type and the carrier of every parcel alone.
LEMMA SetStatusKeeps ==
  ASSUME delivery \in DeliveryType, NEW d \in Deliveries, NEW st \in DeliveryStatus,
         SetStatus(d, st)
  PROVE  /\ delivery' \in DeliveryType
         /\ \A e \in Deliveries : /\ delivery'[e].carrier = delivery[e].carrier
                                  /\ delivery'[e].courier = delivery[e].courier
         /\ \A e \in Deliveries : delivery[e] # NoRow => delivery'[e] # NoRow
<1>1. delivery[d] \in Row \cup {NoRow} /\ "absent" \notin DeliveryStatus
  BY DEF DeliveryType, DeliveryStatus
<1>2. [delivery[d] EXCEPT !.status = st] \in Row
  BY <1>1 DEF Row, NoRow
<1>3. /\ [delivery[d] EXCEPT !.status = st].carrier = delivery[d].carrier
      /\ [delivery[d] EXCEPT !.status = st].courier = delivery[d].courier
      /\ [delivery[d] EXCEPT !.status = st] # NoRow
  BY <1>1, <1>2 DEF Row, NoRow
<1>4. delivery' = [delivery EXCEPT ![d] = [delivery[d] EXCEPT !.status = st]]
  BY DEF SetStatus
<1> QED BY <1>2, <1>3, <1>4 DEF DeliveryType

\* A goroutine that goes on with its call keeps what the call is about.
LEMMA GoesToKeeps ==
  ASSUME call \in CallType, NEW g \in Callers, NEW stage \in Stages, GoesTo(g, stage)
  PROVE  /\ call' \in CallType
         /\ call'[g].at = stage
         /\ call'[g].courier = call[g].courier
         /\ call'[g].delivery = call[g].delivery
         /\ call'[g].report = call[g].report
         /\ \A h \in Callers : h # g => call'[h] = call[h]
<1>1. call[g] \in Call
  BY DEF CallType
<1>2. [call[g] EXCEPT !.at = stage] \in Call
  BY <1>1 DEF Call, Stages
<1>3. call' = [call EXCEPT ![g] = [call[g] EXCEPT !.at = stage]]
  BY DEF GoesTo
<1> QED BY <1>1, <1>2, <1>3 DEF CallType, Call

\* A goroutine that has answered is idle.
LEMMA ReturnsKeeps ==
  ASSUME call \in CallType, NEW g \in Callers, Returns(g)
  PROVE  /\ call' \in CallType
         /\ call'[g] = NoCall /\ call'[g].at = "idle"
         /\ \A h \in Callers : h # g => call'[h] = call[h]
BY DEF Returns, CallType, Call, NoCall, Working, DeliveryStatus

\* Taking up a call is about what it names.
LEMMA BeginsKeeps ==
  ASSUME call \in CallType, NEW g \in Callers, NEW stage \in Stages,
         NEW k \in Couriers \cup {NoCourier}, NEW d \in Deliveries \cup {NoDelivery},
         NEW r \in DeliveryStatus, Begins(g, stage, k, d, r)
  PROVE  /\ call' \in CallType
         /\ call'[g] = [at |-> stage, courier |-> k, delivery |-> d, report |-> r]
         /\ \A h \in Callers : h # g => call'[h] = call[h]
BY DEF Begins, CallType, Call, Working, Stages

-----------------------------------------------------------------------------
(* Types.                                                                   *)

\* What a call is about, at the stages that need to know.
CallShape(g) ==
  /\ call[g].at \in Stages \ {"idle", "checkout"} => call[g].courier \in Couriers
  /\ call[g].at \in {"check", "write", "credit", "accept", "assign", "checkout"}
       => call[g].delivery \in Deliveries

AllShaped == \A g \in Callers : CallShape(g)

\* Every step keeps the types.
LEMMA TypeStep == TypeOK /\ AllShaped /\ [Next]_vars => TypeOK'
<1> USE NilAssumption, ReportsAssumption, CallsAssumption
<1>1. SUFFICES ASSUME TypeOK, AllShaped, [Next]_vars PROVE TypeOK'
  OBVIOUS
<1>a. delivery \in DeliveryType /\ call \in CallType /\ "created" \in DeliveryStatus
      /\ \A g \in Callers : CallShape(g)
  BY <1>1 DEF TypeOK, DeliveryType, CallType, AllShaped, DeliveryStatus
<1>b. /\ (\A g \in Callers : Returns(g) => call' \in CallType)
      /\ (\A g \in Callers, stage \in Stages : GoesTo(g, stage) => call' \in CallType)
  BY <1>a, ReturnsKeeps, GoesToKeeps
<1>c. \A g \in Callers, stage \in Stages, k \in Couriers \cup {NoCourier},
         d \in Deliveries \cup {NoDelivery}, r \in DeliveryStatus :
        Begins(g, stage, k, d, r) => /\ call' \in CallType
                                     /\ started' \in 0..MaxCalls
                                     /\ UNCHANGED <<dispatch, faults>>
  <2>1. started \in 0..MaxCalls
    BY <1>1 DEF TypeOK
  <2>2. ASSUME NEW g \in Callers, NEW stage \in Stages, NEW k \in Couriers \cup {NoCourier},
               NEW d \in Deliveries \cup {NoDelivery}, NEW r \in DeliveryStatus,
               Begins(g, stage, k, d, r)
        PROVE  /\ call' \in CallType
               /\ started' \in 0..MaxCalls
               /\ UNCHANGED <<dispatch, faults>>
    <3>1. call' \in CallType
      BY <1>a, <2>2, BeginsKeeps
    <3>2. started < MaxCalls /\ started' = started + 1 /\ UNCHANGED <<dispatch, faults>>
      BY <2>2 DEF Begins
    <3> QED BY <2>1, <3>1, <3>2
  <2> QED BY <2>2
<1>d. \A d \in Deliveries, st \in DeliveryStatus :
        SetStatus(d, st) => delivery' \in DeliveryType
  BY <1>a, SetStatusKeeps
<1> USE DEF TypeOK, DeliveryType, CallType, parcelVars, courierVars, stationVars, workVars,
            boundVars
<1>2. ASSUME NEW d \in Deliveries, NEW route \in {"crowdsourced", "3pl"},
             CreateShipment(d, route)
      PROVE  TypeOK'
  BY <1>2, <1>1
  DEF CreateShipment, Row, NoRow, DeliveryStatus, Dispatch
<1>3. ASSUME NEW d \in Deliveries, FindRiders(d)
      PROVE  TypeOK'
  BY <1>3, <1>1
  DEF FindRiders, ToRiders, Dispatch
<1>4. ASSUME NEW d \in Deliveries, NEW k \in Couriers, OfferTask(d, k)
      PROVE  TypeOK'
  BY <1>4, <1>1
  DEF OfferTask, NextRider, Dispatch
<1>5. ASSUME NEW d \in Deliveries, RegisterPartner(d)
      PROVE  TypeOK'
  BY <1>5, <1>1
  DEF RegisterPartner, AssignCarrier, Row, DeliveryStatus, Dispatch, Done
<1>6. ASSUME NEW d \in Deliveries, NEW status \in Reports, PartnerUpdate(d, status)
      PROVE  TypeOK'
  BY <1>6, <1>1, <1>d
  DEF PartnerUpdate
<1>7. ASSUME NEW k \in Couriers, RegisterAsCourier(k)
      PROVE  TypeOK'
  BY <1>7, <1>1
  DEF RegisterAsCourier
<1>8. ASSUME NEW k \in Couriers, GoOnline(k)
      PROVE  TypeOK'
  BY <1>8, <1>1
  DEF GoOnline
<1>9. ASSUME NEW g \in Callers, NEW k \in Couriers, GoOffline(g, k)
      PROVE  TypeOK'
  BY <1>9, <1>1, <1>a, <1>c
  DEF GoOffline, Stages
<1>10. ASSUME NEW g \in Callers, NEW k \in Couriers, UpdateLocation(g, k)
      PROVE  TypeOK'
  BY <1>10, <1>1, <1>a, <1>c
  DEF UpdateLocation, Stages
<1>11. ASSUME NEW g \in Callers, NEW k \in Couriers, NEW d \in Deliveries,
             NEW report \in Reports, ReportProgress(g, k, d, report)
      PROVE  TypeOK'
  BY <1>11, <1>1, <1>a, <1>c
  DEF ReportProgress, Stages
<1>12. ASSUME NEW g \in Callers, NEW k \in Couriers, NEW d \in Deliveries, AcceptTask(g, k, d)
      PROVE  TypeOK'
  BY <1>12, <1>1, <1>a, <1>c
  DEF AcceptTask, Stages
<1>13. ASSUME NEW g \in Callers, Unlist(g)
      PROVE  TypeOK'
  BY <1>13, <1>1, <1>b
  DEF Unlist
<1>14. ASSUME NEW g \in Callers, NEW close \in BOOLEAN, List(g, close)
      PROVE  TypeOK'
  BY <1>14, <1>1, <1>a, <1>b
  DEF List, AfterListing, CallShape, Stages
<1>15. ASSUME NEW g \in Callers, CheckReport(g)
      PROVE  TypeOK'
  BY <1>15, <1>1, <1>b
  DEF CheckReport, Stages
<1>16. ASSUME NEW g \in Callers, WriteReport(g)
      PROVE  TypeOK'
  BY <1>16, <1>1, <1>a, <1>b, <1>d
  DEF WriteReport, CallShape, Stages, Call
<1>17. ASSUME NEW g \in Callers, CreditCourier(g)
      PROVE  TypeOK'
  BY <1>17, <1>1, <1>a, <1>b
  DEF CreditCourier, CallShape, Stages
<1>18. ASSUME NEW g \in Callers, ReadAccepted(g)
      PROVE  TypeOK'
  BY <1>18, <1>1, <1>b
  DEF ReadAccepted, Stages
<1>19. ASSUME NEW g \in Callers, CommitAccepted(g)
      PROVE  TypeOK'
  BY <1>19, <1>1, <1>a, <1>b
  DEF CommitAccepted, AssignCarrier, CallShape, Stages, Row, DeliveryStatus
<1>20. ASSUME NEW g \in Callers, CommitCheckOut(g)
      PROVE  TypeOK'
  <2>1. call[g].delivery \in Deliveries
    BY <1>20, <1>a DEF CommitCheckOut, CallShape
  <2>2. package' \in [Deliveries -> Package]
    <3>1. package[call[g].delivery] \in Package
      BY <1>1, <2>1 DEF TypeOK
    <3>2. [package[call[g].delivery] EXCEPT !.out = TRUE] \in Package
      BY <3>1 DEF Package
    <3>3. \/ package' = package
          \/ package' = [package EXCEPT ![call[g].delivery] =
                           [package[call[g].delivery] EXCEPT !.out = TRUE]]
      BY <1>20 DEF CommitCheckOut, stationVars
    <3> QED BY <1>1, <3>2, <3>3 DEF TypeOK
  <2>3. count' \in [Stations -> Int]
    BY <1>20, <1>1, <2>1 DEF CommitCheckOut, stationVars, TypeOK
  <2>4. delivery' \in DeliveryType
    BY <1>20, <1>a, <1>d, <2>1 DEF CommitCheckOut, stationVars, DeliveryStatus
  <2> QED
    BY <1>20, <1>1, <1>b, <2>2, <2>3, <2>4
    DEF CommitCheckOut, TypeOK, DeliveryType, CallType, courierVars, boundVars
<1>21. ASSUME NEW s \in Stations, NEW d \in Deliveries, CheckInPackage(s, d)
      PROVE  TypeOK'
  BY <1>21, <1>1, <1>d
  DEF CheckInPackage, Package, DeliveryStatus
<1>22. ASSUME NEW g \in Callers, NEW s \in Stations, NEW d \in Deliveries,
             CheckOutPackage(g, s, d)
      PROVE  TypeOK'
  BY <1>22, <1>1, <1>a, <1>c
  DEF CheckOutPackage, Stages
<1>23. ASSUME NEW d \in Deliveries, FindFails(d)
      PROVE  TypeOK'
  BY <1>23, <1>1
  DEF FindFails, Fails, ToRiders, Dispatch
<1>24. ASSUME NEW d \in Deliveries, NEW k \in Couriers, OfferFails(d, k)
      PROVE  TypeOK'
  BY <1>24, <1>1
  DEF OfferFails, Fails, NextRider, Dispatch
<1>25. ASSUME NEW d \in Deliveries, RegisterFails(d)
      PROVE  TypeOK'
  BY <1>25, <1>1
  DEF RegisterFails, Fails, Dispatch, Done
<1>26. ASSUME NEW g \in Callers, ListFails(g)
      PROVE  TypeOK'
  BY <1>26, <1>1, <1>b
  DEF ListFails, Fails, AfterListing, Stages
<1>27. ASSUME NEW g \in Callers, CallFails(g)
      PROVE  TypeOK'
  BY <1>27, <1>1, <1>b
  DEF CallFails, Fails
<1>28. ASSUME Crash
      PROVE  TypeOK'
  BY <1>28, <1>1
  DEF Crash, Fails, Dispatch, Done, Call, NoCall, Working, DeliveryStatus
<1>29. CASE UNCHANGED vars
  BY <1>1, <1>29 DEF vars
<1> QED
  BY <1>1, <1>2, <1>3, <1>4, <1>5, <1>6, <1>7, <1>8, <1>9, <1>10, <1>11, <1>12, <1>13,
     <1>14, <1>15, <1>16, <1>17, <1>18, <1>19, <1>20, <1>21, <1>22, <1>23, <1>24, <1>25,
     <1>26, <1>27, <1>28, <1>29
  DEF Next, DispatchStep, CourierCalls, CallStep, Fault

-----------------------------------------------------------------------------
(* The parcels.  OneCarrier alone is not inductive: it needs that a dispatch  *)
(* about to register a parcel has offered nothing, and that one that offers    *)
(* has no partner.  CourierAccepted and PaidAccepted need that an accepted     *)
(* task is never offered again, and that a call past its checks has the task    *)
(* it checked.                                                              *)

DispatchSound(d) ==
  /\ ~Exists(d) => dispatch[d].at = "done" /\ \A k \in Couriers : tasks[d][k] = "none"
  /\ dispatch[d].at \in {"find", "register"} => \A k \in Couriers : tasks[d][k] = "none"
  /\ dispatch[d].at = "offer" => \A k \in dispatch[d].riders : tasks[d][k] = "none"
  /\ delivery[d].carrier = "3pl" => dispatch[d].at = "done"

ParcelInv ==
  /\ \A d \in Deliveries : DispatchSound(d)
  /\ OneCarrier
  /\ CourierAccepted
  /\ PaidAccepted

CallSound(g) ==
  LET task == tasks[call[g].delivery][call[g].courier] IN
  /\ call[g].at \in {"accept", "assign"} => task # "none"
  /\ call[g].at \in {"write", "credit"} => task = "accepted"
  /\ call[g].at = "checkout" => package[call[g].delivery].station \in Stations

AllSound == \A g \in Callers : CallSound(g)

\* A package at a station is a parcel's, and only such a package is handed out.
PackageSound(d) ==
  /\ package[d].station # NoStation => Exists(d)
  /\ package[d].out => package[d].station # NoStation

StationInv == (\A d \in Deliveries : PackageSound(d)) /\ CountMatches

\* An offer is never taken back, an acceptance never undone, a parcel never lost.
TasksKept ==
  /\ \A d \in Deliveries : Exists(d) => Exists(d)'
  /\ \A d \in Deliveries, k \in Couriers :
       /\ tasks[d][k] # "none" => tasks'[d][k] # "none"
       /\ tasks[d][k] = "accepted" => tasks'[d][k] = "accepted"

IInv == TypeOK /\ AllShaped /\ AllSound /\ ParcelInv /\ StationInv

\* Every step keeps what is known of the parcels.
LEMMA ParcelStep == IInv /\ [Next]_vars => ParcelInv' /\ TasksKept
<1> USE NilAssumption, ReportsAssumption
<1>1. SUFFICES ASSUME IInv, [Next]_vars PROVE ParcelInv' /\ TasksKept
  OBVIOUS
<1>a. /\ delivery \in DeliveryType /\ call \in CallType /\ TypeOK
      /\ \A g \in Callers : CallShape(g) /\ CallSound(g)
      /\ \A d \in Deliveries : DispatchSound(d)
      /\ OneCarrier /\ CourierAccepted /\ PaidAccepted
      /\ \A d \in Deliveries : PackageSound(d)
  BY <1>1 DEF IInv, ParcelInv, StationInv, AllShaped, AllSound, TypeOK, DeliveryType,
     CallType
<1>b. ASSUME UNCHANGED <<delivery, tasks, credits, dispatch>>
      PROVE  ParcelInv' /\ TasksKept
  BY <1>a, <1>b DEF ParcelInv, TasksKept, DispatchSound, Exists, OneCarrier,
     CourierAccepted, PaidAccepted
<1>c. ASSUME NEW d \in Deliveries, NEW st \in DeliveryStatus, Exists(d), SetStatus(d, st),
             UNCHANGED <<tasks, credits, dispatch>>
      PROVE  ParcelInv' /\ TasksKept
  <2>1. \A e \in Deliveries : /\ delivery'[e].carrier = delivery[e].carrier
                              /\ delivery'[e].courier = delivery[e].courier
                              /\ Exists(e) => Exists(e)'
    BY <1>a, <1>c, SetStatusKeeps DEF Exists
  <2> QED
    BY <1>a, <1>c, <2>1 DEF Exists, ParcelInv, TasksKept, DispatchSound, OneCarrier,
       CourierAccepted, PaidAccepted
<1> USE DEF ParcelInv, TasksKept, DispatchSound, Exists, OneCarrier, CourierAccepted,
            PaidAccepted
<1>2. ASSUME NEW d \in Deliveries, NEW route \in {"crowdsourced", "3pl"},
             CreateShipment(d, route)
      PROVE  ParcelInv' /\ TasksKept
  BY <1>2, <1>a
  DEF CreateShipment, NoRow, TypeOK
<1>3. ASSUME NEW d \in Deliveries, FindRiders(d)
      PROVE  ParcelInv' /\ TasksKept
  BY <1>3, <1>a
  DEF FindRiders, ToRiders, TypeOK, parcelVars
<1>4. ASSUME NEW d \in Deliveries, NEW k \in Couriers, OfferTask(d, k)
      PROVE  ParcelInv' /\ TasksKept
  BY <1>4, <1>a
  DEF OfferTask, NextRider, TypeOK, Dispatch
<1>5. ASSUME NEW d \in Deliveries, RegisterPartner(d)
      PROVE  ParcelInv' /\ TasksKept
  BY <1>5, <1>a
  DEF RegisterPartner, AssignCarrier, Done, TypeOK, NoRow
<1>6. ASSUME NEW d \in Deliveries, NEW status \in Reports, PartnerUpdate(d, status)
      PROVE  ParcelInv' /\ TasksKept
  BY <1>6, <1>c DEF PartnerUpdate, workVars
<1>7. ASSUME NEW k \in Couriers, RegisterAsCourier(k)
      PROVE  ParcelInv' /\ TasksKept
  BY <1>7, <1>b DEF RegisterAsCourier, parcelVars, workVars
<1>8. ASSUME NEW k \in Couriers, GoOnline(k)
      PROVE  ParcelInv' /\ TasksKept
  BY <1>8, <1>b DEF GoOnline, parcelVars, workVars
<1>9. ASSUME NEW g \in Callers, NEW k \in Couriers, GoOffline(g, k)
      PROVE  ParcelInv' /\ TasksKept
  BY <1>9, <1>b DEF GoOffline, Begins, parcelVars, workVars
<1>10. ASSUME NEW g \in Callers, NEW k \in Couriers, UpdateLocation(g, k)
      PROVE  ParcelInv' /\ TasksKept
  BY <1>10, <1>b DEF UpdateLocation, Begins, parcelVars, workVars
<1>11. ASSUME NEW g \in Callers, NEW k \in Couriers, NEW d \in Deliveries,
             NEW report \in Reports, ReportProgress(g, k, d, report)
      PROVE  ParcelInv' /\ TasksKept
  BY <1>11, <1>b DEF ReportProgress, Begins, parcelVars, workVars
<1>12. ASSUME NEW g \in Callers, NEW k \in Couriers, NEW d \in Deliveries, AcceptTask(g, k, d)
      PROVE  ParcelInv' /\ TasksKept
  BY <1>12, <1>b DEF AcceptTask, Begins, parcelVars, workVars
<1>13. ASSUME NEW g \in Callers, Unlist(g)
      PROVE  ParcelInv' /\ TasksKept
  BY <1>13, <1>b DEF Unlist, parcelVars, workVars
<1>14. ASSUME NEW g \in Callers, NEW close \in BOOLEAN, List(g, close)
      PROVE  ParcelInv' /\ TasksKept
  BY <1>14, <1>b DEF List, parcelVars, workVars
<1>15. ASSUME NEW g \in Callers, CheckReport(g)
      PROVE  ParcelInv' /\ TasksKept
  BY <1>15, <1>b DEF CheckReport, parcelVars, workVars
<1>16. ASSUME NEW g \in Callers, WriteReport(g)
      PROVE  ParcelInv' /\ TasksKept
  <2>1. /\ call[g].delivery \in Deliveries /\ call[g].courier \in Couriers
        /\ call[g].report \in DeliveryStatus
    BY <1>16, <1>a DEF WriteReport, CallShape, Stages, TypeOK, Call
  <2>2. Exists(call[g].delivery)
    BY <1>16, <1>a, <2>1 DEF WriteReport, CallSound, DispatchSound
  <2> QED BY <1>16, <1>c, <2>1, <2>2 DEF WriteReport
<1>17. ASSUME NEW g \in Callers, CreditCourier(g)
      PROVE  ParcelInv' /\ TasksKept
  BY <1>17, <1>a
  DEF CreditCourier, CallShape, CallSound, TypeOK, Stages
<1>18. ASSUME NEW g \in Callers, ReadAccepted(g)
      PROVE  ParcelInv' /\ TasksKept
  BY <1>18, <1>b DEF ReadAccepted, parcelVars, workVars
<1>19. ASSUME NEW g \in Callers, CommitAccepted(g)
      PROVE  ParcelInv' /\ TasksKept
  BY <1>19, <1>a
  DEF CommitAccepted, AssignCarrier, CallShape, CallSound, TypeOK, Stages, NoRow
<1>20. ASSUME NEW g \in Callers, CommitCheckOut(g)
      PROVE  ParcelInv' /\ TasksKept
  <2>1. call[g].delivery \in Deliveries /\ Exists(call[g].delivery)
    BY <1>20, <1>a DEF CommitCheckOut, CallShape, CallSound, PackageSound
  <2> QED BY <1>20, <1>b, <1>c, <2>1 DEF CommitCheckOut, DeliveryStatus
<1>21. ASSUME NEW s \in Stations, NEW d \in Deliveries, CheckInPackage(s, d)
      PROVE  ParcelInv' /\ TasksKept
  BY <1>21, <1>c DEF CheckInPackage, workVars, DeliveryStatus
<1>22. ASSUME NEW g \in Callers, NEW s \in Stations, NEW d \in Deliveries,
             CheckOutPackage(g, s, d)
      PROVE  ParcelInv' /\ TasksKept
  BY <1>22, <1>b DEF CheckOutPackage, Begins, parcelVars, workVars
<1>23. ASSUME NEW d \in Deliveries, FindFails(d)
      PROVE  ParcelInv' /\ TasksKept
  BY <1>23, <1>a
  DEF FindFails, ToRiders, TypeOK, parcelVars
<1>24. ASSUME NEW d \in Deliveries, NEW k \in Couriers, OfferFails(d, k)
      PROVE  ParcelInv' /\ TasksKept
  BY <1>24, <1>a
  DEF OfferFails, NextRider, TypeOK, Dispatch, parcelVars
<1>25. ASSUME NEW d \in Deliveries, RegisterFails(d)
      PROVE  ParcelInv' /\ TasksKept
  BY <1>25, <1>a
  DEF RegisterFails, Done, TypeOK, parcelVars
<1>26. ASSUME NEW g \in Callers, ListFails(g)
      PROVE  ParcelInv' /\ TasksKept
  BY <1>26, <1>b DEF ListFails, parcelVars, workVars
<1>27. ASSUME NEW g \in Callers, CallFails(g)
      PROVE  ParcelInv' /\ TasksKept
  BY <1>27, <1>b DEF CallFails, parcelVars, workVars
<1>28. ASSUME Crash
      PROVE  ParcelInv' /\ TasksKept
  BY <1>28, <1>a
  DEF Crash, Done, parcelVars
<1>29. CASE UNCHANGED vars
  BY <1>29, <1>b DEF vars, parcelVars, workVars
<1> QED
  BY <1>1, <1>2, <1>3, <1>4, <1>5, <1>6, <1>7, <1>8, <1>9, <1>10, <1>11, <1>12, <1>13,
     <1>14, <1>15, <1>16, <1>17, <1>18, <1>19, <1>20, <1>21, <1>22, <1>23, <1>24, <1>25,
     <1>26, <1>27, <1>28, <1>29
  DEF Next, DispatchStep, CourierCalls, CallStep, Fault

-----------------------------------------------------------------------------
(* The stations.                                                            *)

\* The packages that wait at a station are finitely many.
LEMMA UnclaimedFinite ==
  \A s \in Stations : IsFiniteSet(Unclaimed(s)) /\ Cardinality(Unclaimed(s)) \in Nat
<1> SUFFICES ASSUME NEW s \in Stations
             PROVE  IsFiniteSet(Unclaimed(s)) /\ Cardinality(Unclaimed(s)) \in Nat
  OBVIOUS
<1>1. Unclaimed(s) \in SUBSET Deliveries
  BY DEF Unclaimed
<1>2. IsFiniteSet(Unclaimed(s))
  BY <1>1, FiniteAssumption, FS_Subset
<1> QED BY <1>2, FS_CardinalityType

\* A station knows what it holds: a row once written stays at its station.
PackagesKept ==
  \A d \in Deliveries :
    package[d].station # NoStation => package'[d].station = package[d].station

\* Every step keeps the counters equal to what the stations hold.
LEMMA StationStep == IInv /\ [Next]_vars => StationInv' /\ PackagesKept
<1> USE NilAssumption
<1>1. SUFFICES ASSUME IInv, [Next]_vars PROVE StationInv' /\ PackagesKept
  OBVIOUS
<1>a. /\ TypeOK /\ package \in [Deliveries -> Package] /\ count \in [Stations -> Int]
      /\ \A d \in Deliveries : PackageSound(d)
      /\ \A s \in Stations : count[s] = Cardinality(Unclaimed(s))
      /\ \A g \in Callers : CallShape(g) /\ CallSound(g)
  BY <1>1 DEF IInv, StationInv, CountMatches, TypeOK, AllShaped, AllSound
<1>b. \A d \in Deliveries : Exists(d) => Exists(d)'
  BY <1>1, ParcelStep DEF TasksKept
<1>2. \/ UNCHANGED stationVars
      \/ \E s \in Stations, d \in Deliveries : CheckInPackage(s, d)
      \/ \E g \in Callers : CommitCheckOut(g)
  BY <1>1
  DEF Next, DispatchStep, CourierCalls, CallStep, Fault, vars,
      CreateShipment, FindRiders, OfferTask, RegisterPartner, PartnerUpdate,
      RegisterAsCourier, GoOnline, GoOffline, UpdateLocation, ReportProgress,
      AcceptTask, Unlist, List, CheckReport, WriteReport, CreditCourier, ReadAccepted,
      CommitAccepted, CheckOutPackage, FindFails, OfferFails, RegisterFails, ListFails,
      CallFails, Crash, ToRiders
<1>3. CASE UNCHANGED stationVars
  BY <1>3, <1>a, <1>b
  DEF stationVars, StationInv, PackagesKept, PackageSound, CountMatches, Unclaimed
<1>4. ASSUME NEW s \in Stations, NEW d \in Deliveries, CheckInPackage(s, d)
      PROVE  StationInv' /\ PackagesKept
  <2>1. /\ package[d] = NoPackage
        /\ package' = [package EXCEPT ![d] = [station |-> s, out |-> FALSE]]
        /\ count' = [count EXCEPT ![s] = @ + 1]
        /\ Exists(d)
    BY <1>4 DEF CheckInPackage
  <2>2. Unclaimed(s)' = Unclaimed(s) \cup {d} /\ d \notin Unclaimed(s)
    BY <1>a, <2>1 DEF Unclaimed, NoPackage
  <2>3. \A t \in Stations : t # s => Unclaimed(t)' = Unclaimed(t)
    BY <1>a, <2>1 DEF Unclaimed, NoPackage
  <2>4. CountMatches'
    <3>1. Cardinality(Unclaimed(s)') = Cardinality(Unclaimed(s)) + 1
      BY <2>2, UnclaimedFinite, FS_AddElement
    <3> QED BY <1>a, <2>1, <2>3, <3>1 DEF CountMatches
  <2>5. (\A e \in Deliveries : PackageSound(e)') /\ PackagesKept
    BY <1>a, <1>b, <2>1 DEF PackageSound, PackagesKept, NoPackage
  <2> QED BY <2>4, <2>5 DEF StationInv
<1>5. ASSUME NEW g \in Callers, CommitCheckOut(g)
      PROVE  StationInv' /\ PackagesKept
  <2>0. PICK d \in Deliveries, s \in Stations :
          d = call[g].delivery /\ s = package[d].station
    BY <1>a, <1>5 DEF CommitCheckOut, CallShape, CallSound
  <2>1. package[d] \in Package
    BY <1>a
  <2>2. CASE package[d].out /\ UNCHANGED stationVars
    BY <1>3, <2>2
  <2>3. CASE /\ ~package[d].out
             /\ package' = [package EXCEPT ![d].out = TRUE]
             /\ count' = [count EXCEPT ![s] = @ - 1]
    <3>1. package[d] = [station |-> s, out |-> FALSE]
      BY <2>0, <2>1, <2>3 DEF Package
    <3>2. /\ package'[d].station = s /\ package'[d].out = TRUE
          /\ \A e \in Deliveries : e # d => package'[e] = package[e]
      <4>1. package'[d] = [package[d] EXCEPT !.out = TRUE]
        BY <1>a, <2>3
      <4>2. /\ [package[d] EXCEPT !.out = TRUE].station = package[d].station
            /\ [package[d] EXCEPT !.out = TRUE].out = TRUE
        BY <2>1 DEF Package
      <4>3. \A e \in Deliveries : e # d => package'[e] = package[e]
        BY <1>a, <2>3
      <4> QED BY <2>0, <4>1, <4>2, <4>3
    <3>3. Unclaimed(s)' = Unclaimed(s) \ {d} /\ d \in Unclaimed(s)
      BY <1>a, <2>1, <3>1, <3>2 DEF Unclaimed
    <3>4. \A t \in Stations : t # s => Unclaimed(t)' = Unclaimed(t)
      BY <1>a, <2>1, <3>1, <3>2 DEF Unclaimed
    <3>5. CountMatches'
      <4>1. Cardinality(Unclaimed(s)') = Cardinality(Unclaimed(s)) - 1
        BY <2>1, <3>3, UnclaimedFinite, FS_RemoveElement
      <4>2. count'[s] = count[s] - 1 /\ \A t \in Stations : t # s => count'[t] = count[t]
        BY <1>a, <2>3
      <4> QED BY <1>a, <2>1, <3>4, <4>1, <4>2 DEF CountMatches
    <3>6. (\A e \in Deliveries : PackageSound(e)') /\ PackagesKept
      BY <1>a, <1>b, <2>1, <3>1, <3>2 DEF PackageSound, PackagesKept
    <3> QED BY <3>5, <3>6 DEF StationInv
  <2> QED BY <1>5, <2>0, <2>2, <2>3 DEF CommitCheckOut
<1> QED BY <1>2, <1>3, <1>4, <1>5

-----------------------------------------------------------------------------
(* The calls.                                                               *)

CallInv == AllShaped /\ AllSound

\* Every step keeps what a call has checked true until it is acted on.
LEMMA CallsStep == IInv /\ [Next]_vars => CallInv'
<1> USE NilAssumption, ReportsAssumption
<1>1. SUFFICES ASSUME IInv, [Next]_vars PROVE CallInv'
  OBVIOUS
<1>a. /\ call \in CallType /\ TypeOK /\ "created" \in DeliveryStatus
      /\ \A g \in Callers : CallShape(g) /\ CallSound(g)
      /\ CourierAccepted
      /\ \A d \in Deliveries : PackageSound(d)
  BY <1>1 DEF IInv, ParcelInv, StationInv, AllShaped, AllSound, TypeOK, CallType,
     DeliveryStatus
<1>b. TasksKept /\ PackagesKept
  BY <1>1, ParcelStep, StationStep
<1>c. ASSUME NEW h \in Callers, call'[h] = call[h]
      PROVE  CallShape(h)' /\ CallSound(h)'
  <2>1. CallShape(h)' /\ CallShape(h) /\ CallSound(h)
    BY <1>a, <1>c DEF CallShape
  <2> QED
    BY <1>b, <1>c, <2>1 DEF CallShape, CallSound, TasksKept, PackagesKept, Stages
<1>d. ASSUME UNCHANGED call
      PROVE  CallInv'
  BY <1>c, <1>d DEF CallInv, AllShaped, AllSound
<1>e. ASSUME NEW g \in Callers, Returns(g)
      PROVE  CallInv'
  <2>1. CallShape(g)' /\ CallSound(g)'
    BY <1>a, <1>e, ReturnsKeeps DEF CallShape, CallSound
  <2> QED BY <1>a, <1>c, <1>e, <2>1, ReturnsKeeps DEF CallInv, AllShaped, AllSound
<1>f. ASSUME NEW g \in Callers, NEW stage \in Stages, GoesTo(g, stage),
             CallShape(g)', CallSound(g)'
      PROVE  CallInv'
  BY <1>a, <1>c, <1>f, GoesToKeeps DEF CallInv, AllShaped, AllSound
<1>g. ASSUME NEW g \in Callers, NEW stage \in Stages,
             NEW k \in Couriers \cup {NoCourier}, NEW d \in Deliveries \cup {NoDelivery},
             NEW r \in DeliveryStatus, Begins(g, stage, k, d, r),
             CallShape(g)', CallSound(g)'
      PROVE  CallInv'
  BY <1>a, <1>c, <1>g, BeginsKeeps DEF CallInv, AllShaped, AllSound
<1>2. ASSUME NEW d \in Deliveries, NEW route \in {"crowdsourced", "3pl"},
             CreateShipment(d, route)
      PROVE  CallInv'
  BY <1>2, <1>d DEF CreateShipment
<1>3. ASSUME NEW d \in Deliveries, FindRiders(d)
      PROVE  CallInv'
  BY <1>3, <1>d DEF FindRiders, ToRiders
<1>4. ASSUME NEW d \in Deliveries, NEW k \in Couriers, OfferTask(d, k)
      PROVE  CallInv'
  BY <1>4, <1>d DEF OfferTask
<1>5. ASSUME NEW d \in Deliveries, RegisterPartner(d)
      PROVE  CallInv'
  BY <1>5, <1>d DEF RegisterPartner
<1>6. ASSUME NEW d \in Deliveries, NEW status \in Reports, PartnerUpdate(d, status)
      PROVE  CallInv'
  BY <1>6, <1>d DEF PartnerUpdate, workVars
<1>7. ASSUME NEW k \in Couriers, RegisterAsCourier(k)
      PROVE  CallInv'
  BY <1>7, <1>d DEF RegisterAsCourier, workVars
<1>8. ASSUME NEW k \in Couriers, GoOnline(k)
      PROVE  CallInv'
  BY <1>8, <1>d DEF GoOnline, workVars
<1>9. ASSUME NEW g \in Callers, NEW k \in Couriers, GoOffline(g, k)
      PROVE  CallInv'
  <2>1. Begins(g, "unlist", k, NoDelivery, "created")
    BY <1>9 DEF GoOffline
  <2>2. call'[g] = [at |-> "unlist", courier |-> k, delivery |-> NoDelivery, report |-> "created"]
    BY <1>a, <2>1, BeginsKeeps DEF Stages
  <2>3. CallShape(g)' /\ CallSound(g)'
    BY <2>2 DEF CallShape, CallSound, Stages
  <2> QED BY <1>a, <1>g, <2>1, <2>3 DEF Stages
<1>10. ASSUME NEW g \in Callers, NEW k \in Couriers, UpdateLocation(g, k)
      PROVE  CallInv'
  <2>1. Begins(g, "list", k, NoDelivery, "created")
    BY <1>10 DEF UpdateLocation
  <2>2. call'[g] = [at |-> "list", courier |-> k, delivery |-> NoDelivery, report |-> "created"]
    BY <1>a, <2>1, BeginsKeeps DEF Stages
  <2>3. CallShape(g)' /\ CallSound(g)'
    BY <2>2 DEF CallShape, CallSound, Stages
  <2> QED BY <1>a, <1>g, <2>1, <2>3 DEF Stages
<1>11. ASSUME NEW g \in Callers, NEW k \in Couriers, NEW d \in Deliveries,
             NEW report \in Reports, ReportProgress(g, k, d, report)
      PROVE  CallInv'
  <2>1. Begins(g, IF couriers[k] = "online" THEN "list" ELSE "check", k, d, report)
    BY <1>11 DEF ReportProgress
  <2>2. call'[g] = [at |-> IF couriers[k] = "online" THEN "list" ELSE "check",
                    courier |-> k, delivery |-> d, report |-> report]
    BY <1>a, <2>1, BeginsKeeps DEF Stages
  <2>3. CallShape(g)' /\ CallSound(g)'
    BY <2>2 DEF CallShape, CallSound, Stages
  <2> QED BY <1>a, <1>g, <2>1, <2>3 DEF Stages
<1>12. ASSUME NEW g \in Callers, NEW k \in Couriers, NEW d \in Deliveries, AcceptTask(g, k, d)
      PROVE  CallInv'
  <2>1. Begins(g, "accept", k, d, "created")
    BY <1>12 DEF AcceptTask
  <2>2. call'[g] = [at |-> "accept", courier |-> k, delivery |-> d, report |-> "created"]
    BY <1>a, <2>1, BeginsKeeps DEF Stages
  <2>3. CallShape(g)' /\ CallSound(g)'
    BY <1>12, <1>b, <2>2 DEF AcceptTask, TasksKept, CallShape, CallSound, Stages
  <2> QED BY <1>a, <1>g, <2>1, <2>3 DEF Stages
<1>13. ASSUME NEW g \in Callers, Unlist(g)
      PROVE  CallInv'
  BY <1>13, <1>e DEF Unlist
<1>14. ASSUME NEW g \in Callers, NEW close \in BOOLEAN, List(g, close)
      PROVE  CallInv'
  <2>1. CASE Returns(g)
    BY <1>e, <2>1
  <2>2. CASE GoesTo(g, "check") /\ call[g].delivery # NoDelivery
    <3>1. /\ call'[g].at = "check" /\ call'[g].courier = call[g].courier
          /\ call'[g].delivery = call[g].delivery
      BY <1>a, <2>2, GoesToKeeps DEF Stages
    <3>2. CallShape(g)' /\ CallSound(g)'
      BY <1>14, <1>a, <1>b, <2>2, <3>1 DEF List, AfterListing, TypeOK, Call, CallShape,
         CallSound, TasksKept, Stages
    <3> QED BY <1>f, <2>2, <3>2 DEF Stages
  <2> QED BY <1>14, <2>1, <2>2 DEF List, AfterListing
<1>15. ASSUME NEW g \in Callers, CheckReport(g)
      PROVE  CallInv'
  <2>1. CASE Returns(g)
    BY <1>e, <2>1
  <2>2. CASE GoesTo(g, "write") /\ delivery[call[g].delivery].courier = call[g].courier
    <3>1. /\ call'[g].at = "write" /\ call'[g].courier = call[g].courier
          /\ call'[g].delivery = call[g].delivery
      BY <1>a, <2>2, GoesToKeeps DEF Stages
    <3>2. CallShape(g)' /\ CallSound(g)'
      BY <1>15, <1>a, <1>b, <2>2, <3>1 DEF CheckReport, CourierAccepted, CallShape,
         CallSound, TasksKept, Stages
    <3> QED BY <1>f, <2>2, <3>2 DEF Stages
  <2> QED BY <1>15, <2>1, <2>2 DEF CheckReport
<1>16. ASSUME NEW g \in Callers, WriteReport(g)
      PROVE  CallInv'
  <2>1. CASE Returns(g)
    BY <1>e, <2>1
  <2>2. CASE GoesTo(g, "credit")
    <3>1. /\ call'[g].at = "credit" /\ call'[g].courier = call[g].courier
          /\ call'[g].delivery = call[g].delivery
      BY <1>a, <2>2, GoesToKeeps DEF Stages
    <3>2. CallShape(g)' /\ CallSound(g)'
      BY <1>16, <1>a, <1>b, <2>2, <3>1 DEF WriteReport, CallShape, CallSound, TasksKept,
         Stages
    <3> QED BY <1>f, <2>2, <3>2 DEF Stages
  <2> QED BY <1>16, <2>1, <2>2 DEF WriteReport
<1>17. ASSUME NEW g \in Callers, CreditCourier(g)
      PROVE  CallInv'
  BY <1>17, <1>e DEF CreditCourier
<1>18. ASSUME NEW g \in Callers, ReadAccepted(g)
      PROVE  CallInv'
  <2>1. CASE Returns(g)
    BY <1>e, <2>1
  <2>2. CASE GoesTo(g, "assign")
    <3>1. /\ call'[g].at = "assign" /\ call'[g].courier = call[g].courier
          /\ call'[g].delivery = call[g].delivery
      BY <1>a, <2>2, GoesToKeeps DEF Stages
    <3>2. CallShape(g)' /\ CallSound(g)'
      BY <1>18, <1>a, <1>b, <2>2, <3>1 DEF ReadAccepted, CallShape, CallSound, TasksKept,
         Stages
    <3> QED BY <1>f, <2>2, <3>2 DEF Stages
  <2> QED BY <1>18, <2>1, <2>2 DEF ReadAccepted
<1>19. ASSUME NEW g \in Callers, CommitAccepted(g)
      PROVE  CallInv'
  BY <1>19, <1>e DEF CommitAccepted
<1>20. ASSUME NEW g \in Callers, CommitCheckOut(g)
      PROVE  CallInv'
  BY <1>20, <1>e DEF CommitCheckOut
<1>21. ASSUME NEW s \in Stations, NEW d \in Deliveries, CheckInPackage(s, d)
      PROVE  CallInv'
  BY <1>21, <1>d DEF CheckInPackage, workVars
<1>22. ASSUME NEW g \in Callers, NEW s \in Stations, NEW d \in Deliveries,
             CheckOutPackage(g, s, d)
      PROVE  CallInv'
  <2>1. Begins(g, "checkout", NoCourier, d, "created")
    BY <1>22 DEF CheckOutPackage
  <2>2. call'[g] = [at |-> "checkout", courier |-> NoCourier, delivery |-> d, report |-> "created"]
    BY <1>a, <2>1, BeginsKeeps DEF Stages
  <2>3. CallShape(g)' /\ CallSound(g)'
    BY <1>22, <1>a, <1>b, <2>2 DEF CheckOutPackage, PackagesKept, CallShape, CallSound,
       Stages
  <2> QED BY <1>a, <1>g, <2>1, <2>3 DEF Stages
<1>23. ASSUME NEW d \in Deliveries, FindFails(d)
      PROVE  CallInv'
  BY <1>23, <1>d DEF FindFails, ToRiders
<1>24. ASSUME NEW d \in Deliveries, NEW k \in Couriers, OfferFails(d, k)
      PROVE  CallInv'
  BY <1>24, <1>d DEF OfferFails
<1>25. ASSUME NEW d \in Deliveries, RegisterFails(d)
      PROVE  CallInv'
  BY <1>25, <1>d DEF RegisterFails
<1>26. ASSUME NEW g \in Callers, ListFails(g)
      PROVE  CallInv'
  <2>1. CASE Returns(g)
    BY <1>e, <2>1
  <2>2. CASE GoesTo(g, "check") /\ call[g].delivery # NoDelivery
    <3>1. /\ call'[g].at = "check" /\ call'[g].courier = call[g].courier
          /\ call'[g].delivery = call[g].delivery
      BY <1>a, <2>2, GoesToKeeps DEF Stages
    <3>2. CallShape(g)' /\ CallSound(g)'
      BY <1>26, <1>a, <1>b, <2>2, <3>1 DEF ListFails, AfterListing, TypeOK, Call,
         CallShape, CallSound, TasksKept, Stages
    <3> QED BY <1>f, <2>2, <3>2 DEF Stages
  <2> QED BY <1>26, <2>1, <2>2 DEF ListFails, AfterListing
<1>27. ASSUME NEW g \in Callers, CallFails(g)
      PROVE  CallInv'
  BY <1>27, <1>e DEF CallFails
<1>28. ASSUME Crash
      PROVE  CallInv'
  <2>1. \A h \in Callers : call'[h].at = "idle"
    BY <1>28 DEF Crash, NoCall, Working
  <2> QED BY <2>1 DEF CallInv, AllShaped, AllSound, CallShape, CallSound, Stages
<1>29. CASE UNCHANGED vars
  BY <1>29, <1>d DEF vars, workVars
<1> QED
  BY <1>1, <1>2, <1>3, <1>4, <1>5, <1>6, <1>7, <1>8, <1>9, <1>10, <1>11, <1>12, <1>13,
     <1>14, <1>15, <1>16, <1>17, <1>18, <1>19, <1>20, <1>21, <1>22, <1>23, <1>24, <1>25,
     <1>26, <1>27, <1>28, <1>29
  DEF Next, DispatchStep, CourierCalls, CallStep, Fault

-----------------------------------------------------------------------------
(* The theorems.                                                            *)

\* The invariant holds at the start.
LEMMA InitInv == Init => IInv
<1> USE NilAssumption, CallsAssumption
<1>1. SUFFICES ASSUME Init PROVE IInv
  OBVIOUS
<1>2. TypeOK
  BY <1>1 DEF Init, TypeOK, Row, NoRow, Package, NoPackage, Dispatch, Done, Call, NoCall,
     Working, DeliveryStatus
<1>3. AllShaped /\ AllSound
  BY <1>1 DEF Init, NoCall, Working, AllShaped, AllSound, CallShape, CallSound, Stages
<1>4. ParcelInv
  BY <1>1 DEF Init, NoRow, Done, ParcelInv, DispatchSound, Exists, OneCarrier,
     CourierAccepted, PaidAccepted
<1>5. \A d \in Deliveries : PackageSound(d)
  BY <1>1 DEF Init, NoPackage, PackageSound
<1>6. \A s \in Stations : Unclaimed(s) = {}
  BY <1>1 DEF Init, NoPackage, Unclaimed
<1>7. CountMatches
  BY <1>1, <1>6, FS_EmptySet DEF Init, CountMatches
<1> QED BY <1>2, <1>3, <1>4, <1>5, <1>7 DEF IInv, StationInv

\* ... and every step keeps it.
LEMMA NextInv == IInv /\ [Next]_vars => IInv'
<1> SUFFICES ASSUME IInv, [Next]_vars PROVE IInv'
  OBVIOUS
<1>1. TypeOK'
  BY TypeStep DEF IInv
<1>2. ParcelInv' /\ StationInv' /\ CallInv'
  BY ParcelStep, StationStep, CallsStep
<1> QED BY <1>1, <1>2 DEF IInv, CallInv

\* The inductive invariant holds throughout.
THEOREM InvHolds == Spec => []IInv
<1>1. Init => IInv
  BY InitInv
<1>2. IInv /\ [Next]_vars => IInv'
  BY NextInv
<1> QED BY <1>1, <1>2, PTL DEF Spec

\* The variables of delivery-service keep their types.
THEOREM DeliveryTypeOK == Spec => []TypeOK
<1>1. IInv => TypeOK
  BY DEF IInv
<1> QED BY <1>1, InvHolds, PTL

\* A station's counter is the number of packages that wait at it, whatever
\* check-outs of one package run at a time, and wherever one fails.
THEOREM CountsMatch == Spec => []CountMatches
<1>1. IInv => CountMatches
  BY DEF IInv, StationInv
<1> QED BY <1>1, InvHolds, PTL

\* No parcel is both registered with a partner and offered to couriers.
THEOREM PartnersGetUnoffered == Spec => []OneCarrier
<1>1. IInv => OneCarrier
  BY DEF IInv, ParcelInv
<1> QED BY <1>1, InvHolds, PTL

\* The courier named by a parcel has accepted its task.
THEOREM NamedHasAccepted == Spec => []CourierAccepted
<1>1. IInv => CourierAccepted
  BY DEF IInv, ParcelInv
<1> QED BY <1>1, InvHolds, PTL

\* Nobody is paid for a delivery without having accepted its task.
THEOREM PaidHasAccepted == Spec => []PaidAccepted
<1>1. IInv => PaidAccepted
  BY DEF IInv, ParcelInv
<1> QED BY <1>1, InvHolds, PTL
=============================================================================
