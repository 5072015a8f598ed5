------------------------------- MODULE MCProbes ------------------------------
(*****************************************************************************)
(* How the fleet is watched: the collector of the nodes with its incidents   *)
(* and their mail, the monitor of the probes, the live page of a camera      *)
(* that moves between nodes, and the broker that runs a probe in a           *)
(* confined unit of its own, with the units and the connect guards it        *)
(* owns. One component moves in each behaviour while the others rest; the    *)
(* mail's delivery and the collector's threads meet only in                  *)
(* collector_observe, so they too are explored one at a time: with focus     *)
(* "mail" any observation may be reported at any moment, and with focus      *)
(* "fleet" the mail it causes stays undelivered.                             *)
(*****************************************************************************)
EXTENDS FleetCollector, TLC

CONSTANTS Nothing, Nobody, Sweeper, n1, n2, c1, p1, p2   \* model values

VARIABLES
    focus,    \* the component that moves; the others rest
    slot1, slot2, slot3, slot4, slot5, slot6, slot7, slot8, slot9, slot10,
    slot11, slot12, slot13, slot14, slot15    \* its variables

Pair == {p1, p2}    \* scopes, requests, workers or streams
Pages == {n1, n2}
Values == {"v1", "v2"}
Viewers == {"u1"}
ViewerOf == [s \in Pair |-> "u1"]

Guard == INSTANCE ProbeGuard WITH
    Scopes <- Pair, BatchLimit <- 1, MaxFaults <- 2, disk <- slot1, cgroup
    <- slot2, rec <- slot3, process <- slot4, faults <- slot5

Destination(r) == r    \* each request has its own

Exec == INSTANCE ProbeExecution WITH
    Requests <- Pair, Target <- Destination, MaxFaults <- 2, conn <- slot1,
    thr <- slot2, own <- slot3, unit <- slot4, guard <- slot5, service <-
    slot6, faults <- slot7

UnitName(s) == IF s = "s3" THEN "u2" ELSE "u1"    \* two starts of one unit

Units == INSTANCE ProbeUnits WITH
    Starts <- {"s1", "s2", "s3"}, UnitOf <- UnitName, RetryBatch <- 1,
    MaxFaults <- 2, table <- slot1, record <- slot2, order <- slot3, exists
    <- slot4, slot <- slot5, step <- slot6, sweep <- slot7, faults <- slot8

Monitor == INSTANCE ProbeMonitor WITH
    Cameras <- {c1}, Workers <- Pair, Routine <- 2, Confirmation <- 2,
    LeaseTime <- 1, FreshTime <- 1, MaxTime <- 4, MaxGen <- 2, MaxRevision
    <- 2, MaxEvents <- 1, camera <- slot1, profile <- slot2, lock <- slot3,
    owner <- slot4, task <- slot5, obs <- slot6, health <- slot7, streak <-
    slot8, events <- slot9, now <- slot10

(* LiveUpdates with two streams of one session: many ticks and one change of
   the permissions, or no tick and many events. *)
Budgets ==
    {[ticks |-> 3, changes |-> 1, events |-> 3], [ticks |-> 0, changes |-> 1, events |-> 6]}

Updates == INSTANCE LiveUpdates WITH
    Nodes <- Pages, Values <- Values, Streams <- Pair, Sessions <- Viewers,
    SessionOf <- ViewerOf, QueueSize <- 2, HistorySize <- 2, Reauthorize <-
    1, Lookup <- 1, Opening <- 1, place <- slot1, snap <- slot2, probe <-
    slot3, authz <- slot4, since <- slot5, ch <- slot6, nextId <- slot7,
    latest <- slot8, sub <- slot9, held <- slot10, epoch <- slot11, refresh
    <- slot12, lookup <- slot13, client <- slot14, budget <- slot15

fleetState == <<incident, mail, accepted, worker, faults, desired, runtime, gen,
      outages, thread, cycle, history, snapshot>>
guardState == <<slot1, slot2, slot3, slot4, slot5>>
execState == <<slot1, slot2, slot3, slot4, slot5, slot6, slot7>>
unitsState == <<slot1, slot2, slot3, slot4, slot5, slot6, slot7, slot8>>
monitorState == <<slot1, slot2, slot3, slot4, slot5, slot6, slot7, slot8, slot9, slot10>>
liveState == <<slot1, slot2, slot3, slot4, slot5, slot6, slot7, slot8, slot9, slot10,
      slot11, slot12, slot13, slot14, slot15>>
slots == <<slot1, slot2, slot3, slot4, slot5, slot6, slot7, slot8, slot9, slot10,
    slot11, slot12, slot13, slot14, slot15>>
mcVars == <<focus, fleetState, slots>>

MCInit ==
    \/ /\ focus \in {"mail", "fleet"}
       /\ CollectorInit
       /\ slot1 = 0 /\ slot2 = 0 /\ slot3 = 0 /\ slot4 = 0 /\ slot5 = 0
       /\ slot6 = 0 /\ slot7 = 0 /\ slot8 = 0 /\ slot9 = 0 /\ slot10 = 0
       /\ slot11 = 0 /\ slot12 = 0 /\ slot13 = 0 /\ slot14 = 0 /\ slot15 = 0
    \/ /\ focus = "guard"
       /\ Guard!GuardInit
       /\ slot6 = 0 /\ slot7 = 0 /\ slot8 = 0 /\ slot9 = 0 /\ slot10 = 0
       /\ slot11 = 0 /\ slot12 = 0 /\ slot13 = 0 /\ slot14 = 0 /\ slot15 = 0
       /\ CollectorInit
    \/ /\ focus = "exec"
       /\ Exec!ExecInit
       /\ slot8 = 0 /\ slot9 = 0 /\ slot10 = 0 /\ slot11 = 0 /\ slot12 = 0
       /\ slot13 = 0 /\ slot14 = 0 /\ slot15 = 0
       /\ CollectorInit
    \/ /\ focus = "units"
       /\ Units!UnitsInit
       /\ slot9 = 0 /\ slot10 = 0 /\ slot11 = 0 /\ slot12 = 0 /\ slot13 = 0
       /\ slot14 = 0 /\ slot15 = 0
       /\ CollectorInit
    \/ /\ focus = "monitor"
       /\ Monitor!MonitorInit
       /\ slot11 = 0 /\ slot12 = 0 /\ slot13 = 0 /\ slot14 = 0 /\ slot15 = 0
       /\ CollectorInit
    \/ /\ focus = "live"
       /\ Updates!LiveInit
       /\ CollectorInit

MCNext ==
    \/ /\ focus = "mail"
       /\ MailNext \/ \E n \in Nodes : Observation(n)
       /\ UNCHANGED <<fleetVars, collectorVars>>
       /\ UNCHANGED <<focus, slots>>
    \/ /\ focus = "fleet"
       /\ CollectorStep
       /\ UNCHANGED <<focus, slots>>
    \/ /\ focus = "guard"
       /\ Guard!GuardNext
       /\ UNCHANGED <<focus, slot6, slot7, slot8, slot9, slot10, slot11,
                      slot12, slot13, slot14, slot15, fleetState>>
    \/ /\ focus = "exec"
       /\ Exec!ExecNext
       /\ UNCHANGED <<focus, slot8, slot9, slot10, slot11, slot12, slot13,
                      slot14, slot15, fleetState>>
    \/ /\ focus = "units"
       /\ Units!UnitsNext
       /\ UNCHANGED <<focus, slot9, slot10, slot11, slot12, slot13, slot14,
                      slot15, fleetState>>
    \/ /\ focus = "monitor"
       /\ Monitor!MonitorNext
       /\ UNCHANGED <<focus, slot11, slot12, slot13, slot14, slot15,
                      fleetState>>
    \/ /\ focus = "live"
       /\ Updates!LiveNext
       /\ UNCHANGED <<focus, fleetState>>
    \/ /\ focus \in {"guard", "exec", "units", "monitor", "live"}    \* these may stop
       /\ UNCHANGED mcVars

MCSpec == MCInit /\ [][MCNext]_mcVars

-----------------------------------------------------------------------------
(* ProbeGuard: whatever a killed broker left of a guard is covered by a
   receipt that the next start accepts, a lease is handed out only for a
   guard that is enforced, and a broker that serves has cleaned up. *)
GuardsAreOwned ==
    focus = "guard" => /\ Guard!ResidueIsReceipted
                       /\ Guard!LeaseIsEnforced
                       /\ Guard!RecoveryIsAccepted
                       /\ Guard!ServingIsClean

(* ProbeExecution: the connect guard stays until the unit of its probe is
   gone, every unit is recorded where a restart looks, and a result is
   decoded or forgotten only after its unit was collected. *)
ProbesAreContained ==
    focus = "exec" => /\ Exec!GuardOutlivesProbe
                      /\ Exec!UnitsAreRecorded
                      /\ Exec!DecodedMeansCollected
                      /\ Exec!IdleMeansCollectedOrClosed

(* ProbeUnits: a unit that may run has a record, a lease that was handed
   out is known, one thread at a time works on a record and none is left
   that no thread or sweep will finish, and ownership is released only
   after the unit was collected. *)
UnitsAreOwned ==
    /\ [](focus = "units" => /\ Units!UnitsTypeOK
                             /\ Units!UnitIsRecorded
                             /\ Units!LeaseIsKnown
                             /\ Units!NothingIsStranded
                             /\ Units!OneHandAtATime)
    /\ [][focus = "units" => Units!ReleaseStep]_unitsState

(* ProbeMonitor: one probe of a camera runs at a time and only while its
   permit holds, what is shown comes from the current profile and an
   accepted observation, and an outage is declared only after two
   failures apart in time. *)
HealthIsEarned ==
    /\ [](focus = "monitor" => /\ Monitor!ProbeStaysPermitted
                               /\ Monitor!OneProbePerCamera
                               /\ Monitor!ShownByCurrentProfile
                               /\ Monitor!HealthFollowsObservation)
    /\ [][focus = "monitor" => Monitor!OutageStep]_monitorState

(* LiveUpdates: the events of an epoch are of one node and in order, a
   stream that keeps reading sees the last state, and nothing is
   delivered beyond the ceiling after a revocation. *)
PageIsConsistent ==
    /\ [](focus = "live" => /\ Updates!OneNodePerEpoch
                            /\ Updates!HistoryOrdered
                            /\ Updates!StreamCatchesUp)
    /\ [][focus = "live" => Updates!DeliveryStep]_liveState

=============================================================================
