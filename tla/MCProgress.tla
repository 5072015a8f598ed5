------------------------------ MODULE MCProgress -----------------------------
(*****************************************************************************)
(* What must happen in the end: a fenced change of a camera settles, a       *)
(* move ends and the nodes agree with the registry, an outage is reported    *)
(* and its incident closed, the probe broker serves again and shuts down,    *)
(* a node's commands and crashes are resolved, and a path its fence closed   *)
(* is opened. The instances are the smallest in which the wrong variant of   *)
(* each property's code is caught. One component moves in each behaviour     *)
(* while the others rest.                                                    *)
(*****************************************************************************)
EXTENDS TLC

CONSTANTS u1, u2, w1, NoNode, NoSource, NoPath, Free, NoCamera, NoJob, Web,
    NoToken, c1, c2, n1, a1, p1, p2, Nobody, NoMail, NoGen, NoRelease,
    NoPort, NoConf, NoProc, Failure, NoChangeId   \* model values

VARIABLES
    focus,    \* the component that moves; the others rest
    slot1, slot2, slot3, slot4, slot5, slot6, slot7, slot8, slot9, slot10,
    slot11, slot12, slot13    \* its variables

Workers == {w1}
Secrets == {FALSE}
Pair == {p1, p2}    \* scopes, requests or replicas
Sites == {n1}
Ports == {"o1", "o2"}
PlainSource == [url |-> u1, secret |-> FALSE]

Change == INSTANCE CameraMutation WITH
    Cameras <- {c1}, Registered <- {c1}, Nodes <- {1}, Urls <- {u1, u2},
    MaxRevision <- 3, Capacity <- 1, InitialSource <- PlainSource, Mortal <-
    {1}, MaxFaults <- 1, MaxRequests <- 1, camera <- slot1, move <- slot2,
    node <- slot3, path <- slot4, readers <- slot5, alive <- slot6, guard <-
    slot7, wk <- slot8, ask <- slot9, faults <- slot10, op <- slot11,
    requests <- slot12, warned <- slot13

Moves == INSTANCE CameraReconcile WITH
    Cameras <- {c1}, Registered <- {c1}, Nodes <- {1, 2}, Urls <- {u1},
    MaxRevision <- 2, Capacity <- 1, InitialSource <- PlainSource, Mortal <-
    {2}, MaxFaults <- 1, camera <- slot1, move <- slot2, node <- slot3, path
    <- slot4, readers <- slot5, alive <- slot6, guard <- slot7, wk <- slot8,
    ask <- slot9, faults <- slot10

Orphans == INSTANCE CameraReconcile WITH
    Cameras <- {c2}, Registered <- {}, Nodes <- {1, 2}, Urls <- {u1},
    MaxRevision <- 2, Capacity <- 1, InitialSource <- PlainSource, Mortal <-
    {2}, MaxFaults <- 1, camera <- slot1, move <- slot2, node <- slot3, path
    <- slot4, readers <- slot5, alive <- slot6, guard <- slot7, wk <- slot8,
    ask <- slot9, faults <- slot10

Fleet == INSTANCE FleetCollector WITH
    Nodes <- Sites, Workers <- {w1}, Alerts <- {a1}, MaxIncidents <- 1,
    MaxAttempts <- 2, MaxFaults <- 1, MaxGen <- 2, MaxOutages <- 1, incident
    <- slot1, mail <- slot2, accepted <- slot3, worker <- slot4, faults <-
    slot5, desired <- slot6, runtime <- slot7, gen <- slot8, outages <-
    slot9, thread <- slot10, cycle <- slot11, history <- slot12, snapshot <-
    slot13

Guard == INSTANCE ProbeGuard WITH
    Scopes <- Pair, BatchLimit <- 1, MaxFaults <- 1, disk <- slot1, cgroup
    <- slot2, rec <- slot3, process <- slot4, faults <- slot5

Destination(r) == r    \* each request has its own

Exec == INSTANCE ProbeExecution WITH
    Requests <- Pair, Target <- Destination, MaxFaults <- 1, conn <- slot1,
    thr <- slot2, own <- slot3, unit <- slot4, guard <- slot5, service <-
    slot6, faults <- slot7

Control == INSTANCE NodeControl WITH
    Nodes <- Sites, Ports <- Ports, Releases <- {"r1", "r2"}, MaxNodes <- 1,
    Capacity <- 1, ChangeIds <- {"k1"}, Webs <- {Web}, MaxFaults <- 0,
    MaxRevision <- 5, MaxCrashes <- 1, BusyGuard <- FALSE, row <- slot1,
    change <- slot2, conf <- slot3, proc <- slot4, foreign <- slot5, faults
    <- slot6, guard <- slot7, op <- slot8, todo <- slot9, crashes <- slot10

Fence == INSTANCE NodeFence WITH
    Cameras <- {c1}, Movable <- {}, Webs <- Pair, Slots <- 2, MaxEvents <-
    1, MaxFaults <- 1, MaxPlacements <- 1, MaxProcess <- 6, MaxRevision <-
    2, row <- slot1, proc <- slot2, path <- slot3, readers <- slot4, guard
    <- slot5, slots <- slot6, token <- slot7, op <- slot8, late <- slot9,
    left <- slot10, started <- slot11, events <- slot12, faults <- slot13

mutationState == <<slot1, slot2, slot3, slot4, slot5, slot6, slot7, slot8, slot9, slot10,
      slot11, slot12, slot13>>
movesState == <<slot1, slot2, slot3, slot4, slot5, slot6, slot7, slot8, slot9, slot10>>
orphansState == <<slot1, slot2, slot3, slot4, slot5, slot6, slot7, slot8, slot9, slot10>>
fleetState == <<slot1, slot2, slot3, slot4, slot5, slot6, slot7, slot8, slot9, slot10,
      slot11, slot12, slot13>>
guardState == <<slot1, slot2, slot3, slot4, slot5>>
execState == <<slot1, slot2, slot3, slot4, slot5, slot6, slot7>>
controlState == <<slot1, slot2, slot3, slot4, slot5, slot6, slot7, slot8, slot9, slot10>>
fenceState == <<slot1, slot2, slot3, slot4, slot5, slot6, slot7, slot8, slot9, slot10,
      slot11, slot12, slot13>>
slots == <<slot1, slot2, slot3, slot4, slot5, slot6, slot7, slot8, slot9, slot10,
    slot11, slot12, slot13>>
mcVars == <<focus, slots>>

MCInit ==
    \/ /\ focus = "mutation"
       /\ Change!MutationInit
    \/ /\ focus = "moves"
       /\ Moves!ReconcileInit
       /\ slot11 = 0 /\ slot12 = 0 /\ slot13 = 0
    \/ /\ focus = "orphans"
       /\ Orphans!ReconcileInit
       /\ slot11 = 0 /\ slot12 = 0 /\ slot13 = 0
    \/ /\ focus \in {"mail", "fleet"}
       /\ Fleet!CollectorInit
    \/ /\ focus = "guard"
       /\ Guard!GuardInit
       /\ slot6 = 0 /\ slot7 = 0 /\ slot8 = 0 /\ slot9 = 0 /\ slot10 = 0
       /\ slot11 = 0 /\ slot12 = 0 /\ slot13 = 0
    \/ /\ focus = "exec"
       /\ Exec!ExecInit
       /\ slot8 = 0 /\ slot9 = 0 /\ slot10 = 0 /\ slot11 = 0 /\ slot12 = 0
       /\ slot13 = 0
    \/ /\ focus = "control"
       /\ Control!ControlInit
       /\ slot11 = 0 /\ slot12 = 0 /\ slot13 = 0
    \/ /\ focus = "fence"
       /\ Fence!FenceInit

MCNext ==
    \/ /\ focus = "mutation"
       /\ Change!UnmovedNext
       /\ UNCHANGED <<focus>>
    \/ /\ focus = "moves"
       /\ Moves!ReconcileNext
       /\ UNCHANGED <<focus, slot11, slot12, slot13>>
    \/ /\ focus = "orphans"
       /\ Orphans!ReconcileNext
       /\ UNCHANGED <<focus, slot11, slot12, slot13>>
    \/ /\ focus = "mail"
       /\ Fleet!MailNext \/ \E n \in Sites : Fleet!Observation(n)
       /\ UNCHANGED <<slot6, slot7, slot8, slot9, slot10, slot11, slot12, slot13>>
       /\ UNCHANGED <<focus>>
    \/ /\ focus = "fleet"
       /\ Fleet!CollectorStep
       /\ UNCHANGED <<focus>>
    \/ /\ focus = "guard"
       /\ Guard!GuardNext
       /\ UNCHANGED <<focus, slot6, slot7, slot8, slot9, slot10, slot11,
                      slot12, slot13>>
    \/ /\ focus = "exec"
       /\ Exec!ExecNext
       /\ UNCHANGED <<focus, slot8, slot9, slot10, slot11, slot12, slot13>>
    \/ /\ focus = "control"
       /\ Control!ControlNext
       /\ UNCHANGED <<focus, slot11, slot12, slot13>>
    \/ /\ focus = "fence"
       /\ Fence!FenceNext
       /\ UNCHANGED <<focus>>
    \/ /\ focus \in {"guard", "exec", "control", "fence"}    \* these may stop
       /\ UNCHANGED mcVars

MCSpec == MCInit /\ [][MCNext]_mcVars

mailState == <<slot1, slot2, slot3, slot4, slot5>>

(* The fairness of each component's specification, where it runs. *)
FairMCSpec ==
    /\ MCSpec
    /\ WF_mutationState(focus = "mutation" /\ Change!FenceStep)
    /\ \A w \in Workers :
           WF_mutationState(focus = "mutation" /\ Change!WorkerStep(w)
                                /\ Change!BesideMutation)
    /\ WF_mutationState(focus = "mutation"
                            /\ (Change!ProcessStarts(1) \/ Change!Observation(1))
                            /\ Change!BesideMutation)
    /\ \A w \in Workers : /\ WF_movesState(focus = "moves" /\ Moves!WorkerStep(w))
                          /\ WF_orphansState(focus = "orphans" /\ Orphans!WorkerStep(w))
    /\ \A n \in {1, 2} : /\ WF_movesState(focus = "moves" /\ Moves!ProcessStarts(n))
                         /\ WF_movesState(focus = "moves" /\ Moves!Observation(n))
                         /\ WF_orphansState(focus = "orphans" /\ Orphans!ProcessStarts(n))
                         /\ WF_orphansState(focus = "orphans" /\ Orphans!Observation(n))
    /\ WF_mailState(focus = "mail" /\ Fleet!Work(w1))
    /\ WF_mailState(focus = "mail" /\ \E m \in Fleet!Mail :
                         Fleet!RetryDelayPasses(m) \/ Fleet!LeasePasses(m))
    /\ WF_fleetState(focus = "fleet" /\ Fleet!StartCycle)
    /\ WF_fleetState(focus = "fleet" /\ (Fleet!EndCycle \/ Fleet!DeadlinePasses))
    /\ WF_fleetState(focus = "fleet" /\ Fleet!Collect(n1))
    /\ WF_guardState(focus = "guard" /\ (Guard!BrokerStarts \/ Guard!Recover))
    /\ WF_guardState(focus = "guard" /\ \E s \in Pair : Guard!Work(s))
    /\ WF_guardState(focus = "guard" /\ \E s \in Pair : Guard!UnitGone(s))
    /\ \A r \in Pair : /\ WF_execState(focus = "exec" /\ Exec!Serve(r))
                       /\ WF_execState(focus = "exec" /\ Exec!UnitEnds(r))
    /\ WF_execState(focus = "exec" /\ Exec!Startup)
    /\ WF_execState(focus = "exec" /\ Exec!Exit)
    /\ WF_controlState(focus = "control" /\ Control!Progress(Web))
    /\ WF_controlState(focus = "control" /\ Control!Recovery(Web))
    /\ SF_fenceState(focus = "fence" /\ Fence!reconcile_node)
    /\ SF_fenceState(focus = "fence" /\ Fence!Observe)
    /\ SF_fenceState(focus = "fence" /\ Fence!recover_runtime_state)
    /\ WF_fenceState(focus = "fence" /\ Fence!LateRequest)
    /\ \A w \in Pair : WF_fenceState(focus = "fence" /\ Fence!CommandStep(w))

(* CameraMutation and CameraReconcile: once requests and faults cease, every
   node serves what the registry says and applied_revision says so too.  A
   fence that was refused, failed or died halfway, a move, and a path of an
   unknown camera leave nothing behind. *)
RegistryIsServed ==
    <>[](/\ focus = "mutation" => Change!MutationSettled
         /\ focus = "moves" => Moves!Converged
         /\ focus = "orphans" => Orphans!Converged)

(* NodeControl and NodeFence: every command and every startup of a replica
   ends, and no port change that a dead replica began stays prepared; a path
   that a fence left closed is opened by the reconciler. *)
NodeIsReleased ==
    []<>(/\ focus = "control" => ~Control!Commanded(Web) /\ ~Control!ChangeIsPrepared("k1")
         /\ focus = "fence" => ~Fence!IsClosed(c1))

(* ProbeGuard and ProbeExecution: a killed broker comes back to service,
   however many scopes it left and however few a start may clean, and a
   shutdown is not held up by a stalled probe or a cleanup that fails. *)
BrokerMovesOn ==
    []<>(/\ focus = "guard" => Guard!Serving
         /\ focus = "exec" => ~Exec!Stopping)

-----------------------------------------------------------------------------
(* FleetCollector: An incident that is over is closed in the end,
   although the completion of its last message never closes it: the sweep
   of a later claim does. *)
IncidentCloses == 
    []<>(focus = "mail" => ~Fleet!IncidentIs(n1, 1, "recovered"))

(* FleetCollector: A failure that lasts is reported, however many cycles
   miss their deadline before: as long as observations go on succeeding
   the node's incident is opened (up to the bound on incidents). *)
OutageReported == 
    /\ <>[](focus = "fleet" /\ Fleet!Failed(n1))
    /\ []<>(focus = "fleet" /\ Fleet!Observed(n1))
    => []<>(focus = "fleet" /\ Fleet!Reported(n1))

=============================================================================
