------------------------------- MODULE MCNodes -------------------------------
(*****************************************************************************)
(* A media node: two replicas or one and its crashes driving the lifecycle   *)
(* of a node, and the disruption of a node's readers behind the node's       *)
(* fence, and the fenced change of one camera beside the reconciler. One     *)
(* component moves in each behaviour while the others rest.                  *)
(*****************************************************************************)
EXTENDS Integers, TLC

CONSTANTS Free, NoRelease, NoNode, NoPort, NoConf, NoProc, Failure, NoChangeId,
    NoSource, NoPath, NoCamera, NoJob, Web, NoToken, n1, p1, p2, c1, c2   \* model values

VARIABLES
    focus,    \* the component that moves; the others rest
    slot1, slot2, slot3, slot4, slot5, slot6, slot7, slot8, slot9, slot10,
    slot11, slot12, slot13    \* its variables

Pair == {p1, p2}    \* web replicas or their threads
Ports == {"o1", "o2"}
ChangeIds == {"k1"}
Cameras == {c1, c2}

Two == INSTANCE NodeControl WITH
    Nodes <- {n1}, Ports <- Ports, Releases <- {"r1"}, MaxNodes <- 1,
    Capacity <- 1, ChangeIds <- ChangeIds, Webs <- Pair, MaxFaults <- 1,
    MaxRevision <- 3, MaxCrashes <- 1, BusyGuard <- TRUE, row <- slot1,
    change <- slot2, conf <- slot3, proc <- slot4, foreign <- slot5, faults
    <- slot6, guard <- slot7, op <- slot8, todo <- slot9, crashes <- slot10

One == INSTANCE NodeControl WITH
    Nodes <- {n1}, Ports <- Ports, Releases <- {"r1", "r2"}, MaxNodes <- 1,
    Capacity <- 1, ChangeIds <- ChangeIds, Webs <- {p1}, MaxFaults <- 2,
    MaxRevision <- 5, MaxCrashes <- 1, BusyGuard <- TRUE, row <- slot1,
    change <- slot2, conf <- slot3, proc <- slot4, foreign <- slot5, faults
    <- slot6, guard <- slot7, op <- slot8, todo <- slot9, crashes <- slot10

Fence == INSTANCE NodeFence WITH
    Cameras <- Cameras, Movable <- {c2}, Webs <- Pair, Slots <- 2, MaxEvents
    <- 1, MaxFaults <- 1, MaxPlacements <- 2, MaxProcess <- 3, MaxRevision
    <- 2, row <- slot1, proc <- slot2, path <- slot3, readers <- slot4,
    guard <- slot5, slots <- slot6, token <- slot7, op <- slot8, late <-
    slot9, left <- slot10, started <- slot11, events <- slot12, faults <-
    slot13

Change == INSTANCE CameraMutation WITH
    Cameras <- {c1}, Nodes <- {1}, Urls <- {"u1", "u2"}, Secrets <- {FALSE},
    Capacity <- 1, MaxRevision <- 3, Workers <- {p1}, InitialSource <- [url
    |-> "u1", secret |-> FALSE], Registered <- {c1}, Mortal <- {1},
    MaxFaults <- 1, MaxRequests <- 2, camera <- slot1, move <- slot2, node
    <- slot3, path <- slot4, readers <- slot5, alive <- slot6, guard <-
    slot7, wk <- slot8, ask <- slot9, faults <- slot10, op <- slot11,
    requests <- slot12, warned <- slot13

replicasState == <<slot1, slot2, slot3, slot4, slot5, slot6, slot7, slot8, slot9, slot10>>
lifecycleState == <<slot1, slot2, slot3, slot4, slot5, slot6, slot7, slot8, slot9, slot10>>
fenceState == <<slot1, slot2, slot3, slot4, slot5, slot6, slot7, slot8, slot9, slot10,
      slot11, slot12, slot13>>
mutationState == <<slot1, slot2, slot3, slot4, slot5, slot6, slot7, slot8, slot9, slot10,
      slot11, slot12, slot13>>
slots == <<slot1, slot2, slot3, slot4, slot5, slot6, slot7, slot8, slot9, slot10,
    slot11, slot12, slot13>>
mcVars == <<focus, slots>>

MCInit ==
    \/ /\ focus = "replicas"
       /\ Two!ControlInit
       /\ slot11 = 0 /\ slot12 = 0 /\ slot13 = 0
    \/ /\ focus = "lifecycle"
       /\ One!ControlInit
       /\ slot11 = 0 /\ slot12 = 0 /\ slot13 = 0
    \/ /\ focus = "fence"
       /\ Fence!FenceInit
    \/ /\ focus = "mutation"
       /\ Change!MutationInit

MCNext ==
    \/ /\ focus = "replicas"
       /\ Two!ControlNext
       /\ UNCHANGED <<focus, slot11, slot12, slot13>>
    \/ /\ focus = "lifecycle"
       /\ One!ControlNext
       /\ UNCHANGED <<focus, slot11, slot12, slot13>>
    \/ /\ focus = "fence"
       /\ Fence!FenceNext
       /\ UNCHANGED <<focus>>
    \/ /\ focus = "mutation"
       /\ Change!UnmovedNext
       /\ UNCHANGED <<focus>>
    \/ /\ focus \in {"replicas", "lifecycle", "fence", "mutation"}    \* these may stop
       /\ UNCHANGED mcVars

MCSpec == MCInit /\ [][MCNext]_mcVars

-----------------------------------------------------------------------------
(* NodeControl: a port that a node listens on stays reserved for it, a
   node that accepts cameras runs what its row says, and every failure of
   a command can be recorded, whatever step failed or crashed; with two
   replicas at work a node that is deleted leaves no process and no
   configuration behind, and only a node without cameras is deleted. *)
NodeFollowsItsRow ==
    /\ focus = "replicas" => /\ Two!DeletedLeavesNothing
                             /\ Two!EmptyNodeOnly
    /\ focus = "lifecycle" => /\ One!ControlTypeOK
                              /\ One!EligibleMeansConfigured
                              /\ One!FailureIsRecordable
                              /\ One!ListenerReserved

(* NodeFence: a confirmation of a disruption is used at most once, a path
   is closed only while somebody is there to open it, and only readers
   that the confirmation counted lose their stream. *)
DisruptionIsConfirmed ==
    /\ [](focus = "fence" => /\ Fence!FenceTypeOK
                             /\ Fence!TokenSpentOnce
                             /\ Fence!FenceIsLifted)
    /\ [][focus = "fence" => Fence!ReaderStep]_fenceState

(* CameraMutation: A reader that attached after a zero-reader preview is
   never silently disconnected: when the control plane (fence or
   reconciler) drops a reader, either a committed change carried a
   confirmation for it or a forced move did. *)
NoSilentDisconnect == [][focus = "mutation" => Change!DisconnectStep]_mutationState

=============================================================================
