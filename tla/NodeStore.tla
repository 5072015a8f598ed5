------------------------------ MODULE NodeStore ------------------------------
(***************************************************************************)
(* The media-node half of the PostgreSQL store: the media_nodes rows and   *)
(* the node_port_change_sagas rows, and the transactions of database.py    *)
(* that change them.  Every operator XxxAllowed is the conjunction of the  *)
(* early returns a transaction raises on; the action of the same name is   *)
(* what it commits.  Each transaction locks the rows it reads, so it is    *)
(* one step.                                                               *)
(*                                                                         *)
(* Columns that always move together in the code are kept once:            *)
(* health follows runtime_state, maintenance follows state, and            *)
(* management_fresh is TRUE only with runtime_state RUNNING and a          *)
(* compatible configuration.  The API and metrics ports of a node are      *)
(* assigned with its external port and never change; only the external     *)
(* port is modelled.                                                       *)
(***************************************************************************)
EXTENDS Integers, FiniteSets

CONSTANTS
    Nodes,       \* node identifiers that may ever be registered
    Ports,       \* the configured external port range
    Releases,    \* catalogued MediaMTX releases
    NoRelease,
    MaxNodes,    \* settings.max_nodes
    Capacity,    \* camera_capacity of a node
    ChangeIds,   \* identifiers of port changes
    MaxRevision, \* bound: requests stop raising desired_revision here
    NoNode, NoPort

ASSUME NodeStoreAssumption ==
    /\ MaxNodes \in Nat
    /\ Capacity \in Nat
    /\ MaxRevision \in Nat
    /\ NoNode \notin Nodes
    /\ NoPort \notin Ports
    /\ NoRelease \notin Releases

VARIABLES
    row,         \* media_nodes, by node
    change       \* node_port_change_sagas, by change id

nodeStoreVars == <<row, change>>

-----------------------------------------------------------------------------
NodeState == {"provisioning", "running", "draining", "maintenance",
              "stopped", "failed", "deleting"}

(* state "absent": the identifier is unused; "deleted": its row was deleted. *)
(* Identifiers are random, so none is used twice.                            *)
MediaNode == [state : NodeState \cup {"absent", "deleted"}, rt : NodeState,
              port : Ports \cup {NoPort}, desired : Nat, applied : Nat,
              compat : BOOLEAN, rel : Releases \cup {NoRelease}, cams : Nat]

NodePortChange == [state : {"none", "prepared", "complete", "aborted"},
                   node : Nodes \cup {NoNode}, old : Ports \cup {NoPort},
                   new : Ports \cup {NoPort}, source : Nat]

NodeRuntimeObservation == [state : {"running", "stopped", "failed"},
                           compat : BOOLEAN, applied : Nat,
                           rel : Releases \cup {NoRelease}]

(* What the helper and the failure handlers produce, up to the bound: a      *)
(* running node has passed its smoke, a failed one is never compatible.      *)
BoundedObservation ==
    {o \in [state : {"running", "stopped", "failed"}, compat : BOOLEAN,
            applied : 0..MaxRevision, rel : Releases \cup {NoRelease}] :
        /\ o.state = "running" => o.compat
        /\ o.state = "failed" => ~o.compat
        /\ o.compat <=> o.rel # NoRelease}

AbsentNode == [state |-> "absent", rt |-> "provisioning", port |-> NoPort,
               desired |-> 0, applied |-> 0, compat |-> FALSE,
               rel |-> NoRelease, cams |-> 0]

NoChange == [state |-> "none", node |-> NoNode, old |-> NoPort,
             new |-> NoPort, source |-> 0]

RegisteredNodes == {n \in Nodes : row[n].state \in NodeState}

Prepared == {k \in ChangeIds : change[k].state = "prepared"}

PreparedOn(n) == {k \in Prepared : change[k].node = n}

(* The port a change gives the node, and the revision it commits.            *)
TargetRevision(k) == change[k].source + 1

NodeStoreInit ==
    /\ row = [n \in Nodes |-> AbsentNode]
    /\ change = [k \in ChangeIds |-> NoChange]

-----------------------------------------------------------------------------
(* Runtime observations.                                                     *)

FailedObservation(applied) ==
    [state |-> "failed", compat |-> FALSE, applied |-> applied,
     rel |-> NoRelease]

validate_runtime_observation(r, o) ==
    /\ o.applied <= r.desired
    /\ o.compat => o.rel = r.rel /\ o.applied = r.desired

Observed(r, o) ==
    [r EXCEPT !.rt = o.state, !.compat = o.compat, !.applied = o.applied]

ApplyObservationAllowed(n, o) ==
    n \in RegisteredNodes /\ validate_runtime_observation(row[n], o)

apply_runtime_observation(n, o) ==
    /\ row' = [row EXCEPT ![n] = Observed(@, o)]
    /\ UNCHANGED change

-----------------------------------------------------------------------------
(* Registration and the operator's requests.                                 *)

Occupied == {row[n].port : n \in RegisteredNodes} \cup {change[k].new : k \in Prepared}

RegisterDuringChange(n, p) ==
    /\ row[n].state = "absent"
    /\ Cardinality(RegisteredNodes) < MaxNodes
    /\ \A m \in RegisteredNodes : row[m].port # p

RegisterAllowed(n, p) ==
    /\ row[n].state = "absent"
    /\ Cardinality(RegisteredNodes) < MaxNodes
    /\ p \in Ports \ Occupied

register_automatically(n, p, rel) ==
    /\ row' = [row EXCEPT ![n] =
           [AbsentNode EXCEPT !.state = "provisioning", !.port = p,
                              !.desired = 1, !.rel = rel]]
    /\ UNCHANGED change

StartAllowed(n) ==
    row[n].state \in {"provisioning", "stopped", "failed", "running"}

request_desired_state(n) ==
    /\ row' = IF row[n].state = "running" THEN row
              ELSE [row EXCEPT ![n].state = "running", ![n].desired = @ + 1]
    /\ UNCHANGED change

AdministrativeSources(state) ==
    CASE state = "draining" -> {"running"}
      [] state = "maintenance" -> {"draining"}
      [] state = "running" -> {"draining", "maintenance"}

AdministrativeAllowed(n, state) ==
    row[n].state \in AdministrativeSources(state) \cup {state}

(* No process is touched: the revision is desired and applied at once.       *)
request_administrative_state(n, state) ==
    /\ row' = IF row[n].state = state THEN row
              ELSE [row EXCEPT ![n].state = state,
                               ![n].desired = @ + 1,
                               ![n].applied = row[n].desired + 1]
    /\ UNCHANGED change

StopAllowed(n) ==
    /\ row[n].cams = 0
    /\ row[n].state \in {"stopped", "provisioning", "running", "draining",
                         "maintenance"}

request_stop(n) ==
    /\ row' = IF row[n].state = "stopped" THEN row
              ELSE [row EXCEPT ![n].state = "stopped", ![n].desired = @ + 1]
    /\ UNCHANGED change

RestartAllowed(n) == row[n].state = "running" /\ row[n].cams = 0

request_restart(n) ==
    /\ row' = [row EXCEPT ![n].desired = @ + 1]
    /\ UNCHANGED change

ReconfigureAllowed(n, revision, cams) ==
    /\ row[n].state = "draining"
    /\ row[n].rt \in {"running", "stopped", "failed"}
    /\ row[n].desired = revision
    /\ PreparedOn(n) = {}
    /\ row[n].cams = cams

request_reconfigure(n, rel) ==
    /\ row' = [row EXCEPT ![n].rel = rel,
                          ![n].desired = @ + 1,
                          ![n].applied = IF rel = row[n].rel THEN @ ELSE 0,
                          ![n].compat = FALSE]
    /\ UNCHANGED change

ReleaseAllowed(n) ==
    /\ row[n].state = "stopped"
    /\ row[n].rt = "stopped"
    /\ row[n].cams = 0
    /\ row[n].applied = row[n].desired

request_release(n, rel) ==
    /\ row' = IF rel = row[n].rel THEN row
              ELSE [row EXCEPT ![n].rel = rel, ![n].desired = @ + 1,
                               ![n].applied = 0, ![n].compat = FALSE]
    /\ UNCHANGED change

DeleteAllowed(n) ==
    /\ row[n].cams = 0
    /\ row[n].state \in {"stopped", "failed", "deleting"}
    /\ PreparedOn(n) = {}

request_node_delete(n) ==
    /\ row' = IF row[n].state = "deleting" THEN row
              ELSE [row EXCEPT ![n].state = "deleting", ![n].desired = @ + 1]
    /\ UNCHANGED change

(* A row that has gone already is not an error.                              *)
FinalizeAllowed(n) ==
    n \in RegisteredNodes => row[n].state = "deleting" /\ row[n].cams = 0

finalize_node_delete(n) ==
    /\ row' = IF n \in RegisteredNodes
              THEN [row EXCEPT ![n] = [AbsentNode EXCEPT !.state = "deleted"]]
              ELSE row
    /\ UNCHANGED change

-----------------------------------------------------------------------------
(* The port-change saga.                                                     *)

PortUnreserved(n, p) ==
    /\ \A m \in RegisteredNodes \ {n} : row[m].port # p
    /\ \A k \in Prepared : change[k].new # p

BeginAllowed(n, p, revision, cams) ==
    /\ p \in Ports
    /\ row[n].state = "running"
    /\ row[n].rt = "running"
    /\ row[n].desired = revision
    /\ row[n].cams = cams
    /\ row[n].port # p
    /\ PortUnreserved(n, p)
    /\ PreparedOn(n) = {}

begin_port_change(k, n, p) ==
    /\ change[k].state = "none"
    /\ change' = [change EXCEPT ![k] =
           [state |-> "prepared", node |-> n, old |-> row[n].port, new |-> p,
            source |-> row[n].desired]]
    /\ UNCHANGED row

ProvisionalOnNewPort(k, complete) ==
    [row[change[k].node] EXCEPT
        !.port = change[k].new,
        !.desired = IF complete THEN TargetRevision(k) ELSE change[k].source]

(* The row as _finish_port_change leaves it, before the observation.         *)
Provisional(k, complete) ==
    [row[change[k].node] EXCEPT
        !.port = IF complete THEN change[k].new ELSE change[k].old,
        !.desired = IF complete THEN TargetRevision(k) ELSE change[k].source]

FinishedState(complete) == IF complete THEN "complete" ELSE "aborted"

FinishAllowed(k, o, complete) ==
    \/ change[k].state = FinishedState(complete)
    \/ /\ change[k].state = "prepared"
       /\ change[k].node \in RegisteredNodes
       /\ validate_runtime_observation(Provisional(k, complete), o)

finish_port_change(k, o, complete) ==
    IF change[k].state = FinishedState(complete)
    THEN UNCHANGED nodeStoreVars
    ELSE /\ row' = [row EXCEPT ![change[k].node] = Observed(Provisional(k, complete), o)]
         /\ change' = [change EXCEPT ![k].state = FinishedState(complete)]

-----------------------------------------------------------------------------
(* Placements count against the node; CameraStore has them in full.  An      *)
(* eligible node without a prepared change takes a camera, and a move's      *)
(* switch does so under the same conditions: a move and a port change of     *)
(* one node exclude each other.                                              *)

is_node_eligible(n) ==
    /\ row[n].state = "running"
    /\ row[n].rt = "running"
    /\ row[n].compat
    /\ row[n].applied = row[n].desired
    /\ row[n].cams < Capacity

PlaceCamera(n) ==
    /\ is_node_eligible(n)
    /\ PreparedOn(n) = {}
    /\ row' = [row EXCEPT ![n].cams = @ + 1]
    /\ UNCHANGED change

RemoveCamera(n) ==
    /\ n \in RegisteredNodes
    /\ row[n].cams > 0
    /\ row' = [row EXCEPT ![n].cams = @ - 1]
    /\ UNCHANGED change

-----------------------------------------------------------------------------
(* The store on its own: any transaction at any time, with any observation.  *)

Request(n) ==
    /\ n \in RegisteredNodes
    /\ row[n].desired < MaxRevision
    /\ \/ StartAllowed(n) /\ request_desired_state(n)
       \/ \E state \in {"draining", "maintenance", "running"} :
              AdministrativeAllowed(n, state) /\ request_administrative_state(n, state)
       \/ StopAllowed(n) /\ request_stop(n)
       \/ RestartAllowed(n) /\ request_restart(n)
       \/ \E rel \in Releases :
              ReconfigureAllowed(n, row[n].desired, row[n].cams) /\ request_reconfigure(n, rel)
       \/ \E rel \in Releases : ReleaseAllowed(n) /\ request_release(n, rel)
       \/ DeleteAllowed(n) /\ request_node_delete(n)

ChangeStep(k) ==
    \/ \E n \in RegisteredNodes, p \in Ports :
           /\ row[n].desired < MaxRevision
           /\ BeginAllowed(n, p, row[n].desired, row[n].cams)
           /\ begin_port_change(k, n, p)
    \/ \E o \in BoundedObservation, complete \in BOOLEAN :
           FinishAllowed(k, o, complete) /\ finish_port_change(k, o, complete)

NodeStoreNext ==
    \/ \E n \in Nodes, p \in Ports, rel \in Releases :
           RegisterAllowed(n, p) /\ register_automatically(n, p, rel)
    \/ \E n \in Nodes : Request(n)
    \/ \E n \in Nodes, o \in BoundedObservation :
           ApplyObservationAllowed(n, o) /\ apply_runtime_observation(n, o)
    \/ \E n \in Nodes : FinalizeAllowed(n) /\ finalize_node_delete(n)
    \/ \E k \in ChangeIds : ChangeStep(k)
    \/ \E n \in Nodes : PlaceCamera(n) \/ RemoveCamera(n)

NodeStoreSpec == NodeStoreInit /\ [][NodeStoreNext]_nodeStoreVars

-----------------------------------------------------------------------------
(* The rows have their types; no row claims a revision that is not desired.  *)
NodeStoreTypeOK ==
    /\ row \in [Nodes -> MediaNode]
    /\ change \in [ChangeIds -> NodePortChange]
    /\ \A n \in Nodes : row[n].applied <= row[n].desired

(* A port belongs to one node: registered nodes have distinct ports, and the *)
(* new port of a prepared change (begin_port_change) is no registered node's *)
(* port and no other prepared change's.  Until the change is finished its    *)
(* node exists and keeps the old port, so that an abort gives back nothing   *)
(* that could have been taken meanwhile (_finish_port_change).               *)
PortsReserved ==
    /\ \A n, m \in RegisteredNodes : row[n].port = row[m].port => n = m
    /\ \A k \in Prepared :
           /\ change[k].node \in RegisteredNodes
           /\ row[change[k].node].port = change[k].old
           /\ \A n \in RegisteredNodes : row[n].port # change[k].new
           /\ \A j \in Prepared :
                  change[j].new = change[k].new \/ change[j].node = change[k].node
                      => j = k

(* A node that was asked to stop or to go has no camera, and none is placed  *)
(* on it before it has been started again: the emptiness request_stop and    *)
(* request_node_delete checked still holds when the node is finally deleted. *)
CamerasOnServingNode ==
    \A n \in Nodes :
        row[n].cams > 0 => row[n].state \in {"running", "draining", "maintenance"}

PortStep ==
    \A n \in Nodes :
        n \in RegisteredNodes /\ n \in RegisteredNodes' /\ row'[n].port # row[n].port
            => \E k \in PreparedOn(n) :
                   change[k].new = row'[n].port /\ change'[k].state = "complete"

(* The port of a registered node changes only when a change to that port is  *)
(* completed; aborting one (abort_port_change) leaves the port alone.        *)
PortMovesByChange == [][PortStep]_nodeStoreVars
=============================================================================
