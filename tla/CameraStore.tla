---------------------------- MODULE CameraStore ----------------------------
(***************************************************************************)
(* The camera registry that the control plane keeps in PostgreSQL: camera  *)
(* rows with their current placement, camera_move_sagas rows, and the part *)
(* of a media_nodes row that placement depends on.  Every method of        *)
(* PostgresNodeStore that writes one of these rows is an action; a method  *)
(* is one transaction, so one step.                                        *)
(*                                                                         *)
(* A camera has at most one incomplete move (the partial unique index      *)
(* uq_camera_move_active), so move[c] holds its latest camera_move_sagas   *)
(* row; the desired_revision of the row, which grows with every move of    *)
(* the camera, stands for its id.                                          *)
(*                                                                         *)
(* The definitions no action refers to (MutableDuringMove,                 *)
(* PlaceDuringPortChange, SwitchCountsSwapped and the like) are wrong      *)
(* variants of the definition that follows them; each makes one of the     *)
(* properties fail.                                                        *)
(***************************************************************************)
EXTENDS Naturals, FiniteSets

CONSTANTS
    Cameras,      \* camera ids that may be registered
    Nodes,        \* media nodes
    Urls,         \* credential-free source URLs
    Secrets,      \* {FALSE}: no camera has a credential; BOOLEAN: some have one
    NoNode,       \* "no placement row"
    NoSource,     \* "no cameras row"
    Capacity,     \* camera_capacity of a node
    MaxRevision   \* bound: no operator request starts at this desired_revision

ASSUME StoreAssumption ==
    /\ IsFiniteSet(Cameras)
    /\ NoNode \notin Nodes
    /\ Secrets \subseteq BOOLEAN
    /\ FALSE \in Secrets
    /\ Capacity \in Nat
    /\ MaxRevision \in Nat

VARIABLES
    camera,       \* cameras joined with camera_placements
    move,         \* latest camera_move_sagas row of each camera
    node          \* media_nodes, with the node's prepared port change

storeVars == <<camera, move, node>>

-----------------------------------------------------------------------------
(* A source is the stored URL and whether camera_source_credentials holds a *)
(* sealed credential that is attached to it when the row is read.           *)
Source == [url : Urls, secret : Secrets]

CameraState == {"absent", "enabled", "disabled", "deleting", "deleted"}

CameraRow == [state : CameraState, source : Source \cup {NoSource},
              desired : Nat, applied : Nat,
              node : Nodes \cup {NoNode}, gen : Nat]

ActiveMoveState ==
    {"prepare_target", "cleanup_target", "cleanup_source", "activate_target"}

MoveState == ActiveMoveState \cup {"none", "complete", "aborted"}

MoveRow == [state : MoveState, src : Nodes \cup {NoNode},
            dst : Nodes \cup {NoNode}, sgen : Nat, rev : Nat,
            force : BOOLEAN, confirmed : 0..1, expired : BOOLEAN]

(* admitting: desired state RUNNING, healthy, freshly observed, applied      *)
(* revision current, no maintenance.  running: runtime state RUNNING with a  *)
(* compatible configuration.  portChange: a PREPARED node_port_change_sagas  *)
(* row exists for the node.                                                  *)
NodeRow == [registered : Nat, admitting : BOOLEAN, running : BOOLEAN,
            portChange : BOOLEAN]

AbsentCamera == [state |-> "absent", source |-> NoSource, desired |-> 0,
                 applied |-> 0, node |-> NoNode, gen |-> 0]

NoMove == [state |-> "none", src |-> NoNode, dst |-> NoNode, sgen |-> 0,
           rev |-> 0, force |-> FALSE, confirmed |-> 0, expired |-> FALSE]

StoreInit ==
    /\ camera = [c \in Cameras |-> AbsentCamera]
    /\ move = [c \in Cameras |-> NoMove]
    /\ node = [n \in Nodes |-> [registered |-> 0, admitting |-> TRUE,
                                running |-> TRUE, portChange |-> FALSE]]

-----------------------------------------------------------------------------
(* State predicates shared by the transactions.                             *)

ActiveMove(c) == move[c].state \in ActiveMoveState

ActiveMoveOn(n) == \E c \in Cameras : ActiveMove(c) /\ n \in {move[c].src, move[c].dst}

PlacedOn(n) == {c \in Cameras : camera[c].node = n}

is_node_eligible(n) ==
    /\ node[n].admitting
    /\ node[n].running
    /\ node[n].registered < Capacity

(* Nodes the automatic placement query selects from, and its first key.      *)
PlacementCandidates == {n \in Nodes : is_node_eligible(n) /\ ~node[n].portChange}

LeastLoaded(n) ==
    /\ n \in PlacementCandidates
    /\ \A m \in PlacementCandidates : node[n].registered <= node[m].registered

MutableDuringMove(c, rev) ==
    /\ camera[c].state \in {"enabled", "disabled"}
    /\ camera[c].desired = rev
    /\ ~node[camera[c].node].portChange

(* The guards every camera mutation shares: the row exists, is not going     *)
(* away, is still at the revision the caller read, and no saga owns it.      *)
Mutable(c, rev) ==
    /\ camera[c].state \in {"enabled", "disabled"}
    /\ camera[c].desired = rev
    /\ ~ActiveMove(c)
    /\ ~node[camera[c].node].portChange

-----------------------------------------------------------------------------
(* Registration: place_camera_automatically and place_camera_manually both   *)
(* end in _insert_camera.                                                    *)

InsertCamera(c, n, s) ==
    /\ camera[c].state = "absent"
    /\ camera' = [camera EXCEPT ![c] =
           [state |-> "enabled", source |-> s, desired |-> 1, applied |-> 0,
            node |-> n, gen |-> 1]]
    /\ node' = [node EXCEPT ![n].registered = @ + 1]
    /\ UNCHANGED move

PlaceCameraAutomatically(c, s) ==
    \E n \in Nodes : LeastLoaded(n) /\ InsertCamera(c, n, s)

PlaceCameraManually(c, n, s) ==
    /\ is_node_eligible(n)
    /\ ~node[n].portChange
    /\ InsertCamera(c, n, s)

-----------------------------------------------------------------------------
(* Operator changes to one camera.                                           *)

(* A request that changes neither the name nor the source writes nothing.    *)
UpdateCamera(c, rev, s) ==
    /\ Mutable(c, rev)
    /\ \/ camera' = [camera EXCEPT ![c].source = s, ![c].desired = rev + 1]
       \/ s = camera[c].source /\ UNCHANGED camera
    /\ UNCHANGED <<move, node>>

SetCameraEnabled(c, rev, enabled) ==
    LET target == IF enabled THEN "enabled" ELSE "disabled"
    IN  /\ Mutable(c, rev)
        /\ camera[c].state # target
        /\ camera' = [camera EXCEPT ![c].state = target, ![c].desired = rev + 1]
        /\ UNCHANGED <<move, node>>

RequestCameraDelete(c, rev) ==
    /\ Mutable(c, rev)
    /\ camera' = [camera EXCEPT ![c].state = "deleting", ![c].desired = rev + 1]
    /\ UNCHANGED <<move, node>>

-----------------------------------------------------------------------------
(* The move saga's transactions.                                             *)

CreateCameraMove(c, rev, n, force, confirmed) ==
    /\ camera[c].state = "enabled"
    /\ camera[c].desired = rev
    /\ camera[c].node # n
    /\ ~node[camera[c].node].portChange
    /\ ~node[n].portChange
    /\ is_node_eligible(n)
    /\ ~ActiveMove(c)
    /\ camera' = [camera EXCEPT ![c].desired = rev + 1]
    /\ move' = [move EXCEPT ![c] =
           [state |-> "prepare_target", src |-> camera[c].node, dst |-> n,
            sgen |-> camera[c].gen, rev |-> rev + 1, force |-> force,
            confirmed |-> confirmed, expired |-> FALSE]]
    /\ UNCHANGED node

(* The database clock passes expires_at.                                     *)
MoveDeadlinePasses(c) ==
    /\ ActiveMove(c)
    /\ ~move[c].expired
    /\ move' = [move EXCEPT ![c].expired = TRUE]
    /\ UNCHANGED <<camera, node>>

(* switch_camera_move raises, in this order, CameraMoveExpired,              *)
(* CameraLifecycleConflict and EligibleNodeMissing.                          *)
SwitchConflict(c) ==
    \/ node[move[c].src].portChange
    \/ node[move[c].dst].portChange
    \/ camera[c].node # move[c].src
    \/ camera[c].gen # move[c].sgen
    \/ camera[c].desired # move[c].rev

SwitchTo(c, source, target, gen) ==
    /\ camera' = [camera EXCEPT ![c].node = move[c].dst, ![c].gen = gen]
    /\ node' = [node EXCEPT ![source].registered = @ - 1, ![target].registered = @ + 1]
    /\ move' = [move EXCEPT ![c].state = "cleanup_source"]

Switchable(c) ==
    /\ move[c].state = "prepare_target"
    /\ ~move[c].expired
    /\ ~SwitchConflict(c)

SwitchWithoutCapacity(c) ==
    /\ Switchable(c)
    /\ node[move[c].dst].admitting
    /\ node[move[c].dst].running
    /\ SwitchTo(c, move[c].src, move[c].dst, move[c].sgen + 1)

SwitchAfterDeadline(c) ==
    /\ move[c].state = "prepare_target"
    /\ ~SwitchConflict(c)
    /\ is_node_eligible(move[c].dst)
    /\ SwitchTo(c, move[c].src, move[c].dst, move[c].sgen + 1)

SwitchCameraMove(c) ==
    /\ Switchable(c)
    /\ is_node_eligible(move[c].dst)
    /\ SwitchTo(c, move[c].src, move[c].dst, move[c].sgen + 1)

MarkCameraMoveSourceCleaned(c) ==
    /\ move[c].state = "cleanup_source"
    /\ move' = [move EXCEPT ![c].state = "activate_target"]
    /\ UNCHANGED <<camera, node>>

CompleteCameraMove(c) ==
    /\ move[c].state = "activate_target"
    /\ camera' = [camera EXCEPT ![c].applied = move[c].rev]
    /\ move' = [move EXCEPT ![c].state = "complete"]
    /\ UNCHANGED node

RequestCameraMoveAbort(c) ==
    /\ move[c].state = "prepare_target"
    /\ camera' = [camera EXCEPT ![c].desired =
                     IF @ = move[c].rev THEN @ + 1 ELSE @]
    /\ move' = [move EXCEPT ![c].state = "cleanup_target"]
    /\ UNCHANGED node

AbortCameraMove(c) ==
    /\ move[c].state = "cleanup_target"
    /\ move' = [move EXCEPT ![c].state = "aborted"]
    /\ UNCHANGED <<camera, node>>

-----------------------------------------------------------------------------
(* mark_camera_applied: the reconciler reports the row it read (revision,    *)
(* generation) as applied on node n; the transaction is fenced against       *)
(* everything that may have changed since.                                   *)

ApplyFence(c, n, gen, rev) ==
    /\ camera[c].desired = rev
    /\ camera[c].node = n
    /\ camera[c].gen = gen
    /\ ~ActiveMove(c)

ApplyWithoutUncounting(c, n, gen, rev) ==
    /\ ApplyFence(c, n, gen, rev)
    /\ camera' = [camera EXCEPT ![c].applied = rev,
           ![c].state = IF @ = "deleting" THEN "deleted" ELSE @,
           ![c].node = IF camera[c].state = "deleting" THEN NoNode ELSE @]
    /\ UNCHANGED <<move, node>>

MarkCameraApplied(c, n, gen, rev) ==
    /\ ApplyFence(c, n, gen, rev)
    /\ IF camera[c].state = "deleting"
       THEN /\ camera' = [camera EXCEPT ![c].state = "deleted", ![c].applied = rev,
                                        ![c].node = NoNode]
            /\ node' = [node EXCEPT ![n].registered = IF @ > 0 THEN @ - 1 ELSE @]
       ELSE /\ camera' = [camera EXCEPT ![c].applied = rev]
            /\ UNCHANGED node
    /\ UNCHANGED move

-----------------------------------------------------------------------------
(* The node side.  Observations and administrative commands change whether   *)
(* a node admits cameras; a port change holds its PREPARED row from          *)
(* begin_port_change until complete_port_change or abort_port_change.        *)

ObserveNode(n, admitting, running) ==
    /\ node' = [node EXCEPT ![n].admitting = admitting, ![n].running = running]
    /\ UNCHANGED <<camera, move>>

BeginPortChange(n) ==
    /\ node[n].running
    /\ ~node[n].portChange
    /\ ~ActiveMoveOn(n)
    /\ node[n].registered = Cardinality(PlacedOn(n))
    /\ node' = [node EXCEPT ![n].portChange = TRUE]
    /\ UNCHANGED <<camera, move>>

FinishPortChange(n) ==
    /\ node[n].portChange
    /\ \E running \in BOOLEAN :
           node' = [node EXCEPT ![n].portChange = FALSE, ![n].running = running]
    /\ UNCHANGED <<camera, move>>

-----------------------------------------------------------------------------
(* The store on its own: any caller may run any transaction at any time,     *)
(* with arguments it read at any earlier moment.                             *)

OperatorRequest ==
    \E c \in Cameras, rev \in 0..MaxRevision :
        \/ rev < MaxRevision /\ \E s \in Source : UpdateCamera(c, rev, s)
        \/ rev < MaxRevision /\ \E e \in BOOLEAN : SetCameraEnabled(c, rev, e)
        \/ RequestCameraDelete(c, rev)
        \/ /\ rev < MaxRevision
           /\ \E n \in Nodes, force \in BOOLEAN, confirmed \in 0..1 :
                  /\ confirmed = 1 => force
                  /\ CreateCameraMove(c, rev, n, force, confirmed)

Registration ==
    \E c \in Cameras, s \in Source :
        \/ PlaceCameraAutomatically(c, s)
        \/ \E n \in Nodes : PlaceCameraManually(c, n, s)

SagaTransaction ==
    \E c \in Cameras :
        \/ MoveDeadlinePasses(c)
        \/ SwitchCameraMove(c)
        \/ MarkCameraMoveSourceCleaned(c)
        \/ CompleteCameraMove(c)
        \/ RequestCameraMoveAbort(c)
        \/ AbortCameraMove(c)

ReconcileTransaction ==
    \E c \in Cameras, n \in Nodes, gen, rev \in 1..(MaxRevision + 1) :
        MarkCameraApplied(c, n, gen, rev)

NodeTransaction ==
    \E n \in Nodes :
        \/ \E a, r \in BOOLEAN : ObserveNode(n, a, r)
        \/ BeginPortChange(n)
        \/ FinishPortChange(n)

StoreNext ==
    \/ Registration
    \/ OperatorRequest
    \/ SagaTransaction
    \/ ReconcileTransaction
    \/ NodeTransaction

StoreSpec == StoreInit /\ [][StoreNext]_storeVars

-----------------------------------------------------------------------------
(* Properties of the registry.                                               *)

(* Type invariant of the three tables.                                       *)
StoreTypeOK ==
    /\ camera \in [Cameras -> CameraRow]
    /\ move \in [Cameras -> MoveRow]
    /\ node \in [Nodes -> NodeRow]

(* registered_cameras is a counter that three transactions adjust by hand    *)
(* (_insert_camera, switch_camera_move, mark_camera_applied); it always      *)
(* equals the number of camera_placements rows of the node, so the           *)
(* blast-radius comparison of begin_port_change never fails for a drifted    *)
(* counter and an empty node is really empty.                                *)
RegisteredExact ==
    \A n \in Nodes : node[n].registered = Cardinality(PlacedOn(n))

(* A node never holds more cameras than camera_capacity, although a move     *)
(* reserves nothing on its target and registrations race with it.            *)
CapacityRespected == \A n \in Nodes : node[n].registered <= Capacity

Owns(m, row) ==
    /\ row.state = "enabled"
    /\ m.src # m.dst
    /\ m.src \in Nodes
    /\ m.dst \in Nodes
    /\ m.state \in {"prepare_target", "cleanup_target"} =>
           row.node = m.src /\ row.gen = m.sgen
    /\ m.state \in {"cleanup_source", "activate_target"} =>
           row.node = m.dst /\ row.gen = m.sgen + 1
    /\ row.desired = IF m.state = "cleanup_target" THEN m.rev + 1 ELSE m.rev

(* While a move is incomplete the camera row is exactly where the saga left  *)
(* it: before the switch on the source at the recorded generation, after it  *)
(* on the target one generation later, and at the revision the saga wrote.   *)
(* So the fence of switch_camera_move ("camera_move_fenced") never strands a *)
(* move, and complete_camera_move never marks a foreign revision applied.    *)
MoveOwnsCamera == \A c \in Cameras : ActiveMove(c) => Owns(move[c], camera[c])

(* A node port change and a camera move that touches the node exclude each   *)
(* other (begin_port_change against create_camera_move), so no switch ever   *)
(* moves a camera to or from a node whose endpoint is being replaced.        *)
PortChangeExcludesMoves ==
    \A n \in Nodes : node[n].portChange => ~ActiveMoveOn(n)

(* What the properties above rest on: exactly the cameras that are not gone  *)
(* have a placement row, no applied_revision is ahead of desired_revision,   *)
(* and together with those properties this is inductive.                     *)
PlacedIffLive ==
    \A c \in Cameras : camera[c].node \in Nodes <=> camera[c].state \in {"enabled", "disabled", "deleting"}

AppliedBehindDesired == \A c \in Cameras : camera[c].applied <= camera[c].desired

StoreInv ==
    /\ StoreTypeOK
    /\ PlacedIffLive
    /\ AppliedBehindDesired
    /\ RegisteredExact
    /\ CapacityRespected
    /\ MoveOwnsCamera
    /\ PortChangeExcludesMoves

(* A camera that was never registered has no applied revision.               *)
AbsentUnapplied == \A c \in Cameras : camera[c].state = "absent" => camera[c].applied = 0

BlastRadiusStep ==
    \A n \in Nodes : node[n].portChange /\ node'[n].portChange
        => {c \in Cameras : camera'[c].node = n} \subseteq PlacedOn(n)

(* While a port change is prepared the set of cameras it confirmed can only  *)
(* shrink (a delete that was already requested may finish): no camera joins  *)
(* the blast radius the operator confirmed.                                  *)
BlastRadiusOnlyShrinks == [][BlastRadiusStep]_storeVars

PlacementStep ==
    \A c \in Cameras : camera[c].node \in Nodes =>
        \/ camera'[c].node = camera[c].node /\ camera'[c].gen = camera[c].gen
        \/ /\ camera'[c].node = move[c].dst
           /\ camera'[c].gen = camera[c].gen + 1
           /\ move[c].state = "prepare_target" /\ ~move[c].expired
        \/ camera'[c].state = "deleted" /\ camera'[c].node = NoNode

(* A placement changes node only together with the next generation, and only *)
(* in the switch of an unexpired move of that camera; it disappears only     *)
(* with the camera.  The generation never changes otherwise, so it fences    *)
(* every report that was made for an earlier placement.                      *)
PlacementGenerationFences == [][PlacementStep]_storeVars

AppliedStep ==
    \A c \in Cameras : /\ camera[c].applied <= camera'[c].applied
                       /\ camera'[c].applied <= camera'[c].desired

(* applied_revision never decreases and never passes desired_revision,       *)
(* whatever stale revision a reconciler reports: a finished change cannot    *)
(* become pending again.                                                     *)
AppliedNeverRegresses == [][AppliedStep]_storeVars

(* A move has its camera and its two nodes to itself: no other transaction   *)
(* changes the row under it and no port change touches its nodes.            *)
MovesAreExclusive == MoveOwnsCamera /\ PortChangeExcludesMoves

(* The fences of the rows: no step gives a placement away without the next   *)
(* generation, takes an applied revision back, or adds a camera to the blast *)
(* radius of a prepared port change.                                         *)
RowsAreFenced == [][PlacementStep /\ AppliedStep /\ BlastRadiusStep]_storeVars

=============================================================================
