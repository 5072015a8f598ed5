------------------------- MODULE CameraStoreProofs -------------------------
(***************************************************************************)
(* Proofs about CameraStore for any set of cameras and nodes, any capacity *)
(* and any revision bound.  StoreInv is inductive; the invariants and the  *)
(* action properties of the registry follow from it.                       *)
(***************************************************************************)
EXTENDS CameraStore, FiniteSetTheorems, TLAPS

(* The placements of a node form a finite set.                               *)
LEMMA PlacedFinite ==
    ASSUME NEW n
    PROVE  /\ IsFiniteSet(PlacedOn(n))
           /\ Cardinality(PlacedOn(n)) \in Nat
<1>1. PlacedOn(n) \in SUBSET Cameras
    BY DEF PlacedOn
<1>2. IsFiniteSet(PlacedOn(n))
    BY <1>1, FS_Subset, StoreAssumption DEF StoreAssumption
<1> QED
    BY <1>2, FS_CardinalityType

(* Placing one more camera on a node, and removing one, changes the number   *)
(* of its placements by one.                                                 *)
LEMMA CountPlaced ==
    ASSUME NEW S, IsFiniteSet(S), NEW c
    PROVE  /\ c \notin S => Cardinality(S \cup {c}) = Cardinality(S) + 1
           /\ c \in S => Cardinality(S \ {c}) = Cardinality(S) - 1
           /\ c \in S => Cardinality(S) # 0
<1>1. c \in S => Cardinality(S) # 0
    BY FS_EmptySet
<1> QED
    BY <1>1, FS_AddElement, FS_RemoveElement

(* A step that leaves every placement and every counter alone keeps the      *)
(* counters exact and within capacity.                                       *)
LEMMA CountersKept ==
    ASSUME RegisteredExact, CapacityRespected,
           \A c \in Cameras : camera'[c].node = camera[c].node,
           \A n \in Nodes : node'[n].registered = node[n].registered
    PROVE  RegisteredExact' /\ CapacityRespected'
<1>1. \A n \in Nodes : PlacedOn(n)' = PlacedOn(n)
    BY DEF PlacedOn
<1> QED
    BY <1>1 DEF RegisteredExact, CapacityRespected

(* A step that changes nothing keeps the invariant.                          *)
LEMMA UnchangedKeepsInv ==
    ASSUME StoreInv, storeVars' = storeVars
    PROVE  StoreInv'
BY DEF storeVars, StoreInv, StoreTypeOK, PlacedIffLive, AppliedBehindDesired, RegisteredExact,
       CapacityRespected, MoveOwnsCamera, Owns, PortChangeExcludesMoves, ActiveMoveOn, ActiveMove,
       PlacedOn

-----------------------------------------------------------------------------
(* The initial registry is empty.                                            *)
LEMMA InitInv == StoreInit => StoreInv
<1> SUFFICES ASSUME StoreInit PROVE StoreInv
    OBVIOUS
<1>1. StoreTypeOK
    <2>1. AbsentCamera \in CameraRow
        BY DEF AbsentCamera, CameraRow, CameraState
    <2>2. NoMove \in MoveRow
        BY DEF NoMove, MoveRow, MoveState
    <2> QED
        BY <2>1, <2>2 DEF StoreInit, StoreTypeOK, NodeRow
<1>2. \A n \in Nodes : PlacedOn(n) = {}
    BY StoreAssumption DEF StoreAssumption, StoreInit, PlacedOn, AbsentCamera
<1>3. RegisteredExact /\ CapacityRespected
    BY <1>2, FS_EmptySet, StoreAssumption
    DEF StoreAssumption, RegisteredExact, CapacityRespected, StoreInit
<1>4. PlacedIffLive /\ AppliedBehindDesired
    BY StoreAssumption DEF StoreAssumption, StoreInit, PlacedIffLive, AppliedBehindDesired, AbsentCamera
<1>5. \A c \in Cameras : ~ActiveMove(c)
    BY DEF StoreInit, ActiveMove, ActiveMoveState, NoMove
<1> QED
    BY <1>1, <1>3, <1>4, <1>5
    DEF StoreInv, MoveOwnsCamera, PortChangeExcludesMoves, ActiveMoveOn

-----------------------------------------------------------------------------
(* Registration.                                                             *)
LEMMA InsertKeepsInv ==
    ASSUME StoreInv, NEW c \in Cameras, NEW n \in Nodes, NEW s \in Source,
           is_node_eligible(n), InsertCamera(c, n, s)
    PROVE  StoreInv'
<1> USE StoreAssumption DEF StoreAssumption
<1>1. /\ camera' = [camera EXCEPT ![c] = camera'[c]]
      /\ camera'[c] = [state |-> "enabled", source |-> s, desired |-> 1, applied |-> 0,
                       node |-> n, gen |-> 1]
      /\ camera[c].state = "absent"
      /\ camera[c].node \notin Nodes
      /\ move' = move
      /\ node' = [node EXCEPT ![n].registered = @ + 1]
      /\ node[n].registered < Capacity
      /\ camera \in [Cameras -> CameraRow]
      /\ node \in [Nodes -> NodeRow]
    BY DEF StoreInv, StoreTypeOK, InsertCamera, PlacedIffLive, is_node_eligible, CameraRow
<1>2. \A d \in Cameras : d # c => camera'[d] = camera[d]
    BY <1>1
<1>3. StoreTypeOK'
    <2>1. camera'[c] \in CameraRow
        BY <1>1 DEF CameraRow, CameraState
    <2>2. camera' \in [Cameras -> CameraRow]
        BY <1>1, <2>1
    <2>3. node' \in [Nodes -> NodeRow]
        BY <1>1 DEF NodeRow
    <2> QED
        BY <1>1, <2>2, <2>3 DEF StoreInv, StoreTypeOK
<1>4. RegisteredExact' /\ CapacityRespected'
    <2>1. PlacedOn(n)' = PlacedOn(n) \cup {c} /\ c \notin PlacedOn(n)
        BY <1>1, <1>2 DEF PlacedOn
    <2>2. \A m \in Nodes \ {n} : PlacedOn(m)' = PlacedOn(m)
        BY <1>1, <1>2 DEF PlacedOn
    <2>3. Cardinality(PlacedOn(n)') = Cardinality(PlacedOn(n)) + 1
        BY <2>1, PlacedFinite, CountPlaced
    <2> QED
        BY <1>1, <2>2, <2>3 DEF StoreInv, RegisteredExact, CapacityRespected, NodeRow
<1>5. PlacedIffLive' /\ AppliedBehindDesired'
    BY <1>1, <1>2 DEF StoreInv, PlacedIffLive, AppliedBehindDesired
<1>6. \A d \in Cameras : ActiveMove(d)' <=> ActiveMove(d)
    BY <1>1 DEF ActiveMove
<1>7. ~ActiveMove(c)
    BY <1>1 DEF StoreInv, MoveOwnsCamera, Owns
<1>8. MoveOwnsCamera'
    BY <1>1, <1>2, <1>6, <1>7 DEF StoreInv, MoveOwnsCamera, Owns
<1>9. PortChangeExcludesMoves'
    <2>1. \A m \in Nodes : node'[m].portChange = node[m].portChange
        BY <1>1 DEF NodeRow
    <2> QED
        BY <1>1, <1>6, <2>1 DEF StoreInv, PortChangeExcludesMoves, ActiveMoveOn
<1> QED
    BY <1>3, <1>4, <1>5, <1>8, <1>9 DEF StoreInv

-----------------------------------------------------------------------------
(* A transaction on one camera and its move that leaves the placement and    *)
(* the nodes alone keeps the invariant if it keeps the row live and leaves   *)
(* behind either no incomplete move or one that owns the row and touches no  *)
(* node with a port change.                                                  *)
LEMMA RowStepKeepsInv ==
    ASSUME StoreInv, NEW c \in Cameras, NEW row \in CameraRow, NEW m \in MoveRow,
           camera' = [camera EXCEPT ![c] = row],
           move' = [move EXCEPT ![c] = m],
           node' = node,
           row.node = camera[c].node,
           row.node \in Nodes <=> row.state \in {"enabled", "disabled", "deleting"},
           row.applied <= row.desired,
           m.state \in ActiveMoveState =>
               Owns(m, row) /\ ~node[m.src].portChange /\ ~node[m.dst].portChange
    PROVE  StoreInv'
<1>1. /\ camera \in [Cameras -> CameraRow]
      /\ move \in [Cameras -> MoveRow]
      /\ camera'[c] = row /\ move'[c] = m
      /\ \A d \in Cameras : d # c => camera'[d] = camera[d] /\ move'[d] = move[d]
    BY DEF StoreInv, StoreTypeOK
<1>2. StoreTypeOK'
    BY <1>1 DEF StoreInv, StoreTypeOK
<1>3. PlacedIffLive' /\ AppliedBehindDesired'
    BY <1>1 DEF StoreInv, PlacedIffLive, AppliedBehindDesired
<1>4. \A d \in Cameras : camera'[d].node = camera[d].node
    BY <1>1
<1>5. RegisteredExact' /\ CapacityRespected'
    BY <1>4, CountersKept DEF StoreInv
<1>6. MoveOwnsCamera'
    <2> SUFFICES ASSUME NEW d \in Cameras, ActiveMove(d)'
                 PROVE  Owns(move[d], camera[d])'
        BY DEF MoveOwnsCamera
    <2>1. CASE d = c
        <3>1. Owns(m, row)
            BY <1>1, <2>1 DEF ActiveMove
        <3> QED
            BY <1>1, <2>1, <3>1 DEF Owns
    <2>2. CASE d # c
        <3>1. Owns(move[d], camera[d])
            BY <1>1, <2>2 DEF ActiveMove, StoreInv, MoveOwnsCamera
        <3> QED
            BY <1>1, <2>2, <3>1 DEF Owns
    <2> QED
        BY <2>1, <2>2
<1>7. PortChangeExcludesMoves'
    <2> SUFFICES ASSUME NEW n \in Nodes, node[n].portChange, NEW d \in Cameras, ActiveMove(d)',
                        n \in {move'[d].src, move'[d].dst}
                 PROVE  FALSE
        BY DEF PortChangeExcludesMoves, ActiveMoveOn
    <2>1. CASE d = c
        BY <1>1, <2>1 DEF ActiveMove
    <2>2. CASE d # c
        BY <1>1, <2>2 DEF ActiveMove, ActiveMoveOn, StoreInv, PortChangeExcludesMoves
    <2> QED
        BY <2>1, <2>2
<1> QED
    BY <1>2, <1>3, <1>5, <1>6, <1>7 DEF StoreInv

(* Operator changes: they run only while no move is incomplete.              *)
LEMMA MutationKeepsInv ==
    ASSUME StoreInv, NEW c \in Cameras, NEW rev \in Nat, Mutable(c, rev), NEW row \in CameraRow,
           row.state \in {"enabled", "disabled", "deleting"},
           row.desired = rev + 1, row.applied = camera[c].applied, row.node = camera[c].node,
           camera' = [camera EXCEPT ![c] = row], UNCHANGED <<move, node>>
    PROVE  StoreInv'
<1>1. /\ camera[c] \in CameraRow /\ move[c] \in MoveRow
      /\ camera[c].applied <= rev
      /\ camera[c].node \in Nodes
      /\ move[c].state \notin ActiveMoveState
      /\ move' = [move EXCEPT ![c] = move[c]]
    BY DEF StoreInv, StoreTypeOK, Mutable, AppliedBehindDesired, PlacedIffLive, ActiveMove
<1>2. row.applied <= row.desired
    BY <1>1 DEF CameraRow
<1> QED
    BY <1>1, <1>2, RowStepKeepsInv

(* update_camera, when it writes.                                            *)
LEMMA UpdateKeepsInv ==
    ASSUME StoreInv, NEW c \in Cameras, NEW rev \in Nat, NEW s \in Source,
           UpdateCamera(c, rev, s), camera' # camera
    PROVE  StoreInv'
<1> DEFINE r1 == [camera[c] EXCEPT !.source = s]
           row == [r1 EXCEPT !.desired = rev + 1]
<1>1. camera[c] \in CameraRow /\ camera \in [Cameras -> CameraRow]
    BY DEF StoreInv, StoreTypeOK
<1>2. r1 \in CameraRow
    BY <1>1 DEF CameraRow
<1>3. row \in CameraRow
    <2> HIDE DEF r1
    <2> QED
        BY <1>2 DEF CameraRow
<1>4. /\ row.state = camera[c].state /\ row.node = camera[c].node
      /\ row.applied = camera[c].applied /\ row.desired = rev + 1
    BY <1>1 DEF CameraRow
<1>5. camera' = [camera EXCEPT ![c] = row]
    BY <1>1 DEF UpdateCamera
<1>6. Mutable(c, rev) /\ UNCHANGED <<move, node>>
    BY DEF UpdateCamera
<1>7. row.state \in {"enabled", "disabled", "deleting"}
    BY <1>4, <1>6 DEF Mutable
<1> HIDE DEF row
<1> QED
    BY <1>3, <1>4, <1>5, <1>6, <1>7, MutationKeepsInv

(* set_camera_enabled and request_camera_delete write a state and a revision. *)
LEMMA StateChangeKeepsInv ==
    ASSUME StoreInv, NEW c \in Cameras, NEW rev \in Nat, Mutable(c, rev),
           NEW state \in {"enabled", "disabled", "deleting"},
           camera' = [camera EXCEPT ![c].state = state, ![c].desired = rev + 1],
           UNCHANGED <<move, node>>
    PROVE  StoreInv'
<1> DEFINE r1 == [camera[c] EXCEPT !.state = state]
           row == [r1 EXCEPT !.desired = rev + 1]
<1>1. camera[c] \in CameraRow /\ camera \in [Cameras -> CameraRow]
    BY DEF StoreInv, StoreTypeOK
<1>2. r1 \in CameraRow
    BY <1>1 DEF CameraRow, CameraState
<1>3. row \in CameraRow
    <2> HIDE DEF r1
    <2> QED
        BY <1>2 DEF CameraRow
<1>4. /\ row.state = state /\ row.node = camera[c].node
      /\ row.applied = camera[c].applied /\ row.desired = rev + 1
    BY <1>1 DEF CameraRow
<1>5. camera' = [camera EXCEPT ![c] = row]
    BY <1>1
<1> HIDE DEF row
<1> QED
    BY <1>3, <1>4, <1>5, MutationKeepsInv

(* The three operator changes to one camera.                                 *)
LEMMA OperatorRequestKeepsInv ==
    ASSUME StoreInv, NEW c \in Cameras, NEW rev \in Nat, NEW s \in Source, NEW e \in BOOLEAN,
           UpdateCamera(c, rev, s) \/ SetCameraEnabled(c, rev, e) \/ RequestCameraDelete(c, rev)
    PROVE  StoreInv'
<1>1. CASE UpdateCamera(c, rev, s) /\ camera' # camera
    BY <1>1, UpdateKeepsInv
<1>2. CASE UpdateCamera(c, rev, s) /\ camera' = camera
    <2>1. storeVars' = storeVars
        BY <1>2 DEF UpdateCamera, storeVars
    <2> QED
        BY <2>1, UnchangedKeepsInv
<1>3. CASE SetCameraEnabled(c, rev, e)
    BY <1>3, StateChangeKeepsInv DEF SetCameraEnabled
<1>4. CASE RequestCameraDelete(c, rev)
    BY <1>4, StateChangeKeepsInv DEF RequestCameraDelete
<1> QED
    BY <1>1, <1>2, <1>3, <1>4

-----------------------------------------------------------------------------
(* The move saga.                                                            *)

(* create_camera_move: the new move owns the row it has just advanced.       *)
LEMMA CreateMoveKeepsInv ==
    ASSUME StoreInv, NEW c \in Cameras, NEW rev \in Nat, NEW n \in Nodes,
           NEW force \in BOOLEAN, NEW confirmed \in 0..1,
           CreateCameraMove(c, rev, n, force, confirmed)
    PROVE  StoreInv'
<1> DEFINE row == [camera[c] EXCEPT !.desired = rev + 1]
           m == [state |-> "prepare_target", src |-> camera[c].node, dst |-> n,
                 sgen |-> camera[c].gen, rev |-> rev + 1, force |-> force,
                 confirmed |-> confirmed, expired |-> FALSE]
<1>1. /\ camera[c] \in CameraRow /\ camera \in [Cameras -> CameraRow]
      /\ camera[c].state = "enabled" /\ camera[c].node \in Nodes
      /\ camera[c].applied <= camera[c].desired /\ camera[c].desired = rev
      /\ camera[c].node # n
      /\ ~node[camera[c].node].portChange /\ ~node[n].portChange
    BY DEF StoreInv, StoreTypeOK, CreateCameraMove, PlacedIffLive, AppliedBehindDesired
<1>2. row \in CameraRow
    BY <1>1 DEF CameraRow
<1>3. m \in MoveRow
    BY <1>1 DEF MoveRow, MoveState, ActiveMoveState, CameraRow
<1>4. /\ row.state = "enabled" /\ row.node = camera[c].node /\ row.gen = camera[c].gen
      /\ row.desired = rev + 1 /\ row.applied <= row.desired
    BY <1>1 DEF CameraRow
<1>5. Owns(m, row)
    BY <1>1, <1>4 DEF Owns
<1>6. ~node[m.src].portChange /\ ~node[m.dst].portChange
    BY <1>1
<1>7. camera' = [camera EXCEPT ![c] = row] /\ move' = [move EXCEPT ![c] = m] /\ node' = node
    BY <1>1 DEF CreateCameraMove
<1> HIDE DEF row, m
<1> QED
    BY <1>1, <1>2, <1>3, <1>4, <1>5, <1>6, <1>7, RowStepKeepsInv

(* The steps that only advance the saga: the deadline, the cleaned source,   *)
(* the abort.                                                                *)
LEMMA AdvanceKeepsInv ==
    ASSUME StoreInv, NEW c \in Cameras,
           MoveDeadlinePasses(c) \/ MarkCameraMoveSourceCleaned(c) \/ AbortCameraMove(c)
    PROVE  StoreInv'
<1> DEFINE m == move'[c]
<1>1. /\ camera[c] \in CameraRow /\ camera \in [Cameras -> CameraRow]
      /\ move[c] \in MoveRow /\ move \in [Cameras -> MoveRow]
      /\ ActiveMove(c)
      /\ camera[c].applied <= camera[c].desired
    BY DEF StoreInv, StoreTypeOK, AppliedBehindDesired, MoveDeadlinePasses,
           MarkCameraMoveSourceCleaned, AbortCameraMove, ActiveMove, ActiveMoveState
<1>2. /\ Owns(move[c], camera[c])
      /\ ~node[move[c].src].portChange /\ ~node[move[c].dst].portChange
    BY <1>1 DEF StoreInv, MoveOwnsCamera, PortChangeExcludesMoves, ActiveMoveOn, Owns
<1>3. /\ camera' = camera /\ node' = node
      /\ \/ m = [move[c] EXCEPT !.expired = TRUE]
         \/ move[c].state = "cleanup_source" /\ m = [move[c] EXCEPT !.state = "activate_target"]
         \/ m = [move[c] EXCEPT !.state = "aborted"]
      /\ move' = [move EXCEPT ![c] = m]
    BY <1>1 DEF MoveDeadlinePasses, MarkCameraMoveSourceCleaned, AbortCameraMove
<1> HIDE DEF m
<1>4. m \in MoveRow
    BY <1>1, <1>3 DEF MoveRow, MoveState, ActiveMoveState
<1>5. m.state \in ActiveMoveState =>
          Owns(m, camera[c]) /\ ~node[m.src].portChange /\ ~node[m.dst].portChange
    BY <1>1, <1>2, <1>3 DEF Owns, MoveRow, MoveState, ActiveMoveState
<1>6. camera' = [camera EXCEPT ![c] = camera[c]]
    BY <1>1, <1>3
<1>7. camera[c].node \in Nodes <=> camera[c].state \in {"enabled", "disabled", "deleting"}
    BY DEF StoreInv, PlacedIffLive
<1> QED
    BY <1>1, <1>3, <1>4, <1>5, <1>6, <1>7, RowStepKeepsInv

(* complete_camera_move and request_camera_move_abort.                       *)
LEMMA EndKeepsInv ==
    ASSUME StoreInv, NEW c \in Cameras, CompleteCameraMove(c) \/ RequestCameraMoveAbort(c)
    PROVE  StoreInv'
<1> DEFINE row == camera'[c]
           m == move'[c]
<1>1. /\ camera[c] \in CameraRow /\ camera \in [Cameras -> CameraRow]
      /\ move[c] \in MoveRow /\ move \in [Cameras -> MoveRow]
      /\ ActiveMove(c)
      /\ camera[c].applied <= camera[c].desired
    BY DEF StoreInv, StoreTypeOK, AppliedBehindDesired, CompleteCameraMove,
           RequestCameraMoveAbort, ActiveMove, ActiveMoveState
<1>2. /\ Owns(move[c], camera[c])
      /\ ~node[move[c].src].portChange /\ ~node[move[c].dst].portChange
    BY <1>1 DEF StoreInv, MoveOwnsCamera, PortChangeExcludesMoves, ActiveMoveOn, Owns
<1>3. /\ node' = node
      /\ camera' = [camera EXCEPT ![c] = row]
      /\ move' = [move EXCEPT ![c] = m]
    BY <1>1 DEF CompleteCameraMove, RequestCameraMoveAbort
<1>4. \/ /\ move[c].state = "activate_target"
         /\ row = [camera[c] EXCEPT !.applied = move[c].rev]
         /\ m = [move[c] EXCEPT !.state = "complete"]
      \/ /\ move[c].state = "prepare_target"
         /\ row = [camera[c] EXCEPT !.desired = move[c].rev + 1]
         /\ m = [move[c] EXCEPT !.state = "cleanup_target"]
    BY <1>1, <1>2 DEF CompleteCameraMove, RequestCameraMoveAbort, Owns
<1> HIDE DEF row, m
<1>5. move[c].rev \in Nat /\ camera[c].desired = move[c].rev
    BY <1>1, <1>2, <1>4 DEF Owns, MoveRow
<1>6. row \in CameraRow
    BY <1>1, <1>4, <1>5 DEF CameraRow
<1>7. m \in MoveRow
    BY <1>1, <1>4 DEF MoveRow, MoveState, ActiveMoveState
<1>8. /\ row.node = camera[c].node /\ row.state = camera[c].state
      /\ row.applied <= row.desired
    BY <1>1, <1>4, <1>5 DEF CameraRow
<1>9. m.state \in ActiveMoveState =>
          Owns(m, row) /\ ~node[m.src].portChange /\ ~node[m.dst].portChange
    <2>1. CASE m = [move[c] EXCEPT !.state = "complete"]
        <3>1. m.state = "complete"
            BY <1>1, <2>1 DEF MoveRow
        <3> QED
            BY <3>1 DEF ActiveMoveState
    <2>2. CASE /\ move[c].state = "prepare_target"
               /\ row = [camera[c] EXCEPT !.desired = move[c].rev + 1]
               /\ m = [move[c] EXCEPT !.state = "cleanup_target"]
        <3>1. /\ m.state = "cleanup_target" /\ m.src = move[c].src /\ m.dst = move[c].dst
              /\ m.sgen = move[c].sgen /\ m.rev = move[c].rev
            BY <1>1, <2>2 DEF MoveRow
        <3>2. /\ row.state = camera[c].state /\ row.node = camera[c].node
              /\ row.gen = camera[c].gen /\ row.desired = m.rev + 1
            BY <1>1, <2>2, <3>1 DEF CameraRow
        <3> QED
            BY <1>2, <2>2, <3>1, <3>2 DEF Owns
    <2> QED
        BY <1>4, <2>1, <2>2
<1>10. row.node \in Nodes <=> row.state \in {"enabled", "disabled", "deleting"}
    BY <1>8 DEF StoreInv, PlacedIffLive
<1> QED
    BY <1>3, <1>6, <1>7, <1>8, <1>9, <1>10, RowStepKeepsInv

(* switch_camera_move: one placement and two counters change together.       *)
LEMMA SwitchKeepsInv ==
    ASSUME StoreInv, NEW c \in Cameras, SwitchCameraMove(c)
    PROVE  StoreInv'
<1> USE StoreAssumption DEF StoreAssumption
<1>1. /\ camera \in [Cameras -> CameraRow] /\ move \in [Cameras -> MoveRow]
      /\ node \in [Nodes -> NodeRow]
      /\ move[c].state = "prepare_target" /\ ActiveMove(c)
    BY DEF StoreInv, StoreTypeOK, SwitchCameraMove, Switchable, ActiveMove, ActiveMoveState
<1>2. Owns(move[c], camera[c])
    BY <1>1 DEF StoreInv, MoveOwnsCamera
<1>3. PICK src \in Nodes, dst \in Nodes : src = move[c].src /\ dst = move[c].dst
    BY <1>2 DEF Owns
<1>4. /\ src # dst
      /\ camera[c].node = src /\ camera[c].gen = move[c].sgen
      /\ camera[c].desired = move[c].rev /\ camera[c].state = "enabled"
      /\ ~node[src].portChange /\ ~node[dst].portChange
      /\ node[dst].registered < Capacity
    BY <1>1, <1>2, <1>3 DEF Owns, SwitchCameraMove, Switchable, SwitchConflict, is_node_eligible
<1>5. /\ move[c].sgen + 1 \in Nat
      /\ move[c].sgen \in Nat
    BY <1>1 DEF MoveRow
<1>6. /\ camera' = [camera EXCEPT ![c].node = dst, ![c].gen = move[c].sgen + 1]
      /\ node' = [node EXCEPT ![src].registered = @ - 1, ![dst].registered = @ + 1]
      /\ move' = [move EXCEPT ![c].state = "cleanup_source"]
    BY <1>3 DEF SwitchCameraMove, SwitchTo
<1>7. /\ camera' \in [Cameras -> CameraRow]
      /\ camera'[c].node = dst /\ camera'[c].gen = move[c].sgen + 1
      /\ camera'[c].state = "enabled" /\ camera'[c].desired = camera[c].desired
      /\ camera'[c].applied = camera[c].applied
      /\ \A d \in Cameras : d # c => camera'[d] = camera[d]
    BY <1>1, <1>4, <1>5, <1>6 DEF CameraRow
<1>8. /\ move' \in [Cameras -> MoveRow]
      /\ move'[c].state = "cleanup_source" /\ move'[c].src = src /\ move'[c].dst = dst
      /\ move'[c].sgen = move[c].sgen /\ move'[c].rev = move[c].rev
      /\ \A d \in Cameras : d # c => move'[d] = move[d]
    BY <1>1, <1>3, <1>6 DEF MoveRow, MoveState, ActiveMoveState
<1>9. node[src].registered \in Nat /\ node[src].registered # 0
    <2>1. c \in PlacedOn(src)
        BY <1>4 DEF PlacedOn
    <2> QED
        BY <1>1, <1>4, <2>1, PlacedFinite, CountPlaced DEF StoreInv, RegisteredExact, NodeRow
<1>10. /\ node' \in [Nodes -> NodeRow]
       /\ node'[src].registered = node[src].registered - 1
       /\ node'[dst].registered = node[dst].registered + 1
       /\ \A n \in Nodes : node'[n].portChange = node[n].portChange
       /\ \A n \in Nodes : n # src /\ n # dst => node'[n] = node[n]
    <2>1. /\ node'[src] = [node[src] EXCEPT !.registered = @ - 1]
          /\ node'[dst] = [node[dst] EXCEPT !.registered = @ + 1]
          /\ \A n \in Nodes : n # src /\ n # dst => node'[n] = node[n]
          /\ node' = [n \in Nodes |-> node'[n]]
        BY <1>1, <1>4, <1>6
    <2>2. /\ node[src] \in NodeRow /\ node[src].registered - 1 \in Nat
          /\ node[dst] \in NodeRow /\ node[dst].registered + 1 \in Nat
        BY <1>1, <1>9 DEF NodeRow
    <2>3. /\ node'[src] \in NodeRow
          /\ node'[src].registered = node[src].registered - 1
          /\ node'[src].portChange = node[src].portChange
        BY <2>1, <2>2 DEF NodeRow
    <2>4. /\ node'[dst] \in NodeRow
          /\ node'[dst].registered = node[dst].registered + 1
          /\ node'[dst].portChange = node[dst].portChange
        BY <2>1, <2>2 DEF NodeRow
    <2>5. node'[src] \in NodeRow /\ node'[dst] \in NodeRow
        BY <2>3, <2>4
    <2>6. \A n \in Nodes : node'[n] \in NodeRow
        BY <1>1, <2>1, <2>5
    <2>7. node' \in [Nodes -> NodeRow]
        BY <2>1, <2>6
    <2> QED
        BY <2>1, <2>3, <2>4, <2>7
<1>11. StoreTypeOK'
    BY <1>7, <1>8, <1>10 DEF StoreTypeOK
<1>12. PlacedIffLive' /\ AppliedBehindDesired'
    BY <1>4, <1>7 DEF StoreInv, PlacedIffLive, AppliedBehindDesired
<1>13. RegisteredExact' /\ CapacityRespected'
    <2>1. PlacedOn(src)' = PlacedOn(src) \ {c} /\ c \in PlacedOn(src)
        BY <1>4, <1>7 DEF PlacedOn
    <2>2. PlacedOn(dst)' = PlacedOn(dst) \cup {c} /\ c \notin PlacedOn(dst)
        BY <1>4, <1>7 DEF PlacedOn
    <2>3. \A n \in Nodes : n # src /\ n # dst => PlacedOn(n)' = PlacedOn(n)
        BY <1>4, <1>7 DEF PlacedOn
    <2>4. Cardinality(PlacedOn(src)') = Cardinality(PlacedOn(src)) - 1
        BY <2>1, PlacedFinite, CountPlaced
    <2>5. Cardinality(PlacedOn(dst)') = Cardinality(PlacedOn(dst)) + 1
        BY <2>2, PlacedFinite, CountPlaced
    <2> SUFFICES ASSUME NEW n \in Nodes
                 PROVE  /\ node'[n].registered = Cardinality(PlacedOn(n)')
                        /\ node'[n].registered <= Capacity
        BY DEF RegisteredExact, CapacityRespected
    <2>6. /\ node[n].registered = Cardinality(PlacedOn(n)) /\ node[n].registered <= Capacity
          /\ node[n].registered \in Nat
        BY <1>1 DEF StoreInv, RegisteredExact, CapacityRespected, NodeRow
    <2>7. CASE n = src
        BY <1>9, <1>10, <2>4, <2>6, <2>7
    <2>8. CASE n = dst
        BY <1>4, <1>10, <2>5, <2>6, <2>8
    <2>9. CASE n # src /\ n # dst
        BY <1>10, <2>3, <2>6, <2>9
    <2> QED
        BY <2>7, <2>8, <2>9
<1>14. MoveOwnsCamera'
    <2> SUFFICES ASSUME NEW d \in Cameras, ActiveMove(d)'
                 PROVE  Owns(move[d], camera[d])'
        BY DEF MoveOwnsCamera
    <2>1. CASE d = c
        <3>1. /\ camera'[d].state = "enabled" /\ camera'[d].node = move'[d].dst
              /\ camera'[d].gen = move'[d].sgen + 1 /\ camera'[d].desired = move'[d].rev
              /\ move'[d].src # move'[d].dst
              /\ move'[d].src \in Nodes /\ move'[d].dst \in Nodes
              /\ move'[d].state = "cleanup_source"
            BY <1>4, <1>7, <1>8, <2>1
        <3> QED
            BY <3>1 DEF Owns
    <2>2. CASE d # c
        BY <1>7, <1>8, <2>2 DEF ActiveMove, StoreInv, MoveOwnsCamera, Owns
    <2> QED
        BY <2>1, <2>2
<1>15. PortChangeExcludesMoves'
    <2> SUFFICES ASSUME NEW n \in Nodes, node[n].portChange, NEW d \in Cameras, ActiveMove(d)',
                        n \in {move'[d].src, move'[d].dst}
                 PROVE  FALSE
        BY <1>10 DEF PortChangeExcludesMoves, ActiveMoveOn
    <2>1. CASE d = c
        BY <1>4, <1>8, <2>1
    <2>2. CASE d # c
        BY <1>8, <2>2 DEF ActiveMove, ActiveMoveOn, StoreInv, PortChangeExcludesMoves
    <2> QED
        BY <2>1, <2>2
<1> QED
    BY <1>11, <1>12, <1>13, <1>14, <1>15 DEF StoreInv

-----------------------------------------------------------------------------
(* mark_camera_applied on a camera that stays.                               *)
LEMMA ApplyKeepsInv ==
    ASSUME StoreInv, NEW c \in Cameras, NEW n \in Nodes, NEW gen \in Nat, NEW rev \in Nat,
           MarkCameraApplied(c, n, gen, rev), camera[c].state # "deleting"
    PROVE  StoreInv'
<1> DEFINE row == [camera[c] EXCEPT !.applied = rev]
<1>1. /\ camera[c] \in CameraRow /\ camera \in [Cameras -> CameraRow]
      /\ move[c] \in MoveRow /\ move \in [Cameras -> MoveRow]
      /\ camera[c].desired = rev /\ move[c].state \notin ActiveMoveState
    BY DEF StoreInv, StoreTypeOK, MarkCameraApplied, ApplyFence, ActiveMove
<1>2. row \in CameraRow
    BY <1>1 DEF CameraRow
<1>3. /\ row.state = camera[c].state /\ row.node = camera[c].node
      /\ row.applied <= row.desired
    BY <1>1 DEF CameraRow
<1>4. /\ camera' = [camera EXCEPT ![c] = row] /\ move' = [move EXCEPT ![c] = move[c]]
      /\ node' = node
    BY <1>1 DEF MarkCameraApplied
<1>5. row.node \in Nodes <=> row.state \in {"enabled", "disabled", "deleting"}
    BY <1>3 DEF StoreInv, PlacedIffLive
<1> HIDE DEF row
<1> QED
    BY <1>1, <1>2, <1>3, <1>4, <1>5, RowStepKeepsInv

(* mark_camera_applied on a camera being deleted removes its placement.      *)
LEMMA FinalDeleteKeepsInv ==
    ASSUME StoreInv, NEW c \in Cameras, NEW n \in Nodes, NEW gen \in Nat, NEW rev \in Nat,
           MarkCameraApplied(c, n, gen, rev), camera[c].state = "deleting"
    PROVE  StoreInv'
<1> USE StoreAssumption DEF StoreAssumption
<1>1. /\ camera \in [Cameras -> CameraRow] /\ move \in [Cameras -> MoveRow]
      /\ node \in [Nodes -> NodeRow]
      /\ camera[c].node = n /\ camera[c].desired = rev /\ ~ActiveMove(c)
      /\ move' = move
    BY DEF StoreInv, StoreTypeOK, MarkCameraApplied, ApplyFence
<1>2. node[n].registered > 0 /\ node[n] \in NodeRow /\ node[n].registered - 1 \in Nat
    <2>1. c \in PlacedOn(n)
        BY <1>1 DEF PlacedOn
    <2>2. Cardinality(PlacedOn(n)) # 0 /\ Cardinality(PlacedOn(n)) \in Nat
        BY <2>1, PlacedFinite, CountPlaced
    <2>3. node[n].registered = Cardinality(PlacedOn(n)) /\ node[n] \in NodeRow
        BY <1>1 DEF StoreInv, RegisteredExact
    <2> QED
        BY <2>2, <2>3
<1>3. /\ node'[n] = [node[n] EXCEPT !.registered = @ - 1]
      /\ \A k \in Nodes : k # n => node'[k] = node[k]
      /\ node' = [k \in Nodes |-> node'[k]]
    BY <1>1, <1>2 DEF MarkCameraApplied
<1>4. /\ node'[n] \in NodeRow
      /\ node'[n].registered = node[n].registered - 1
      /\ node'[n].portChange = node[n].portChange
    BY <1>2, <1>3 DEF NodeRow
<1>5. node' \in [Nodes -> NodeRow]
    BY <1>1, <1>3, <1>4
<1>6. /\ camera'[c].state = "deleted" /\ camera'[c].node = NoNode
      /\ camera'[c].applied = rev /\ camera'[c].desired = rev
      /\ camera' \in [Cameras -> CameraRow]
      /\ \A d \in Cameras : d # c => camera'[d] = camera[d]
    BY <1>1 DEF MarkCameraApplied, CameraRow, CameraState
<1>7. StoreTypeOK'
    BY <1>1, <1>5, <1>6 DEF StoreTypeOK
<1>8. PlacedIffLive' /\ AppliedBehindDesired'
    BY <1>6 DEF StoreInv, PlacedIffLive, AppliedBehindDesired
<1>9. RegisteredExact' /\ CapacityRespected'
    <2>1. PlacedOn(n)' = PlacedOn(n) \ {c} /\ c \in PlacedOn(n)
        BY <1>1, <1>6 DEF PlacedOn
    <2>2. \A k \in Nodes : k # n => PlacedOn(k)' = PlacedOn(k)
        BY <1>1, <1>6 DEF PlacedOn
    <2>3. Cardinality(PlacedOn(n)') = Cardinality(PlacedOn(n)) - 1
        BY <2>1, PlacedFinite, CountPlaced
    <2> SUFFICES ASSUME NEW k \in Nodes
                 PROVE  /\ node'[k].registered = Cardinality(PlacedOn(k)')
                        /\ node'[k].registered <= Capacity
        BY DEF RegisteredExact, CapacityRespected
    <2>4. /\ node[k].registered = Cardinality(PlacedOn(k)) /\ node[k].registered <= Capacity
          /\ node[k].registered \in Nat
        BY <1>1 DEF StoreInv, RegisteredExact, CapacityRespected, NodeRow
    <2>5. CASE k = n
        BY <1>4, <2>3, <2>4, <2>5
    <2>6. CASE k # n
        BY <1>3, <2>2, <2>4, <2>6
    <2> QED
        BY <2>5, <2>6
<1>10. \A d \in Cameras : ActiveMove(d)' <=> ActiveMove(d)
    BY <1>1 DEF ActiveMove
<1>11. MoveOwnsCamera'
    BY <1>1, <1>6, <1>10 DEF StoreInv, MoveOwnsCamera, Owns
<1>12. PortChangeExcludesMoves'
    BY <1>1, <1>3, <1>4, <1>10 DEF StoreInv, PortChangeExcludesMoves, ActiveMoveOn
<1> QED
    BY <1>7, <1>8, <1>9, <1>11, <1>12 DEF StoreInv

(* Node transactions leave cameras, moves and counters alone; a port change  *)
(* begins only on a node no incomplete move touches.                         *)
LEMMA NodeStepKeepsInv ==
    ASSUME StoreInv, NEW n \in Nodes, NEW row \in NodeRow,
           node' = [node EXCEPT ![n] = row], UNCHANGED <<camera, move>>,
           row.registered = node[n].registered,
           row.portChange => node[n].portChange \/ ~ActiveMoveOn(n)
    PROVE  StoreInv'
<1>1. /\ node \in [Nodes -> NodeRow] /\ node'[n] = row
      /\ \A k \in Nodes : k # n => node'[k] = node[k]
    BY DEF StoreInv, StoreTypeOK
<1>2. StoreTypeOK' /\ PlacedIffLive' /\ AppliedBehindDesired'
    BY <1>1 DEF StoreInv, StoreTypeOK, PlacedIffLive, AppliedBehindDesired
<1>3. RegisteredExact' /\ CapacityRespected'
    BY <1>1, CountersKept DEF StoreInv
<1>4. MoveOwnsCamera'
    BY DEF StoreInv, MoveOwnsCamera, ActiveMove, Owns
<1>5. \A k : ActiveMoveOn(k)' <=> ActiveMoveOn(k)
    BY DEF ActiveMoveOn, ActiveMove
<1>6. PortChangeExcludesMoves'
    BY <1>1, <1>5 DEF StoreInv, PortChangeExcludesMoves
<1> QED
    BY <1>2, <1>3, <1>4, <1>6 DEF StoreInv

(* Observations and the two ends of a port change.                           *)
LEMMA NodeTransactionKeepsInv ==
    ASSUME StoreInv, NodeTransaction
    PROVE  StoreInv'
<1>1. PICK n \in Nodes : \/ \E a, r \in BOOLEAN : ObserveNode(n, a, r)
                         \/ BeginPortChange(n)
                         \/ FinishPortChange(n)
    BY DEF NodeTransaction
<1>2. node[n] \in NodeRow /\ node \in [Nodes -> NodeRow]
    BY DEF StoreInv, StoreTypeOK
<1>3. /\ UNCHANGED <<camera, move>>
      /\ node' = [node EXCEPT ![n] = node'[n]]
      /\ node'[n] \in NodeRow
      /\ node'[n].registered = node[n].registered
      /\ node'[n].portChange => node[n].portChange \/ ~ActiveMoveOn(n)
    <2>1. CASE \E a, r \in BOOLEAN : ObserveNode(n, a, r)
        <3>1. PICK a \in BOOLEAN, r \in BOOLEAN : ObserveNode(n, a, r)
            BY <2>1
        <3> DEFINE k == [node[n] EXCEPT !.admitting = a]
        <3>2. node'[n] = [k EXCEPT !.running = r] /\ node' = [node EXCEPT ![n] = node'[n]]
            BY <1>2, <3>1 DEF ObserveNode
        <3>3. /\ k \in NodeRow /\ k.registered = node[n].registered
              /\ k.portChange = node[n].portChange
            BY <1>2 DEF NodeRow
        <3> HIDE DEF k
        <3>4. /\ node'[n] \in NodeRow /\ node'[n].registered = k.registered
              /\ node'[n].portChange = k.portChange
            BY <3>2, <3>3 DEF NodeRow
        <3> QED
            BY <3>1, <3>2, <3>3, <3>4 DEF ObserveNode
    <2>2. CASE BeginPortChange(n)
        BY <1>2, <2>2 DEF BeginPortChange, NodeRow
    <2>3. CASE FinishPortChange(n)
        <3>1. PICK r \in BOOLEAN :
                  node' = [node EXCEPT ![n].portChange = FALSE, ![n].running = r]
            BY <2>3 DEF FinishPortChange
        <3> DEFINE k == [node[n] EXCEPT !.portChange = FALSE]
        <3>2. node'[n] = [k EXCEPT !.running = r] /\ node' = [node EXCEPT ![n] = node'[n]]
            BY <1>2, <3>1
        <3>3. k \in NodeRow /\ k.registered = node[n].registered /\ k.portChange = FALSE
            BY <1>2 DEF NodeRow
        <3> HIDE DEF k
        <3>4. /\ node'[n] \in NodeRow /\ node'[n].registered = k.registered
              /\ node'[n].portChange = k.portChange
            BY <3>2, <3>3 DEF NodeRow
        <3> QED
            BY <2>3, <3>2, <3>3, <3>4 DEF FinishPortChange
    <2> QED
        BY <1>1, <2>1, <2>2, <2>3
<1> QED
    BY <1>3, NodeStepKeepsInv

-----------------------------------------------------------------------------
(* Every transaction keeps the invariant.                                    *)
LEMMA NextKeepsInv ==
    ASSUME StoreInv, [StoreNext]_storeVars
    PROVE  StoreInv'
<1>1. CASE Registration
    <2>1. PICK c \in Cameras, s \in Source : PlaceCameraAutomatically(c, s)
                                             \/ \E n \in Nodes : PlaceCameraManually(c, n, s)
        BY <1>1 DEF Registration
    <2>2. \E n \in Nodes : is_node_eligible(n) /\ InsertCamera(c, n, s)
        BY <2>1 DEF PlaceCameraAutomatically, PlaceCameraManually, LeastLoaded, PlacementCandidates
    <2> QED
        BY <2>2, InsertKeepsInv
<1>2. CASE OperatorRequest
    <2>1. PICK c \in Cameras, rev \in 0..MaxRevision :
              \/ \E s \in Source : UpdateCamera(c, rev, s)
              \/ \E e \in BOOLEAN : SetCameraEnabled(c, rev, e)
              \/ RequestCameraDelete(c, rev)
              \/ \E n \in Nodes, force \in BOOLEAN, confirmed \in 0..1 :
                     CreateCameraMove(c, rev, n, force, confirmed)
        BY <1>2 DEF OperatorRequest
    <2>2. rev \in Nat
        BY StoreAssumption DEF StoreAssumption
    <2>3. CASE \E s \in Source : UpdateCamera(c, rev, s)
        BY <2>2, <2>3, OperatorRequestKeepsInv
    <2>4. CASE \E e \in BOOLEAN : SetCameraEnabled(c, rev, e)
        BY <2>2, <2>4, StateChangeKeepsInv DEF SetCameraEnabled
    <2>5. CASE RequestCameraDelete(c, rev)
        BY <2>2, <2>5, StateChangeKeepsInv DEF RequestCameraDelete
    <2>6. CASE \E n \in Nodes, force \in BOOLEAN, confirmed \in 0..1 :
                   CreateCameraMove(c, rev, n, force, confirmed)
        BY <2>2, <2>6, CreateMoveKeepsInv
    <2> QED
        BY <2>1, <2>3, <2>4, <2>5, <2>6
<1>3. CASE SagaTransaction
    BY <1>3, AdvanceKeepsInv, EndKeepsInv, SwitchKeepsInv DEF SagaTransaction
<1>4. CASE ReconcileTransaction
    <2>1. PICK c \in Cameras, n \in Nodes, gen \in 1..(MaxRevision + 1),
               rev \in 1..(MaxRevision + 1) : MarkCameraApplied(c, n, gen, rev)
        BY <1>4 DEF ReconcileTransaction
    <2>2. gen \in Nat /\ rev \in Nat
        BY StoreAssumption DEF StoreAssumption
    <2> QED
        BY <2>1, <2>2, ApplyKeepsInv, FinalDeleteKeepsInv
<1>5. CASE NodeTransaction
    BY <1>5, NodeTransactionKeepsInv
<1>6. CASE UNCHANGED storeVars
    BY <1>6, UnchangedKeepsInv
<1> QED
    BY <1>1, <1>2, <1>3, <1>4, <1>5, <1>6 DEF StoreNext

(* The registry satisfies its invariant in every reachable state.            *)
THEOREM StoreInvariant == StoreSpec => []StoreInv
<1>1. StoreInv /\ [StoreNext]_storeVars => StoreInv'
    BY NextKeepsInv
<1> QED
    BY <1>1, InitInv, PTL DEF StoreSpec

(* The tables keep their types.                                              *)
THEOREM StoreTypeCorrect == StoreSpec => []StoreTypeOK
<1>1. StoreInv => StoreTypeOK
    BY DEF StoreInv
<1> QED
    BY <1>1, StoreInvariant, PTL

(* registered_cameras counts the placements of the node, whatever            *)
(* registrations, moves and deletions interleave.                            *)
THEOREM CountersExact == StoreSpec => []RegisteredExact
<1>1. StoreInv => RegisteredExact
    BY DEF StoreInv
<1> QED
    BY <1>1, StoreInvariant, PTL

(* No interleaving of registrations and moves overfills a node.              *)
THEOREM CapacityKept == StoreSpec => []CapacityRespected
<1>1. StoreInv => CapacityRespected
    BY DEF StoreInv
<1> QED
    BY <1>1, StoreInvariant, PTL

(* An incomplete move finds its camera as it left it.                        *)
THEOREM MovesOwnTheirCamera == StoreSpec => []MoveOwnsCamera
<1>1. StoreInv => MoveOwnsCamera
    BY DEF StoreInv
<1> QED
    BY <1>1, StoreInvariant, PTL

(* A prepared port change and an incomplete move never share a node.         *)
THEOREM PortChangesExcludeMoves == StoreSpec => []PortChangeExcludesMoves
<1>1. StoreInv => PortChangeExcludesMoves
    BY DEF StoreInv
<1> QED
    BY <1>1, StoreInvariant, PTL

-----------------------------------------------------------------------------
(* What one transaction does to one camera row.  Placement: it stays, or the *)
(* camera is registered, switched or finally deleted.  Applied revision: it  *)
(* grows, and stays behind the desired one.                                  *)
PlacementChange(d) ==
    \/ camera'[d].node = camera[d].node /\ camera'[d].gen = camera[d].gen
    \/ /\ camera[d].node \notin Nodes
       /\ camera'[d].node \in Nodes /\ ~node[camera'[d].node].portChange
    \/ /\ camera'[d].node = move[d].dst /\ ~node[move[d].dst].portChange
       /\ camera'[d].gen = camera[d].gen + 1
       /\ move[d].state = "prepare_target" /\ ~move[d].expired
    \/ camera'[d].state = "deleted" /\ camera'[d].node = NoNode

RevisionChange(d) ==
    /\ camera[d].applied <= camera'[d].applied
    /\ camera'[d].state = "absent" => camera[d].state = "absent" /\ camera'[d].applied = camera[d].applied

(* A row that keeps its placement, its generation and its applied revision,  *)
(* or does not change at all.                                                *)
LEMMA RowKept ==
    ASSUME StoreInv, NEW d \in Cameras,
           /\ camera'[d].node = camera[d].node /\ camera'[d].gen = camera[d].gen
           /\ camera'[d].applied = camera[d].applied
           /\ camera'[d].state = camera[d].state
              \/ camera'[d].state \in {"enabled", "disabled", "deleting"}
    PROVE  PlacementChange(d) /\ RevisionChange(d)
<1>1. camera[d].applied \in Nat
    BY DEF StoreInv, StoreTypeOK, CameraRow
<1> QED
    BY <1>1 DEF PlacementChange, RevisionChange

(* Every transaction does one of these to every camera.                      *)
LEMMA RowChanges ==
    ASSUME StoreInv, AbsentUnapplied, StoreNext, NEW d \in Cameras
    PROVE  PlacementChange(d) /\ RevisionChange(d)
<1> USE StoreAssumption DEF StoreAssumption
<1>1. /\ camera \in [Cameras -> CameraRow] /\ camera[d] \in CameraRow
      /\ camera[d].applied \in Nat /\ camera[d].desired \in Nat
      /\ camera[d].applied <= camera[d].desired
    BY DEF StoreInv, StoreTypeOK, CameraRow, AppliedBehindDesired
<1>2. ASSUME NEW c \in Cameras, d # c, camera' = [camera EXCEPT ![c] = camera'[c]]
      PROVE  PlacementChange(d) /\ RevisionChange(d)
    <2>1. camera'[d] = camera[d]
        BY <1>1, <1>2
    <2> QED
        BY <2>1, RowKept
<1>3. ASSUME camera' = camera
      PROVE  PlacementChange(d) /\ RevisionChange(d)
    BY <1>3, RowKept
<1>4. CASE Registration
    <2>1. PICK c \in Cameras, s \in Source, n \in Nodes :
              ~node[n].portChange /\ InsertCamera(c, n, s)
        BY <1>4 DEF Registration, PlaceCameraAutomatically, PlaceCameraManually, LeastLoaded,
                    PlacementCandidates
    <2>2. CASE d = c
        <3>1. /\ camera'[d].node = n /\ camera'[d].applied = 0 /\ camera'[d].state = "enabled"
              /\ camera[d].applied = 0 /\ camera[d].node \notin Nodes
            BY <1>1, <2>1, <2>2 DEF InsertCamera, AbsentUnapplied, StoreInv, PlacedIffLive
        <3> QED
            BY <2>1, <3>1 DEF PlacementChange, RevisionChange
    <2>3. CASE d # c
        BY <1>1, <1>2, <2>1, <2>3 DEF InsertCamera
    <2> QED
        BY <2>2, <2>3
<1>5. CASE OperatorRequest
    <2>1. PICK c \in Cameras, rev \in 0..MaxRevision :
              \/ \E s \in Source : UpdateCamera(c, rev, s)
              \/ \E e \in BOOLEAN : SetCameraEnabled(c, rev, e)
              \/ RequestCameraDelete(c, rev)
              \/ \E n \in Nodes, force \in BOOLEAN, confirmed \in 0..1 :
                     CreateCameraMove(c, rev, n, force, confirmed)
        BY <1>5 DEF OperatorRequest
    <2>2. CASE d = c
        <3>1. /\ camera'[d].node = camera[d].node /\ camera'[d].gen = camera[d].gen
              /\ camera'[d].applied = camera[d].applied
              /\ \/ camera'[d].state = camera[d].state
                 \/ camera'[d].state \in {"enabled", "disabled", "deleting"}
            <4>1. CASE \E s \in Source : UpdateCamera(c, rev, s)
                BY <1>1, <2>2, <4>1 DEF UpdateCamera, CameraRow
            <4>2. CASE \E e \in BOOLEAN : SetCameraEnabled(c, rev, e)
                BY <1>1, <2>2, <4>2 DEF SetCameraEnabled, CameraRow
            <4>3. CASE RequestCameraDelete(c, rev)
                BY <1>1, <2>2, <4>3 DEF RequestCameraDelete, CameraRow
            <4>4. CASE \E n \in Nodes, force \in BOOLEAN, confirmed \in 0..1 :
                           CreateCameraMove(c, rev, n, force, confirmed)
                BY <1>1, <2>2, <4>4 DEF CreateCameraMove, CameraRow
            <4> QED
                BY <2>1, <4>1, <4>2, <4>3, <4>4
        <3> QED
            BY <3>1, RowKept
    <2>3. CASE d # c
        BY <1>1, <1>2, <1>3, <2>1, <2>3
        DEF UpdateCamera, SetCameraEnabled, RequestCameraDelete, CreateCameraMove
    <2> QED
        BY <2>2, <2>3
<1>6. CASE SagaTransaction
    <2>1. PICK c \in Cameras : \/ MoveDeadlinePasses(c) \/ MarkCameraMoveSourceCleaned(c)
                               \/ AbortCameraMove(c) \/ RequestCameraMoveAbort(c)
                               \/ SwitchCameraMove(c) \/ CompleteCameraMove(c)
        BY <1>6 DEF SagaTransaction
    <2>2. CASE camera' = camera
        BY <1>3, <2>2
    <2>3. CASE d # c
        BY <1>1, <1>2, <1>3, <2>1, <2>3
        DEF MoveDeadlinePasses, MarkCameraMoveSourceCleaned, AbortCameraMove,
            RequestCameraMoveAbort, SwitchCameraMove, SwitchTo, CompleteCameraMove
    <2>4. CASE d = c /\ RequestCameraMoveAbort(c)
        <3>1. /\ camera'[d].node = camera[d].node /\ camera'[d].gen = camera[d].gen
              /\ camera'[d].applied = camera[d].applied /\ camera'[d].state = camera[d].state
            BY <1>1, <2>4 DEF RequestCameraMoveAbort, CameraRow
        <3> QED
            BY <3>1, RowKept
    <2>5. CASE d = c /\ SwitchCameraMove(c)
        <3>1. ActiveMove(d)
            BY <2>5 DEF SwitchCameraMove, Switchable, ActiveMove, ActiveMoveState
        <3>2. /\ camera'[d].node = move[d].dst /\ camera'[d].gen = move[d].sgen + 1
              /\ camera'[d].applied = camera[d].applied /\ camera'[d].state = camera[d].state
              /\ move[d].state = "prepare_target" /\ ~move[d].expired
              /\ ~node[move[d].dst].portChange /\ camera[d].gen = move[d].sgen
            BY <1>1, <2>5 DEF SwitchCameraMove, SwitchTo, Switchable, SwitchConflict, CameraRow
        <3> QED
            BY <1>1, <3>2 DEF PlacementChange, RevisionChange
    <2>6. CASE d = c /\ CompleteCameraMove(c)
        <3>1. Owns(move[d], camera[d]) /\ move[d].state = "activate_target"
            BY <2>6 DEF CompleteCameraMove, ActiveMove, ActiveMoveState, StoreInv, MoveOwnsCamera
        <3>2. camera[d].state = "enabled" /\ move[d].rev = camera[d].desired
            BY <3>1 DEF Owns
        <3>3. /\ camera'[d].node = camera[d].node /\ camera'[d].gen = camera[d].gen
              /\ camera'[d].applied = camera[d].desired /\ camera'[d].state = "enabled"
            BY <1>1, <2>6, <3>2 DEF CompleteCameraMove, CameraRow
        <3> QED
            BY <1>1, <3>3 DEF PlacementChange, RevisionChange
    <2> QED
        BY <2>1, <2>2, <2>3, <2>4, <2>5, <2>6
        DEF MoveDeadlinePasses, MarkCameraMoveSourceCleaned, AbortCameraMove
<1>7. CASE ReconcileTransaction
    <2>1. PICK c \in Cameras, n \in Nodes, gen \in 1..(MaxRevision + 1),
               rev \in 1..(MaxRevision + 1) : MarkCameraApplied(c, n, gen, rev)
        BY <1>7 DEF ReconcileTransaction
    <2>2. CASE d # c
        BY <1>1, <1>2, <2>1, <2>2 DEF MarkCameraApplied
    <2>3. CASE d = c /\ camera[c].state = "deleting"
        <3>1. /\ camera'[d].state = "deleted" /\ camera'[d].node = NoNode
              /\ camera'[d].applied = rev /\ camera[d].desired = rev
            BY <1>1, <2>1, <2>3 DEF MarkCameraApplied, ApplyFence, CameraRow
        <3> QED
            BY <1>1, <3>1 DEF PlacementChange, RevisionChange
    <2>4. CASE d = c /\ camera[c].state # "deleting"
        <3>1. /\ camera'[d].node = camera[d].node /\ camera'[d].gen = camera[d].gen
              /\ camera'[d].applied = rev /\ camera[d].desired = rev
              /\ camera'[d].state = camera[d].state /\ camera[d].node \in Nodes
            BY <1>1, <2>1, <2>4 DEF MarkCameraApplied, ApplyFence, CameraRow
        <3>2. camera[d].state # "absent"
            BY <3>1 DEF StoreInv, PlacedIffLive
        <3> QED
            BY <1>1, <3>1, <3>2 DEF PlacementChange, RevisionChange
    <2> QED
        BY <2>2, <2>3, <2>4
<1>8. CASE NodeTransaction
    <2>1. camera' = camera
        BY <1>8 DEF NodeTransaction, ObserveNode, BeginPortChange, FinishPortChange
    <2> QED
        BY <1>3, <2>1
<1> QED
    BY <1>4, <1>5, <1>6, <1>7, <1>8 DEF StoreNext

(* An unregistered camera has applied nothing.                               *)
THEOREM AbsentInvariant == StoreSpec => []AbsentUnapplied
<1>1. StoreInit => AbsentUnapplied
    BY DEF StoreInit, AbsentUnapplied, AbsentCamera
<1>2. StoreInv /\ AbsentUnapplied /\ [StoreNext]_storeVars => AbsentUnapplied'
    <2>1. ASSUME StoreInv, AbsentUnapplied, StoreNext PROVE AbsentUnapplied'
        BY <2>1, RowChanges DEF AbsentUnapplied, RevisionChange
    <2>2. ASSUME AbsentUnapplied, UNCHANGED storeVars PROVE AbsentUnapplied'
        BY <2>2 DEF AbsentUnapplied, storeVars
    <2> QED
        BY <2>1, <2>2
<1> QED
    BY <1>1, <1>2, StoreInvariant, PTL DEF StoreSpec

(* No camera joins a node while its port change is prepared: the operator's  *)
(* confirmed blast radius holds until the saga ends.                         *)
THEOREM BlastRadiusHolds == StoreSpec => BlastRadiusOnlyShrinks
<1>1. StoreInv /\ AbsentUnapplied /\ [StoreNext]_storeVars => [BlastRadiusStep]_storeVars
    <2> SUFFICES ASSUME StoreInv, AbsentUnapplied, StoreNext PROVE BlastRadiusStep
        OBVIOUS
    <2> SUFFICES ASSUME NEW n \in Nodes, node[n].portChange, NEW c \in Cameras, camera'[c].node = n
                 PROVE  camera[c].node = n
        BY DEF BlastRadiusStep, PlacedOn
    <2> QED
        BY RowChanges, StoreAssumption DEF PlacementChange, StoreAssumption
<1> QED
    BY <1>1, StoreInvariant, AbsentInvariant, PTL DEF StoreSpec, BlastRadiusOnlyShrinks

(* A placement moves only in a switch, and only to the next generation.      *)
THEOREM GenerationFences == StoreSpec => PlacementGenerationFences
<1>1. StoreInv /\ AbsentUnapplied /\ [StoreNext]_storeVars => [PlacementStep]_storeVars
    <2> SUFFICES ASSUME StoreInv, AbsentUnapplied, StoreNext PROVE PlacementStep
        OBVIOUS
    <2> QED
        BY RowChanges DEF PlacementChange, PlacementStep
<1> QED
    BY <1>1, StoreInvariant, AbsentInvariant, PTL DEF StoreSpec, PlacementGenerationFences

(* A stale report never moves applied_revision back or past desired.         *)
THEOREM AppliedMonotonic == StoreSpec => AppliedNeverRegresses
<1>1. /\ StoreInv /\ StoreInv' /\ AbsentUnapplied /\ [StoreNext]_storeVars
      => [AppliedStep]_storeVars
    <2> SUFFICES ASSUME StoreInv, StoreInv', AbsentUnapplied, StoreNext PROVE AppliedStep
        OBVIOUS
    <2> QED
        BY RowChanges DEF RevisionChange, AppliedStep, StoreInv, AppliedBehindDesired
<1> QED
    BY <1>1, StoreInvariant, AbsentInvariant, PTL DEF StoreSpec, AppliedNeverRegresses

(* An incomplete move shares its camera row and its nodes with nobody.       *)
THEOREM MovesExclusive == StoreSpec => []MovesAreExclusive
<1>1. StoreInv => MovesAreExclusive
    BY DEF StoreInv, MovesAreExclusive
<1> QED
    BY <1>1, StoreInvariant, PTL

(* Generations, applied revisions and blast radii move as their fences say.  *)
THEOREM FencesHold == StoreSpec => RowsAreFenced
<1>1. [PlacementStep]_storeVars /\ [AppliedStep]_storeVars /\ [BlastRadiusStep]_storeVars
      => [PlacementStep /\ AppliedStep /\ BlastRadiusStep]_storeVars
    OBVIOUS
<1> QED
    BY <1>1, GenerationFences, AppliedMonotonic, BlastRadiusHolds, PTL
       DEF RowsAreFenced, PlacementGenerationFences, AppliedNeverRegresses, BlastRadiusOnlyShrinks

=============================================================================
