--------------------------- MODULE NodeStoreProofs ---------------------------
(***************************************************************************)
(* Proofs about NodeStore: ports are reserved, cameras stay on serving     *)
(* nodes and ports move by completed changes, for every set of nodes,      *)
(* ports, releases and change identifiers and every bound.                 *)
(*                                                                         *)
(* PortsReserved alone is not inductive: a deletion would take the row of  *)
(* a prepared change away.  NodeInv adds that the node of a prepared       *)
(* change is not being deleted, which request_node_delete and              *)
(* begin_port_change guarantee from their two sides.                       *)
(***************************************************************************)
EXTENDS NodeStore, TLAPS

Serving == {"running", "draining", "maintenance"}

(* begin_port_change needs a running node and request_node_delete one        *)
(* without a prepared change.                                                *)
ChangedNodeStays == \A k \in Prepared : row[change[k].node].state # "deleting"

NodeInv ==
    /\ NodeStoreTypeOK
    /\ PortsReserved
    /\ CamerasOnServingNode
    /\ ChangedNodeStays

-----------------------------------------------------------------------------
(* A transaction that rewrites one registered row, keeps its port, and       *)
(* begins no deletion of a node with a prepared change, keeps the invariant. *)
LEMMA RowStepKeepsInv ==
    ASSUME NodeInv, NEW n \in RegisteredNodes, NEW r \in MediaNode,
           row' = [row EXCEPT ![n] = r], change' = change,
           r.state \in NodeState, r.port = row[n].port, r.applied <= r.desired,
           r.cams > 0 => r.state \in Serving,
           r.state = "deleting" => row[n].state = "deleting" \/ PreparedOn(n) = {}
    PROVE  NodeInv'
<1>1. n \in Nodes /\ row \in [Nodes -> MediaNode]
    BY DEF NodeInv, NodeStoreTypeOK, RegisteredNodes
<1>2. row'[n] = r /\ \A m \in Nodes : m # n => row'[m] = row[m]
    BY <1>1
<1>3. RegisteredNodes' = RegisteredNodes /\ Prepared' = Prepared
    BY <1>2 DEF RegisteredNodes, Prepared
<1>4. \A m \in Nodes : row'[m].port = row[m].port
    BY <1>2
<1>5. NodeStoreTypeOK'
    BY <1>1, <1>2 DEF NodeInv, NodeStoreTypeOK
<1>6. PortsReserved'
    BY <1>3, <1>4 DEF NodeInv, PortsReserved, RegisteredNodes
<1>7. CamerasOnServingNode'
    BY <1>2 DEF NodeInv, CamerasOnServingNode, Serving
<1>8. ChangedNodeStays'
    <2> SUFFICES ASSUME NEW k \in Prepared
                 PROVE  row'[change[k].node].state # "deleting"
        BY <1>3 DEF ChangedNodeStays
    <2>1. change[k].node \in Nodes
        BY DEF NodeInv, PortsReserved, RegisteredNodes
    <2>2. CASE change[k].node = n
        BY <1>2, <2>2 DEF NodeInv, ChangedNodeStays, PreparedOn
    <2>3. CASE change[k].node # n
        BY <1>2, <2>1, <2>3 DEF NodeInv, ChangedNodeStays
    <2> QED
        BY <2>2, <2>3
<1> QED
    BY <1>5, <1>6, <1>7, <1>8 DEF NodeInv

(* A transaction that commits nothing keeps the invariant.                   *)
LEMMA StutterKeepsInv ==
    ASSUME NodeInv, row' = row, change' = change
    PROVE  NodeInv'
BY DEF NodeInv, NodeStoreTypeOK, PortsReserved, CamerasOnServingNode,
       ChangedNodeStays, RegisteredNodes, Prepared

(* A row with an observation applied keeps everything the observation does   *)
(* not report.                                                               *)
LEMMA ObservedRow ==
    ASSUME NEW r \in MediaNode, NEW o \in BoundedObservation,
           validate_runtime_observation(r, o)
    PROVE  /\ Observed(r, o) \in MediaNode
           /\ Observed(r, o).state = r.state
           /\ Observed(r, o).port = r.port
           /\ Observed(r, o).cams = r.cams
           /\ Observed(r, o).applied <= Observed(r, o).desired
<1>1. o.state \in NodeState /\ o.compat \in BOOLEAN /\ o.applied \in Nat
    BY NodeStoreAssumption DEF BoundedObservation, NodeState
<1> QED
    BY <1>1 DEF MediaNode, Observed, validate_runtime_observation

(* apply_runtime_observation keeps the invariant.                            *)
LEMMA ObservationKeepsInv ==
    ASSUME NodeInv, NEW n \in Nodes, NEW o \in BoundedObservation,
           ApplyObservationAllowed(n, o), apply_runtime_observation(n, o)
    PROVE  NodeInv'
<1> DEFINE r == Observed(row[n], o)
<1>1. n \in RegisteredNodes /\ row \in [Nodes -> MediaNode] /\ row[n] \in MediaNode
    BY DEF NodeInv, NodeStoreTypeOK, ApplyObservationAllowed
<1>2. row' = [row EXCEPT ![n] = r] /\ change' = change
    BY <1>1 DEF apply_runtime_observation
<1>3. /\ r \in MediaNode /\ r.state = row[n].state /\ r.port = row[n].port
      /\ r.cams = row[n].cams /\ r.applied <= r.desired
    BY <1>1, ObservedRow DEF ApplyObservationAllowed
<1> HIDE DEF r
<1>4. r.state \in NodeState
    BY <1>1, <1>3 DEF RegisteredNodes
<1>5. r.cams > 0 => r.state \in Serving
    BY <1>1, <1>3 DEF NodeInv, CamerasOnServingNode, Serving
<1> QED
    BY <1>1, <1>2, <1>3, <1>4, <1>5, RowStepKeepsInv

(* One field of a row set: the other fields stay.                            *)
LEMMA StateSet ==
    ASSUME NEW q \in MediaNode, NEW x \in NodeState, NEW r, r = [q EXCEPT !.state = x]
    PROVE  /\ r \in MediaNode /\ r.state = x /\ r.port = q.port /\ r.cams = q.cams
           /\ r.desired = q.desired /\ r.applied = q.applied
BY DEF MediaNode

(* As StateSet, for desired_revision.                                        *)
LEMMA DesiredSet ==
    ASSUME NEW q \in MediaNode, NEW x \in Nat, NEW r, r = [q EXCEPT !.desired = x]
    PROVE  /\ r \in MediaNode /\ r.state = q.state /\ r.port = q.port /\ r.cams = q.cams
           /\ r.desired = x /\ r.applied = q.applied
BY DEF MediaNode

(* As StateSet, for applied_revision.                                        *)
LEMMA AppliedSet ==
    ASSUME NEW q \in MediaNode, NEW x \in Nat, NEW r, r = [q EXCEPT !.applied = x]
    PROVE  /\ r \in MediaNode /\ r.state = q.state /\ r.port = q.port /\ r.cams = q.cams
           /\ r.desired = q.desired /\ r.applied = x
BY DEF MediaNode

(* As StateSet, for the release and for config_compatible.                   *)
LEMMA IdentitySet ==
    ASSUME NEW q \in MediaNode, NEW x \in Releases, NEW r,
           r = [q EXCEPT !.rel = x] \/ r = [q EXCEPT !.compat = FALSE]
    PROVE  /\ r \in MediaNode /\ r.state = q.state /\ r.port = q.port /\ r.cams = q.cams
           /\ r.desired = q.desired /\ r.applied = q.applied
BY DEF MediaNode

(* The operator's requests keep the invariant.                               *)
LEMMA RequestKeepsInv ==
    ASSUME NodeInv, NEW n \in Nodes, Request(n)
    PROVE  NodeInv'
<1>1. /\ n \in RegisteredNodes /\ row \in [Nodes -> MediaNode] /\ row[n] \in MediaNode
      /\ row[n].state \in NodeState /\ row[n].applied <= row[n].desired
      /\ row[n].cams > 0 => row[n].state \in Serving
    BY DEF NodeInv, NodeStoreTypeOK, Request, RegisteredNodes, CamerasOnServingNode, Serving
<1>1a. row[n].desired \in Nat /\ row[n].applied \in Nat /\ row[n].desired + 1 \in Nat
    BY <1>1 DEF MediaNode
<1>2. row' = row /\ change' = change => NodeInv'
    BY StutterKeepsInv
<1>3. ASSUME NEW r \in MediaNode, row' = [row EXCEPT ![n] = r], change' = change,
             r.state \in NodeState, r.port = row[n].port, r.applied <= r.desired,
             r.cams > 0 => r.state \in Serving,
             r.state = "deleting" => row[n].state = "deleting" \/ PreparedOn(n) = {}
      PROVE  NodeInv'
    BY <1>1, <1>3, RowStepKeepsInv
<1>4. CASE StartAllowed(n) /\ request_desired_state(n)
    <2> DEFINE r == [row[n] EXCEPT !.state = "running", !.desired = @ + 1]
    <2>1. \/ row' = row /\ change' = change
          \/ row' = [row EXCEPT ![n] = r] /\ change' = change
        BY <1>1, <1>4 DEF request_desired_state
    <2>2. /\ r \in MediaNode /\ r.state = "running" /\ r.port = row[n].port
          /\ r.applied <= r.desired
        <3> DEFINE q == [row[n] EXCEPT !.state = "running"]
        <3>1. /\ q \in MediaNode /\ q.state = "running" /\ q.port = row[n].port
              /\ q.applied = row[n].applied
            BY <1>1, StateSet DEF NodeState
        <3>2. r = [q EXCEPT !.desired = row[n].desired + 1]
            OBVIOUS
        <3> HIDE DEF q, r
        <3> QED
            BY <1>1, <1>1a, <3>1, <3>2, DesiredSet
    <2> HIDE DEF r
    <2> QED
        BY <1>2, <1>3, <2>1, <2>2 DEF NodeState, Serving
<1>5. ASSUME NEW state \in {"draining", "maintenance", "running"},
             request_administrative_state(n, state)
      PROVE  NodeInv'
    <2> DEFINE r == [row[n] EXCEPT !.state = state, !.desired = @ + 1,
                                   !.applied = row[n].desired + 1]
    <2>1. \/ row' = row /\ change' = change
          \/ row' = [row EXCEPT ![n] = r] /\ change' = change
        BY <1>1, <1>5 DEF request_administrative_state
    <2>2. /\ r \in MediaNode /\ r.state = state /\ r.port = row[n].port
          /\ r.applied <= r.desired
        <3> DEFINE p == [row[n] EXCEPT !.state = state]
                   q == [p EXCEPT !.desired = row[n].desired + 1]
        <3>1. p \in MediaNode /\ p.state = state /\ p.port = row[n].port
            BY <1>1, StateSet DEF NodeState
        <3>2. r = [q EXCEPT !.applied = row[n].desired + 1]
            OBVIOUS
        <3> HIDE DEF p, r
        <3>3. /\ q \in MediaNode /\ q.state = state /\ q.port = row[n].port
              /\ q.desired = row[n].desired + 1
            BY <1>1a, <3>1, DesiredSet
        <3> HIDE DEF q
        <3> QED
            BY <1>1a, <3>2, <3>3, AppliedSet
    <2> HIDE DEF r
    <2> QED
        BY <1>2, <1>3, <2>1, <2>2 DEF NodeState, Serving
<1>6. CASE StopAllowed(n) /\ request_stop(n)
    <2> DEFINE r == [row[n] EXCEPT !.state = "stopped", !.desired = @ + 1]
    <2>1. \/ row' = row /\ change' = change
          \/ row' = [row EXCEPT ![n] = r] /\ change' = change
        BY <1>1, <1>6 DEF request_stop
    <2>2. /\ r \in MediaNode /\ r.state = "stopped" /\ r.port = row[n].port
          /\ r.applied <= r.desired /\ r.cams = 0
        <3> DEFINE q == [row[n] EXCEPT !.state = "stopped"]
        <3>1. row[n].cams = 0
            BY <1>6 DEF StopAllowed
        <3>2. /\ q \in MediaNode /\ q.state = "stopped" /\ q.port = row[n].port
              /\ q.applied = row[n].applied /\ q.cams = 0
            BY <1>1, <3>1, StateSet DEF NodeState
        <3>3. r = [q EXCEPT !.desired = row[n].desired + 1]
            OBVIOUS
        <3> HIDE DEF q, r
        <3> QED
            BY <1>1, <1>1a, <3>2, <3>3, DesiredSet
    <2> HIDE DEF r
    <2> QED
        BY <1>2, <1>3, <2>1, <2>2 DEF NodeState
<1>7. CASE RestartAllowed(n) /\ request_restart(n)
    <2> DEFINE r == [row[n] EXCEPT !.desired = @ + 1]
    <2>1. row' = [row EXCEPT ![n] = r] /\ change' = change
        BY <1>1, <1>7 DEF request_restart
    <2>2. /\ r \in MediaNode /\ r.state = row[n].state /\ r.port = row[n].port
          /\ r.applied <= r.desired /\ r.cams = row[n].cams
        BY <1>1 DEF MediaNode
    <2> HIDE DEF r
    <2> QED
        BY <1>1, <1>3, <2>1, <2>2
<1>8. ASSUME NEW rel \in Releases, request_reconfigure(n, rel)
      PROVE  NodeInv'
    <2> DEFINE r == [row[n] EXCEPT !.rel = rel, !.desired = @ + 1,
                         !.applied = IF rel = row[n].rel THEN @ ELSE 0,
                         !.compat = FALSE]
    <2>1. row' = [row EXCEPT ![n] = r] /\ change' = change
        BY <1>1, <1>8 DEF request_reconfigure
    <2>2. /\ r \in MediaNode /\ r.state = row[n].state /\ r.port = row[n].port
          /\ r.applied <= r.desired /\ r.cams = row[n].cams
        <3> DEFINE o == [row[n] EXCEPT !.rel = rel]
                   p == [o EXCEPT !.desired = row[n].desired + 1]
                   x == IF rel = row[n].rel THEN row[n].applied ELSE 0
                   q == [p EXCEPT !.applied = x]
        <3>1. /\ o \in MediaNode /\ o.state = row[n].state /\ o.port = row[n].port
              /\ o.cams = row[n].cams
            BY <1>1, IdentitySet
        <3>2. r = [q EXCEPT !.compat = FALSE]
            OBVIOUS
        <3>3. x \in Nat /\ x <= row[n].desired + 1
            BY <1>1, <1>1a
        <3> HIDE DEF o, x, r
        <3>4. /\ p \in MediaNode /\ p.state = row[n].state /\ p.port = row[n].port
              /\ p.cams = row[n].cams /\ p.desired = row[n].desired + 1
            BY <1>1a, <3>1, DesiredSet
        <3> HIDE DEF p
        <3>5. /\ q \in MediaNode /\ q.state = row[n].state /\ q.port = row[n].port
              /\ q.cams = row[n].cams /\ q.desired = row[n].desired + 1 /\ q.applied = x
            BY <3>3, <3>4, AppliedSet
        <3> HIDE DEF q
        <3> QED
            BY <3>2, <3>3, <3>5, IdentitySet
    <2> HIDE DEF r
    <2> QED
        BY <1>1, <1>3, <2>1, <2>2
<1>9. ASSUME NEW rel \in Releases, request_release(n, rel)
      PROVE  NodeInv'
    <2> DEFINE r == [row[n] EXCEPT !.rel = rel, !.desired = @ + 1,
                                   !.applied = 0, !.compat = FALSE]
    <2>1. \/ row' = row /\ change' = change
          \/ row' = [row EXCEPT ![n] = r] /\ change' = change
        BY <1>1, <1>9 DEF request_release
    <2>2. /\ r \in MediaNode /\ r.state = row[n].state /\ r.port = row[n].port
          /\ r.applied <= r.desired /\ r.cams = row[n].cams
        <3> DEFINE o == [row[n] EXCEPT !.rel = rel]
                   p == [o EXCEPT !.desired = row[n].desired + 1]
                   x == 0
                   q == [p EXCEPT !.applied = x]
        <3>1. /\ o \in MediaNode /\ o.state = row[n].state /\ o.port = row[n].port
              /\ o.cams = row[n].cams
            BY <1>1, IdentitySet
        <3>2. r = [q EXCEPT !.compat = FALSE]
            OBVIOUS
        <3>3. x \in Nat /\ x <= row[n].desired + 1
            BY <1>1, <1>1a
        <3> HIDE DEF o, x, r
        <3>4. /\ p \in MediaNode /\ p.state = row[n].state /\ p.port = row[n].port
              /\ p.cams = row[n].cams /\ p.desired = row[n].desired + 1
            BY <1>1a, <3>1, DesiredSet
        <3> HIDE DEF p
        <3>5. /\ q \in MediaNode /\ q.state = row[n].state /\ q.port = row[n].port
              /\ q.cams = row[n].cams /\ q.desired = row[n].desired + 1 /\ q.applied = x
            BY <3>3, <3>4, AppliedSet
        <3> HIDE DEF q
        <3> QED
            BY <3>2, <3>3, <3>5, IdentitySet
    <2> HIDE DEF r
    <2> QED
        BY <1>1, <1>2, <1>3, <2>1, <2>2
<1>10. CASE DeleteAllowed(n) /\ request_node_delete(n)
    <2> DEFINE r == [row[n] EXCEPT !.state = "deleting", !.desired = @ + 1]
    <2>1. \/ row' = row /\ change' = change
          \/ row' = [row EXCEPT ![n] = r] /\ change' = change
        BY <1>1, <1>10 DEF request_node_delete
    <2>2. /\ r \in MediaNode /\ r.state = "deleting" /\ r.port = row[n].port
          /\ r.applied <= r.desired /\ r.cams = 0
        <3> DEFINE q == [row[n] EXCEPT !.state = "deleting"]
        <3>1. row[n].cams = 0
            BY <1>10 DEF DeleteAllowed
        <3>2. /\ q \in MediaNode /\ q.state = "deleting" /\ q.port = row[n].port
              /\ q.applied = row[n].applied /\ q.cams = 0
            BY <1>1, <3>1, StateSet DEF NodeState
        <3>3. r = [q EXCEPT !.desired = row[n].desired + 1]
            OBVIOUS
        <3> HIDE DEF q, r
        <3> QED
            BY <1>1, <1>1a, <3>2, <3>3, DesiredSet
    <2>3. PreparedOn(n) = {}
        BY <1>10 DEF DeleteAllowed
    <2> HIDE DEF r
    <2> QED
        BY <1>2, <1>3, <2>1, <2>2, <2>3 DEF NodeState
<1> QED
    BY <1>4, <1>5, <1>6, <1>7, <1>8, <1>9, <1>10 DEF Request

(* Placing and removing a camera keeps the invariant.                        *)
LEMMA PlacementKeepsInv ==
    ASSUME NodeInv, NEW n \in Nodes, PlaceCamera(n) \/ RemoveCamera(n)
    PROVE  NodeInv'
<1> DEFINE r == row'[n]
<1>1. /\ n \in RegisteredNodes /\ row \in [Nodes -> MediaNode] /\ row[n] \in MediaNode
      /\ row[n].state \in NodeState /\ row[n].applied <= row[n].desired
      /\ row[n].cams > 0 => row[n].state \in Serving
    BY DEF NodeInv, NodeStoreTypeOK, PlaceCamera, RemoveCamera, is_node_eligible,
           RegisteredNodes, CamerasOnServingNode, Serving, NodeState
<1>2. /\ row' = [row EXCEPT ![n] = r] /\ change' = change
      /\ \/ r = [row[n] EXCEPT !.cams = @ + 1] /\ row[n].state = "running"
         \/ r = [row[n] EXCEPT !.cams = @ - 1] /\ row[n].cams > 0
    BY <1>1 DEF PlaceCamera, RemoveCamera, is_node_eligible
<1> HIDE DEF r
<1>3. /\ r \in MediaNode /\ r.state = row[n].state /\ r.port = row[n].port
      /\ r.applied <= r.desired
    BY <1>1, <1>2 DEF MediaNode
<1>4. r.cams > 0 => r.state \in Serving
    BY <1>1, <1>2, <1>3 DEF Serving
<1> QED
    BY <1>1, <1>2, <1>3, <1>4, RowStepKeepsInv

(* register_automatically gives the new node a port nobody has reserved.     *)
LEMMA RegisterKeepsInv ==
    ASSUME NodeInv, NEW n \in Nodes, NEW p \in Ports, NEW rel \in Releases,
           RegisterAllowed(n, p), register_automatically(n, p, rel)
    PROVE  NodeInv'
<1> DEFINE r == [AbsentNode EXCEPT !.state = "provisioning", !.port = p,
                                   !.desired = 1, !.rel = rel]
<1>1. /\ row \in [Nodes -> MediaNode] /\ row[n].state = "absent"
      /\ n \notin RegisteredNodes
      /\ row' = [row EXCEPT ![n] = r] /\ change' = change
    BY DEF NodeInv, NodeStoreTypeOK, RegisterAllowed, register_automatically,
           RegisteredNodes, NodeState
<1>2. /\ r \in MediaNode /\ r.state = "provisioning" /\ r.port = p /\ r.cams = 0
      /\ r.applied = 0 /\ r.desired = 1
    BY DEF AbsentNode, MediaNode, NodeState
<1> HIDE DEF r
<1>3. row'[n] = r /\ \A m \in Nodes : m # n => row'[m] = row[m]
    BY <1>1
<1>4. RegisteredNodes' = RegisteredNodes \cup {n} /\ Prepared' = Prepared
    BY <1>1, <1>2, <1>3 DEF RegisteredNodes, Prepared, NodeState
<1>5. /\ \A m \in RegisteredNodes : m \in Nodes /\ m # n /\ row[m].port # p
      /\ \A k \in Prepared : change[k].new # p /\ change[k].node \in RegisteredNodes
    BY <1>1 DEF RegisterAllowed, Occupied, NodeInv, PortsReserved, RegisteredNodes
<1>6. NodeStoreTypeOK'
    BY <1>1, <1>2, <1>3 DEF NodeInv, NodeStoreTypeOK
<1>7. PortsReserved'
    <2>1. \A a, b \in RegisteredNodes' : row'[a].port = row'[b].port => a = b
        BY <1>2, <1>3, <1>4, <1>5 DEF NodeInv, PortsReserved
    <2>2. ASSUME NEW k \in Prepared'
          PROVE  /\ change'[k].node \in RegisteredNodes'
                 /\ row'[change'[k].node].port = change'[k].old
                 /\ \A m \in RegisteredNodes' : row'[m].port # change'[k].new
                 /\ \A j \in Prepared' :
                        change'[j].new = change'[k].new \/ change'[j].node = change'[k].node
                            => j = k
        BY <1>1, <1>2, <1>3, <1>4, <1>5 DEF NodeInv, PortsReserved
    <2> QED
        BY <2>1, <2>2 DEF PortsReserved
<1>8. CamerasOnServingNode'
    BY <1>2, <1>3 DEF NodeInv, CamerasOnServingNode
<1>9. ChangedNodeStays'
    BY <1>1, <1>3, <1>4, <1>5 DEF NodeInv, ChangedNodeStays
<1> QED
    BY <1>6, <1>7, <1>8, <1>9 DEF NodeInv

(* finalize_node_delete removes a row no prepared change refers to.          *)
LEMMA FinalizeKeepsInv ==
    ASSUME NodeInv, NEW n \in Nodes, FinalizeAllowed(n), finalize_node_delete(n)
    PROVE  NodeInv'
<1> DEFINE r == [AbsentNode EXCEPT !.state = "deleted"]
<1>1. CASE n \notin RegisteredNodes
    BY <1>1, StutterKeepsInv DEF finalize_node_delete
<1>2. CASE n \in RegisteredNodes
    <2>1. /\ row \in [Nodes -> MediaNode] /\ row[n].state = "deleting"
          /\ row' = [row EXCEPT ![n] = r] /\ change' = change
        BY <1>2 DEF NodeInv, NodeStoreTypeOK, FinalizeAllowed, finalize_node_delete
    <2>2. r \in MediaNode /\ r.state = "deleted" /\ r.cams = 0 /\ r.applied <= r.desired
        <3>1. /\ AbsentNode \in MediaNode /\ AbsentNode.cams = 0
              /\ AbsentNode.applied = 0 /\ AbsentNode.desired = 0
            BY DEF AbsentNode, MediaNode, NodeState
        <3> QED
            BY <3>1 DEF MediaNode
    <2> HIDE DEF r
    <2>3. row'[n] = r /\ \A m \in Nodes : m # n => row'[m] = row[m]
        BY <2>1
    <2>4. RegisteredNodes' = RegisteredNodes \ {n} /\ Prepared' = Prepared
        BY <2>1, <2>2, <2>3 DEF RegisteredNodes, Prepared, NodeState
    <2>5. \A k \in Prepared : change[k].node \in RegisteredNodes /\ change[k].node # n
        BY <2>1 DEF NodeInv, PortsReserved, ChangedNodeStays
    <2>6. RegisteredNodes \subseteq Nodes
        BY DEF RegisteredNodes
    <2>7. NodeStoreTypeOK'
        BY <2>1, <2>2, <2>3 DEF NodeInv, NodeStoreTypeOK
    <2>8. PortsReserved'
        BY <2>1, <2>3, <2>4, <2>5, <2>6 DEF NodeInv, PortsReserved
    <2>9. CamerasOnServingNode'
        BY <2>2, <2>3 DEF NodeInv, CamerasOnServingNode
    <2>10. ChangedNodeStays'
        BY <2>1, <2>3, <2>4, <2>5, <2>6 DEF NodeInv, ChangedNodeStays
    <2> QED
        BY <2>7, <2>8, <2>9, <2>10 DEF NodeInv
<1> QED
    BY <1>1, <1>2

(* begin_port_change reserves a port nobody has reserved.                    *)
LEMMA BeginKeepsInv ==
    ASSUME NodeInv, NEW k \in ChangeIds, NEW n \in RegisteredNodes, NEW p \in Ports,
           BeginAllowed(n, p, row[n].desired, row[n].cams), begin_port_change(k, n, p)
    PROVE  NodeInv'
<1> DEFINE c == [state |-> "prepared", node |-> n, old |-> row[n].port, new |-> p,
                 source |-> row[n].desired]
<1>1. /\ n \in Nodes /\ row[n] \in MediaNode /\ change \in [ChangeIds -> NodePortChange]
      /\ k \notin Prepared /\ row[n].state = "running"
      /\ row' = row /\ change' = [change EXCEPT ![k] = c]
    BY DEF NodeInv, NodeStoreTypeOK, RegisteredNodes, Prepared, BeginAllowed, begin_port_change
<1>2. c \in NodePortChange
    BY <1>1 DEF NodePortChange, MediaNode
<1>3. /\ c.state = "prepared" /\ c.node = n /\ c.old = row[n].port /\ c.new = p
    OBVIOUS
<1> HIDE DEF c
<1>4. change'[k] = c /\ \A j \in ChangeIds : j # k => change'[j] = change[j]
    BY <1>1
<1>5. RegisteredNodes' = RegisteredNodes /\ Prepared' = Prepared \cup {k}
    BY <1>1, <1>3, <1>4 DEF RegisteredNodes, Prepared
<1>6. Prepared \subseteq ChangeIds
    BY DEF Prepared
<1>7. /\ \A j \in Prepared : change[j].new # p /\ change[j].node # n
      /\ \A m \in RegisteredNodes : row[m].port # p
    BY DEF BeginAllowed, PortUnreserved, PreparedOn
<1>8. NodeStoreTypeOK'
    BY <1>1, <1>2, <1>4 DEF NodeInv, NodeStoreTypeOK
<1>9. PortsReserved'
    <2>1. \A a, b \in RegisteredNodes' : row'[a].port = row'[b].port => a = b
        BY <1>1, <1>5 DEF NodeInv, PortsReserved
    <2>2. ASSUME NEW j \in Prepared'
          PROVE  /\ change'[j].node \in RegisteredNodes'
                 /\ row'[change'[j].node].port = change'[j].old
                 /\ \A m \in RegisteredNodes' : row'[m].port # change'[j].new
        BY <1>1, <1>3, <1>4, <1>5, <1>6, <1>7 DEF NodeInv, PortsReserved
    <2>3. ASSUME NEW i \in Prepared', NEW j \in Prepared',
                 change'[i].new = change'[j].new \/ change'[i].node = change'[j].node
          PROVE  i = j
        <3>1. CASE i = k \/ j = k
            BY <1>3, <1>4, <1>5, <1>6, <1>7, <2>3, <3>1
        <3>2. CASE i # k /\ j # k
            <4>1. /\ i \in Prepared /\ j \in Prepared
                  /\ change'[i] = change[i] /\ change'[j] = change[j]
                BY <1>4, <1>5, <1>6, <3>2
            <4> QED
                BY <2>3, <4>1 DEF NodeInv, PortsReserved
        <3> QED
            BY <3>1, <3>2
    <2> QED
        BY <2>1, <2>2, <2>3 DEF PortsReserved
<1>10. CamerasOnServingNode'
    BY <1>1 DEF NodeInv, CamerasOnServingNode
<1>11. ChangedNodeStays'
    BY <1>1, <1>3, <1>4, <1>5, <1>6 DEF NodeInv, ChangedNodeStays
<1> QED
    BY <1>8, <1>9, <1>10, <1>11 DEF NodeInv

(* complete_port_change and abort_port_change end a reservation; the node    *)
(* has its new port, or the old one it never lost.                           *)
LEMMA FinishKeepsInv ==
    ASSUME NodeInv, NEW k \in ChangeIds, NEW o \in BoundedObservation,
           NEW complete \in BOOLEAN,
           FinishAllowed(k, o, complete), finish_port_change(k, o, complete)
    PROVE  /\ NodeInv'
           /\ \A m \in RegisteredNodes :
                  \/ row'[m].port = row[m].port
                  \/ /\ k \in PreparedOn(m)
                     /\ row'[m].port = change[k].new
                     /\ change'[k].state = "complete"
<1>1. CASE change[k].state = FinishedState(complete)
    BY <1>1, StutterKeepsInv DEF finish_port_change, nodeStoreVars
<1>2. CASE change[k].state # FinishedState(complete)
    <2> DEFINE n == change[k].node
               q == Provisional(k, complete)
               r == Observed(q, o)
    <2>1. /\ change[k].state = "prepared" /\ n \in RegisteredNodes /\ n \in Nodes
          /\ row \in [Nodes -> MediaNode] /\ row[n] \in MediaNode
          /\ change \in [ChangeIds -> NodePortChange] /\ change[k] \in NodePortChange
          /\ validate_runtime_observation(q, o)
          /\ row' = [row EXCEPT ![n] = r]
          /\ change' = [change EXCEPT ![k].state = FinishedState(complete)]
        BY <1>2 DEF NodeInv, NodeStoreTypeOK, FinishAllowed, finish_port_change, RegisteredNodes
    <2>2. k \in Prepared /\ k \in PreparedOn(n)
        BY <2>1 DEF Prepared, PreparedOn
    <2>3. /\ q \in MediaNode /\ q.state = row[n].state /\ q.cams = row[n].cams
          /\ q.port = IF complete THEN change[k].new ELSE change[k].old
        <3> DEFINE x == IF complete THEN change[k].new ELSE change[k].old
                   d == IF complete THEN TargetRevision(k) ELSE change[k].source
                   p == [row[n] EXCEPT !.port = x]
        <3>1. x \in Ports \cup {NoPort} /\ d \in Nat
            BY <2>1 DEF NodePortChange, TargetRevision
        <3>2. q = [p EXCEPT !.desired = d]
            BY DEF Provisional
        <3> HIDE DEF x, d, q
        <3>3. /\ p \in MediaNode /\ p.state = row[n].state /\ p.cams = row[n].cams
              /\ p.port = x
            BY <2>1, <3>1 DEF MediaNode
        <3> HIDE DEF p
        <3>4. q \in MediaNode /\ q.state = row[n].state /\ q.cams = row[n].cams /\ q.port = x
            BY <3>1, <3>2, <3>3, DesiredSet
        <3> QED
            BY <3>4 DEF x
    <2> HIDE DEF q
    <2>4. /\ r \in MediaNode /\ r.state = row[n].state /\ r.cams = row[n].cams
          /\ r.port = q.port /\ r.applied <= r.desired
        BY <2>1, <2>3, ObservedRow
    <2> HIDE DEF r
    <2>5. row'[n] = r /\ \A m \in Nodes : m # n => row'[m] = row[m]
        BY <2>1
    <2>6. /\ change'[k].state = FinishedState(complete)
          /\ change'[k] \in NodePortChange
          /\ \A j \in ChangeIds : j # k => change'[j] = change[j]
        BY <2>1 DEF FinishedState, NodePortChange
    <2>7. RegisteredNodes' = RegisteredNodes /\ RegisteredNodes \subseteq Nodes
        BY <2>1, <2>4, <2>5 DEF RegisteredNodes
    <2>8. Prepared' = Prepared \ {k} /\ Prepared \subseteq ChangeIds
        BY <2>6 DEF Prepared, FinishedState
    <2>9. r.port = change[k].new \/ r.port = row[n].port
        BY <2>2, <2>3, <2>4 DEF NodeInv, PortsReserved
    <2> HIDE DEF n
    <2>10. NodeStoreTypeOK'
        <3>1. row' \in [Nodes -> MediaNode] /\ \A m \in Nodes : row'[m].applied <= row'[m].desired
            BY <2>1, <2>4, <2>5 DEF NodeInv, NodeStoreTypeOK
        <3>2. change' \in [ChangeIds -> NodePortChange]
            BY <2>1, <2>6
        <3> QED
            BY <3>1, <3>2 DEF NodeStoreTypeOK
    <2>11. \A j \in Prepared' :
               /\ j \in Prepared /\ j # k /\ change'[j] = change[j]
               /\ change[j].node # n /\ change[j].new # change[k].new
               /\ change[j].node \in Nodes
        BY <2>2, <2>6, <2>7, <2>8 DEF NodeInv, PortsReserved, n
    <2>12. PortsReserved'
        <3>1. ASSUME NEW a \in RegisteredNodes', NEW b \in RegisteredNodes',
                     row'[a].port = row'[b].port
              PROVE  a = b
            BY <2>2, <2>5, <2>7, <2>9, <3>1 DEF NodeInv, PortsReserved
        <3>2. ASSUME NEW j \in Prepared'
              PROVE  /\ change'[j].node \in RegisteredNodes'
                     /\ row'[change'[j].node].port = change'[j].old
                     /\ \A m \in RegisteredNodes' : row'[m].port # change'[j].new
            BY <2>1, <2>5, <2>7, <2>9, <2>11 DEF NodeInv, PortsReserved
        <3>3. ASSUME NEW i \in Prepared', NEW j \in Prepared',
                     change'[i].new = change'[j].new \/ change'[i].node = change'[j].node
              PROVE  i = j
            BY <2>11, <3>3 DEF NodeInv, PortsReserved
        <3> QED
            BY <3>1, <3>2, <3>3 DEF PortsReserved
    <2>13. CamerasOnServingNode'
        BY <2>1, <2>4, <2>5 DEF NodeInv, CamerasOnServingNode
    <2>14. ChangedNodeStays'
        BY <2>5, <2>11 DEF NodeInv, ChangedNodeStays
    <2>15. ASSUME NEW m \in RegisteredNodes, row'[m].port # row[m].port
           PROVE  /\ k \in PreparedOn(m) /\ row'[m].port = change[k].new
                  /\ change'[k].state = "complete"
        <3>1. m = n /\ r.port # row[n].port
            BY <2>5, <2>7, <2>15
        <3>2. complete /\ r.port = change[k].new
            BY <2>2, <2>3, <2>4, <3>1 DEF NodeInv, PortsReserved, n
        <3> QED
            BY <2>2, <2>5, <2>6, <3>1, <3>2 DEF FinishedState
    <2> QED
        BY <2>10, <2>12, <2>13, <2>14, <2>15 DEF NodeInv
<1> QED
    BY <1>1, <1>2

(* Every transaction keeps the invariant.                                    *)
LEMMA NextKeepsInv ==
    ASSUME NodeInv, [NodeStoreNext]_nodeStoreVars
    PROVE  NodeInv'
<1>1. CASE UNCHANGED nodeStoreVars
    BY <1>1, StutterKeepsInv DEF nodeStoreVars
<1>2. ASSUME NEW k \in ChangeIds, ChangeStep(k)
      PROVE  NodeInv'
    BY <1>2, BeginKeepsInv, FinishKeepsInv DEF ChangeStep
<1> QED
    BY <1>1, <1>2, RegisterKeepsInv, RequestKeepsInv, ObservationKeepsInv,
       FinalizeKeepsInv, PlacementKeepsInv DEF NodeStoreNext

(* The empty store satisfies the invariant.                                  *)
LEMMA InitInv == NodeStoreInit => NodeInv
<1> SUFFICES ASSUME NodeStoreInit PROVE NodeInv
    OBVIOUS
<1>1. AbsentNode \in MediaNode /\ NoChange \in NodePortChange
    BY DEF AbsentNode, NoChange, MediaNode, NodePortChange, NodeState
<1>2. RegisteredNodes = {} /\ Prepared = {}
    BY DEF NodeStoreInit, RegisteredNodes, Prepared, AbsentNode, NoChange, NodeState
<1>3. \A n \in Nodes : row[n].applied = 0 /\ row[n].desired = 0 /\ row[n].cams = 0
    BY DEF NodeStoreInit, AbsentNode
<1> QED
    BY <1>1, <1>2, <1>3 DEF NodeStoreInit, NodeInv, NodeStoreTypeOK, PortsReserved,
       CamerasOnServingNode, ChangedNodeStays

(* NodeInv is an invariant of the node store.                                *)
THEOREM NodeInvariant == NodeStoreSpec => []NodeInv
BY InitInv, NextKeepsInv, PTL DEF NodeStoreSpec

(* begin_port_change, register_automatically, _finish_port_change and the    *)
(* deletion never leave two owners of a port, however they interleave.       *)
THEOREM PortsAreReserved == NodeStoreSpec => []PortsReserved
<1>1. NodeInv => PortsReserved
    BY DEF NodeInv
<1> QED
    BY <1>1, NodeInvariant, PTL

(* No camera is on a stopped or deleted node.                                *)
THEOREM CamerasAreServed == NodeStoreSpec => []CamerasOnServingNode
<1>1. NodeInv => CamerasOnServingNode
    BY DEF NodeInv
<1> QED
    BY <1>1, NodeInvariant, PTL

(* The requests, observations, deletions and placements leave the ports of   *)
(* registered nodes alone, and so does a registration.                       *)
LEMMA PortsKept ==
    ASSUME NodeInv, NEW n \in Nodes, NEW m \in RegisteredNodes,
           \/ Request(n)
           \/ \E o \in BoundedObservation : apply_runtime_observation(n, o)
           \/ finalize_node_delete(n) /\ m \in RegisteredNodes'
           \/ PlaceCamera(n) \/ RemoveCamera(n)
           \/ \E p \in Ports, rel \in Releases :
                  RegisterAllowed(n, p) /\ register_automatically(n, p, rel)
    PROVE  row'[m].port = row[m].port
<1>1. /\ row \in [Nodes -> MediaNode] /\ m \in Nodes /\ row[m] \in MediaNode
      /\ row[n] \in MediaNode /\ row[m].state \in NodeState
    BY DEF NodeInv, NodeStoreTypeOK, RegisteredNodes
<1>2. CASE m # n
    BY <1>1, <1>2 DEF Request, request_desired_state, request_administrative_state,
        request_stop, request_restart, request_reconfigure, request_release,
        request_node_delete, apply_runtime_observation, finalize_node_delete,
        PlaceCamera, RemoveCamera, register_automatically
<1>3. CASE m = n
    <2>1. CASE Request(n)
        <3>1. CASE request_desired_state(n)
            BY <1>1, <1>3, <3>1 DEF request_desired_state, MediaNode
        <3>2. CASE \E state \in {"draining", "maintenance", "running"} :
                       request_administrative_state(n, state)
            BY <1>1, <1>3, <3>2 DEF request_administrative_state, MediaNode
        <3>3. CASE request_stop(n)
            BY <1>1, <1>3, <3>3 DEF request_stop, MediaNode
        <3>4. CASE request_restart(n)
            BY <1>1, <1>3, <3>4 DEF request_restart, MediaNode
        <3>5. CASE \E rel \in Releases : request_reconfigure(n, rel)
            BY <1>1, <1>3, <3>5 DEF request_reconfigure, MediaNode
        <3>6. CASE \E rel \in Releases : request_release(n, rel)
            BY <1>1, <1>3, <3>6 DEF request_release, MediaNode
        <3>7. CASE request_node_delete(n)
            BY <1>1, <1>3, <3>7 DEF request_node_delete, MediaNode
        <3> QED
            BY <2>1, <3>1, <3>2, <3>3, <3>4, <3>5, <3>6, <3>7 DEF Request
    <2>2. CASE \E o \in BoundedObservation : apply_runtime_observation(n, o)
        <3>1. PICK o \in BoundedObservation : row'[n] = Observed(row[n], o)
            BY <1>1, <2>2 DEF apply_runtime_observation
        <3>2. Observed(row[n], o).port = row[n].port
            BY <1>1 DEF Observed, MediaNode
        <3> QED
            BY <1>3, <3>1, <3>2
    <2>3. CASE finalize_node_delete(n) /\ m \in RegisteredNodes'
        BY <1>1, <1>3, <2>3 DEF finalize_node_delete, RegisteredNodes, AbsentNode, NodeState
    <2>4. CASE PlaceCamera(n) \/ RemoveCamera(n)
        BY <1>1, <1>3, <2>4 DEF PlaceCamera, RemoveCamera, MediaNode
    <2>5. CASE \E p \in Ports, rel \in Releases :
                   RegisterAllowed(n, p) /\ register_automatically(n, p, rel)
        BY <1>1, <1>3, <2>5 DEF RegisterAllowed, NodeState
    <2> QED
        BY <2>1, <2>2, <2>3, <2>4, <2>5
<1> QED
    BY <1>2, <1>3

(* A node's port changes only when a prepared change to that port completes. *)
THEOREM PortsMoveByChange == NodeStoreSpec => PortMovesByChange
<1> DEFINE Step ==
        \A n \in Nodes :
            n \in RegisteredNodes /\ n \in RegisteredNodes' /\ row'[n].port # row[n].port
                => \E k \in PreparedOn(n) :
                       change[k].new = row'[n].port /\ change'[k].state = "complete"
<1>1. ASSUME NodeInv, NodeStoreNext
      PROVE  Step
    <2> SUFFICES ASSUME NEW m \in RegisteredNodes, m \in RegisteredNodes',
                        row'[m].port # row[m].port
                 PROVE  \E k \in PreparedOn(m) :
                            change[k].new = row'[m].port /\ change'[k].state = "complete"
        OBVIOUS
    <2>1. PICK k \in ChangeIds : ChangeStep(k)
        BY <1>1, PortsKept DEF NodeStoreNext
    <2>2. PICK o \in BoundedObservation, complete \in BOOLEAN :
              FinishAllowed(k, o, complete) /\ finish_port_change(k, o, complete)
        BY <2>1 DEF ChangeStep, begin_port_change
    <2> QED
        BY <1>1, <2>2, FinishKeepsInv
<1>2. NodeInv /\ [NodeStoreNext]_nodeStoreVars => [Step]_nodeStoreVars
    BY <1>1
<1>3. [][Step]_nodeStoreVars => PortMovesByChange
    BY DEF PortMovesByChange, PortStep
<1> HIDE DEF Step
<1> QED
    BY <1>2, <1>3, NodeInvariant, PTL DEF NodeStoreSpec
=============================================================================
