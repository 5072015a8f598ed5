-------------------------- MODULE CameraReconcile --------------------------
(***************************************************************************)
(* The reconciler: ReconcileCoordinator.run_once with CameraMoveReconciler *)
(* and CameraReconciler, working on the registry (CameraStore) and on the  *)
(* media plane (MediaNodes), together with the operator that requests      *)
(* moves, the readers, and the node processes that die and restart.        *)
(*                                                                         *)
(* One step is one management API call, one transaction or one             *)
(* advisory-lock attempt.  A call on a dead process fails; a call on a     *)
(* live one may fail too, before or after it took effect.  The reads that  *)
(* only decide what the same handler does next are merged with the         *)
(* decision.                                                               *)
(*                                                                         *)
(* As in CameraStore, the definitions no action refers to are wrong        *)
(* variants of the definition that follows them.                           *)
(***************************************************************************)
EXTENDS MediaNodes

CONSTANTS
    Workers,          \* reconciler processes (two while one replaces another)
    Free,             \* no session holds the advisory lock
    NoCamera,         \* a worker field that holds no camera
    NoJob,            \* a worker that resumes no move
    InitialSource,    \* source of the registered cameras
    Registered,       \* cameras of the registry; a path of another camera is an
                      \* orphan, as after a restore of an older database
    Mortal,           \* nodes whose process may die
    MaxFaults         \* bound on lost calls, interruptions and node deaths

ASSUME ReconcileAssumption ==
    /\ Nodes \subseteq Nat
    /\ Free \notin Workers
    /\ InitialSource \in Source
    /\ Registered \subseteq Cameras
    /\ MaxFaults \in Nat

VARIABLES
    guard,            \* guard[n]: holder of the node's advisory lock
    wk,               \* wk[w]: program counter and locals of a worker
    ask,              \* the operator's move request in progress
    faults            \* faults injected so far

reconcileVars == <<camera, move, node, path, readers, alive, guard, wk, ask, faults>>

-----------------------------------------------------------------------------
(* Locals.  mv is the CameraMove object a worker holds: a copy that may be   *)
(* older than the row.  rows is the list_node_cameras result.  at, want and  *)
(* ret are the arguments and the continuation of the put/verify and remove   *)
(* helpers.                                                                  *)
Job == [src : Nodes, dst : Nodes, rev : Nat, force : BOOLEAN,
        confirmed : 0..1, source : Source]

IdleWorker == [pc |-> "idle", jobs |-> {}, nodes |-> {}, cam |-> NoCamera,
               mv |-> NoJob, at |-> NoNode, want |-> NoPath, ret |-> "idle",
               rows |-> [c \in {} |-> AbsentCamera], todo |-> {}, orphans |-> {}]

Waiting == [pc |-> "idle", cam |-> NoCamera, rev |-> 0, dst |-> NoNode, readers |-> 0]

(* What _camera_move(row) makes of a camera source when the statement did    *)
(* not join camera_source_credentials: the stored URL only.                  *)
WithoutCredentials(s) == [s EXCEPT !.secret = FALSE]

Held(w) == {n \in Nodes : guard[n] = w}

Release(w) == guard' = [n \in Nodes |-> IF guard[n] = w THEN Free ELSE guard[n]]

(* Locks a worker takes for its job, in ascending node id.                   *)
Wanted(w) == (IF wk[w].mv = NoJob THEN {wk[w].at} ELSE {wk[w].mv.src, wk[w].mv.dst})
                 \ Held(w)

NextLock(w) == CHOOSE n \in Wanted(w) : \A m \in Wanted(w) : n <= m

-----------------------------------------------------------------------------
(* Outcomes of a management call.                                            *)

Fault == faults < MaxFaults /\ faults' = faults + 1

CallFails(n) ==
    \/ ~alive[n] /\ UNCHANGED faults
    \/ alive[n] /\ Fault

CallAnswers(n) == alive[n] /\ UNCHANGED faults

CallLost(n) == alive[n] /\ Fault

-----------------------------------------------------------------------------
(* Control transfers of a worker.  Back ends the current move or node        *)
(* normally or with a retryable error: run_once counts it and goes on.       *)

Back(w) ==
    /\ wk' = [wk EXCEPT ![w] = [IdleWorker EXCEPT
                 !.pc = IF wk[w].mv = NoJob THEN "nodes" ELSE "moves",
                 !.jobs = wk[w].jobs, !.nodes = wk[w].nodes]]
    /\ Release(w)

Enter(w, label, n, want, ret) ==
    /\ wk' = [wk EXCEPT ![w].pc = label, ![w].at = n, ![w].want = want, ![w].ret = ret]
    /\ UNCHANGED guard

Goto(w, label) ==
    /\ wk' = [wk EXCEPT ![w].pc = label]
    /\ UNCHANGED guard

(* Return from a helper: quiesce and restore call the next helper at once.   *)
Return(w) ==
    LET mv == wk[w].mv
    IN  CASE wk[w].ret = "quiesce" -> Enter(w, "put", mv.src, Closed(mv.source), "occupancy")
          [] wk[w].ret = "restore" -> Enter(w, "put", mv.src, Open(mv.source), "abort")
          [] OTHER -> Enter(w, wk[w].ret, wk[w].at, NoPath, "idle")

-----------------------------------------------------------------------------
(* run_once                                                                  *)

BeginCycle(w) ==
    /\ wk[w].pc = "idle"
    /\ wk' = [wk EXCEPT ![w].pc = "moves",
                        ![w].jobs = {<<c, move[c].rev>> : c \in {d \in Cameras : ActiveMove(d)}}]
    /\ UNCHANGED <<camera, move, node, path, readers, alive, guard, ask, faults>>

(* resume: the first read of the move, outside the guards.                   *)
PickMove(w) ==
    /\ wk[w].pc = "moves"
    /\ \E job \in wk[w].jobs :
           LET c == job[1]
               m == move[c]
           IN  IF ActiveMove(c) /\ m.rev = job[2]
               THEN wk' = [wk EXCEPT ![w].pc = "lock", ![w].jobs = @ \ {job}, ![w].cam = c,
                              ![w].mv = [src |-> m.src, dst |-> m.dst, rev |-> m.rev,
                                         force |-> m.force, confirmed |-> m.confirmed,
                                         source |-> camera[c].source]]
               ELSE wk' = [wk EXCEPT ![w].jobs = @ \ {job}]
    /\ UNCHANGED <<camera, move, node, path, readers, alive, guard, ask, faults>>

ListPlacedNodes(w) ==
    /\ wk[w].pc = "moves"
    /\ wk[w].jobs = {}
    /\ wk' = [wk EXCEPT ![w].pc = "nodes",
                 ![w].nodes = {n \in Nodes : node[n].running /\ node[n].registered > 0}]
    /\ UNCHANGED <<camera, move, node, path, readers, alive, guard, ask, faults>>

ListNodes(w) ==
    /\ wk[w].pc = "moves"
    /\ wk[w].jobs = {}
    /\ wk' = [wk EXCEPT ![w].pc = "nodes", ![w].nodes = {n \in Nodes : node[n].running}]
    /\ UNCHANGED <<camera, move, node, path, readers, alive, guard, ask, faults>>

PickNode(w) ==
    /\ wk[w].pc = "nodes"
    /\ \E n \in wk[w].nodes :
           wk' = [wk EXCEPT ![w].pc = "lock", ![w].nodes = @ \ {n}, ![w].at = n]
    /\ UNCHANGED <<camera, move, node, path, readers, alive, guard, ask, faults>>

EndCycle(w) ==
    /\ wk[w].pc = "nodes"
    /\ wk[w].nodes = {}
    /\ wk' = [wk EXCEPT ![w] = IdleWorker]
    /\ UNCHANGED <<camera, move, node, path, readers, alive, guard, ask, faults>>

LockShared(w) ==
    /\ wk[w].pc = "lock"
    /\ guard' = [guard EXCEPT ![NextLock(w)] = w]
    /\ wk' = [wk EXCEPT ![w].pc =
                 IF Cardinality(Wanted(w)) > 1 THEN "lock"
                 ELSE IF wk[w].mv = NoJob THEN "read_cameras" ELSE "read_move"]
    /\ UNCHANGED <<camera, move, node, path, readers, alive, ask, faults>>

(* reconcile_guard, taken once for a node and twice, in order, for a move.   *)
Lock(w) ==
    /\ wk[w].pc = "lock"
    /\ guard[NextLock(w)] = Free
    /\ guard' = [guard EXCEPT ![NextLock(w)] = w]
    /\ wk' = [wk EXCEPT ![w].pc =
                 IF Cardinality(Wanted(w)) > 1 THEN "lock"
                 ELSE IF wk[w].mv = NoJob THEN "read_cameras" ELSE "read_move"]
    /\ UNCHANGED <<camera, move, node, path, readers, alive, ask, faults>>

(* NodeLifecycleBusy: the lock stayed taken for the whole timeout.           *)
LockTimesOut(w) ==
    /\ wk[w].pc = "lock"
    /\ guard[NextLock(w)] # Free
    /\ Back(w)
    /\ UNCHANGED <<camera, move, node, path, readers, alive, ask, faults>>

(* Cancellation, a crash, or an error run_once does not catch: the session   *)
(* ends, its locks are gone, the process starts over.                        *)
Interrupt(w) ==
    /\ wk[w].pc # "idle"
    /\ Fault
    /\ wk' = [wk EXCEPT ![w] = IdleWorker]
    /\ Release(w)
    /\ UNCHANGED <<camera, move, node, path, readers, alive, ask>>

-----------------------------------------------------------------------------
(* Helpers that talk to one media node about one path.                       *)

(* get_path before a conditional put: _prepare_and_verify, reconcile_node.   *)
EnsureGet(w) ==
    LET n == wk[w].at
        c == wk[w].cam
    IN  /\ wk[w].pc = "ensure_get"
        /\ \/ CallAnswers(n) /\ Goto(w, IF path[n][c] = wk[w].want THEN "verify" ELSE "ensure_put")
           \/ CallFails(n) /\ Goto(w, "verify")
        /\ UNCHANGED <<camera, move, node, path, readers, alive, ask>>

(* The conditional put: an error is answered by reading back.                *)
EnsurePut(w) ==
    LET n == wk[w].at
        c == wk[w].cam
    IN  /\ wk[w].pc = "ensure_put"
        /\ \/ (CallAnswers(n) \/ CallLost(n)) /\ PutPath(n, c, wk[w].want)
           \/ CallFails(n) /\ UNCHANGED mediaVars
        /\ Goto(w, "verify")
        /\ UNCHANGED <<camera, move, node, ask>>

(* The unconditional put: an error ends the attempt.                         *)
Put(w) ==
    LET n == wk[w].at
        c == wk[w].cam
    IN  /\ wk[w].pc = "put"
        /\ \/ CallAnswers(n) /\ PutPath(n, c, wk[w].want) /\ Goto(w, "verify")
           \/ CallLost(n) /\ PutPath(n, c, wk[w].want) /\ Back(w)
           \/ CallFails(n) /\ UNCHANGED mediaVars /\ Back(w)
        /\ UNCHANGED <<camera, move, node, ask>>

VerifyTrusting(w) ==
    LET n == wk[w].at
    IN  /\ wk[w].pc = "verify"
        /\ \/ CallAnswers(n) /\ Return(w)
           \/ CallFails(n) /\ Back(w)
        /\ UNCHANGED <<camera, move, node, path, readers, alive, ask>>

(* get_path after a put; _safe_read_back repeats it once.                    *)
Verify(w) ==
    LET n == wk[w].at
        c == wk[w].cam
    IN  /\ wk[w].pc = "verify"
        /\ \/ CallAnswers(n) /\ path[n][c] = wk[w].want /\ Return(w)
           \/ CallAnswers(n) /\ path[n][c] # wk[w].want /\ Back(w)
           \/ CallFails(n) /\ Back(w)
        /\ UNCHANGED <<camera, move, node, path, readers, alive, ask>>

(* _remove_disabled_path: get, delete, read back (_safe_get on an error).    *)
RemoveGet(w) ==
    LET n == wk[w].at
    IN  /\ wk[w].pc = "remove_get"
        /\ \/ CallAnswers(n) /\ path[n][wk[w].cam] = NoPath /\ Return(w)
           \/ CallAnswers(n) /\ path[n][wk[w].cam] # NoPath /\ Goto(w, "remove")
           \/ CallFails(n) /\ Goto(w, "removed")
        /\ UNCHANGED <<camera, move, node, path, readers, alive, ask>>

Remove(w) ==
    LET n == wk[w].at
    IN  /\ wk[w].pc = "remove"
        /\ \/ (CallAnswers(n) \/ CallLost(n)) /\ DeletePath(n, wk[w].cam)
           \/ CallFails(n) /\ UNCHANGED mediaVars
        /\ Goto(w, "removed")
        /\ UNCHANGED <<camera, move, node, ask>>

Removed(w) ==
    LET n == wk[w].at
    IN  /\ wk[w].pc = "removed"
        /\ \/ CallAnswers(n) /\ path[n][wk[w].cam] = NoPath /\ Return(w)
           \/ CallAnswers(n) /\ path[n][wk[w].cam] # NoPath /\ Back(w)
           \/ CallFails(n) /\ Back(w)
        /\ UNCHANGED <<camera, move, node, path, readers, alive, ask>>

-----------------------------------------------------------------------------
(* CameraMoveReconciler.resume, with both guards held.                       *)

PreparedOpen(source) == Open(source)

(* The configuration _prepare_and_verify gives the target.                   *)
PreparedTarget(source) == Closed(source)

ReadMove(w) ==
    LET c == wk[w].cam
        m == move[c]
        source == camera[c].source
        Act(label, n, want, ret) ==
            /\ wk' = [wk EXCEPT ![w].pc = label, ![w].at = n, ![w].want = want,
                                ![w].ret = ret, ![w].mv.source = source]
            /\ UNCHANGED guard
    IN  /\ wk[w].pc = "read_move"
        /\ IF m.rev # wk[w].mv.rev \/ ~ActiveMove(c)
           THEN Back(w)
           ELSE \/ /\ m.state = "prepare_target"
                   /\ Act("ensure_get", m.dst, PreparedTarget(source), "quiesce")
                \/ /\ m.state = "cleanup_target"
                   /\ Act("remove_get", m.dst, NoPath, "restore")
                \/ /\ m.state = "cleanup_source"
                   /\ Act("remove_get", m.src, NoPath, "mark_cleaned")
                \/ /\ m.state = "activate_target"
                   /\ Act("put", m.dst, Open(source), "complete")
        /\ UNCHANGED <<camera, move, node, path, readers, alive, ask, faults>>

OccupancyForced(mv, count) == mv.force \/ count = 0

(* The reader count of the closed source path decides the move.              *)
OccupancyAllows(mv, count) == count = IF mv.force THEN mv.confirmed ELSE 0

Occupancy(w) ==
    LET mv == wk[w].mv
    IN  /\ wk[w].pc = "occupancy"
        /\ \/ /\ CallAnswers(mv.src)
              /\ Goto(w, IF OccupancyAllows(mv, readers[mv.src][wk[w].cam])
                         THEN "switch" ELSE "abort_request")
           \/ CallFails(mv.src) /\ Back(w)
        /\ UNCHANGED <<camera, move, node, path, readers, alive, ask>>

(* switch_camera_move, and the except clauses around it.                     *)
Switch(w) ==
    LET c == wk[w].cam
        m == move[c]
    IN  /\ wk[w].pc = "switch"
        /\ \/ SwitchCameraMove(c) /\ Enter(w, "remove_get", m.src, NoPath, "mark_cleaned")
           \/ /\ m.expired \/ SwitchConflict(c) \/ ~is_node_eligible(m.dst)
              /\ IF ~m.expired /\ SwitchConflict(c) THEN Back(w) ELSE Goto(w, "abort_request")
              /\ UNCHANGED storeVars
        /\ UNCHANGED <<path, readers, alive, ask, faults>>

AbortKeepsTarget(w) ==
    LET source == WithoutCredentials(wk[w].mv.source)
    IN  /\ wk[w].pc = "abort_request"
        /\ RequestCameraMoveAbort(wk[w].cam)
        /\ wk' = [wk EXCEPT ![w].pc = "put", ![w].at = wk[w].mv.src, ![w].want = Open(source),
                            ![w].ret = "abort", ![w].mv.source = source]
        /\ UNCHANGED <<path, readers, alive, guard, ask, faults>>

(* The CameraMove these two transactions return is built without the         *)
(* credential columns.                                                       *)
RequestAbort(w) ==
    /\ wk[w].pc = "abort_request"
    /\ RequestCameraMoveAbort(wk[w].cam)
    /\ wk' = [wk EXCEPT ![w].pc = "remove_get", ![w].at = wk[w].mv.dst, ![w].want = NoPath,
                        ![w].ret = "restore", ![w].mv.source = WithoutCredentials(@)]
    /\ UNCHANGED <<path, readers, alive, guard, ask, faults>>

MarkSourceCleaned(w) ==
    LET source == WithoutCredentials(wk[w].mv.source)
    IN  /\ wk[w].pc = "mark_cleaned"
        /\ MarkCameraMoveSourceCleaned(wk[w].cam)
        /\ wk' = [wk EXCEPT ![w].pc = "put", ![w].at = wk[w].mv.dst, ![w].want = Open(source),
                            ![w].ret = "complete", ![w].mv.source = source]
        /\ UNCHANGED <<path, readers, alive, guard, ask, faults>>

Abort(w) ==
    /\ wk[w].pc = "abort"
    /\ AbortCameraMove(wk[w].cam)
    /\ Back(w)
    /\ UNCHANGED <<path, readers, alive, ask, faults>>

Complete(w) ==
    /\ wk[w].pc = "complete"
    /\ CompleteCameraMove(wk[w].cam)
    /\ Back(w)
    /\ UNCHANGED <<path, readers, alive, ask, faults>>

-----------------------------------------------------------------------------
(* CameraReconciler.reconcile_node, with the node's guard held.              *)

ReadCameras(w) ==
    LET n == wk[w].at
    IN  /\ wk[w].pc = "read_cameras"
        /\ IF node[n].running
           THEN /\ wk' = [wk EXCEPT ![w].pc = "read_moves",
                                    ![w].rows = [c \in PlacedOn(n) |-> camera[c]]]
                /\ UNCHANGED guard
           ELSE Back(w)
        /\ UNCHANGED <<camera, move, node, path, readers, alive, ask, faults>>

(* todo: the cameras the loop will handle; orphans holds, until the          *)
(* inventory arrives, the known ids.                                         *)
ReadMoves(w) ==
    LET n == wk[w].at
        moving == {c \in Cameras : ActiveMove(c) /\ n \in {move[c].src, move[c].dst}}
    IN  /\ wk[w].pc = "read_moves"
        /\ wk' = [wk EXCEPT ![w].pc = "inventory",
                            ![w].todo = DOMAIN wk[w].rows \ moving,
                            ![w].orphans = DOMAIN wk[w].rows \cup moving]
        /\ UNCHANGED <<camera, move, node, path, readers, alive, guard, ask, faults>>

Inventory(w) ==
    LET n == wk[w].at
    IN  /\ wk[w].pc = "inventory"
        /\ \/ /\ CallAnswers(n)
              /\ wk' = [wk EXCEPT ![w].pc = "cameras",
                     ![w].orphans = {c \in Cameras : path[n][c] # NoPath} \ @]
              /\ UNCHANGED guard
           \/ CallFails(n) /\ Back(w)
        /\ UNCHANGED <<camera, move, node, path, readers, alive, ask>>

NextCamera(w) ==
    /\ wk[w].pc = "cameras"
    /\ \E c \in wk[w].todo :
           LET row == wk[w].rows[c]
           IN  wk' = [wk EXCEPT ![w].todo = @ \ {c}, ![w].cam = c, ![w].ret = "mark_applied",
                         ![w].pc = IF row.state = "enabled" THEN "ensure_get" ELSE "remove_get",
                         ![w].want = IF row.state = "enabled" THEN Open(row.source) ELSE NoPath]
    /\ UNCHANGED <<camera, move, node, path, readers, alive, guard, ask, faults>>

MarkApplied(w) ==
    LET c == wk[w].cam
        row == wk[w].rows[c]
    IN  /\ wk[w].pc = "mark_applied"
        /\ \/ /\ MarkCameraApplied(c, wk[w].at, row.gen, row.desired)
              /\ wk' = [wk EXCEPT ![w].pc = "cameras", ![w].cam = NoCamera]
              /\ UNCHANGED guard
           \/ /\ ~ApplyFence(c, wk[w].at, row.gen, row.desired)
              /\ Back(w)
              /\ UNCHANGED storeVars
        /\ UNCHANGED <<path, readers, alive, ask, faults>>

NextOrphan(w) ==
    /\ wk[w].pc = "cameras"
    /\ wk[w].todo = {}
    /\ \E c \in wk[w].orphans :
           wk' = [wk EXCEPT ![w].orphans = @ \ {c}, ![w].cam = c, ![w].pc = "remove",
                            ![w].want = NoPath, ![w].ret = "cameras"]
    /\ UNCHANGED <<camera, move, node, path, readers, alive, guard, ask, faults>>

NodeReconciled(w) ==
    /\ wk[w].pc = "cameras"
    /\ wk[w].todo = {}
    /\ wk[w].orphans = {}
    /\ Back(w)
    /\ UNCHANGED <<camera, move, node, path, readers, alive, ask, faults>>

(* The two loops over a node: its rows, then its paths that have no row.     *)
NextPath(w) ==
    /\ wk[w].pc = "cameras"
    /\ NextCamera(w) \/ NextOrphan(w) \/ NodeReconciled(w)

-----------------------------------------------------------------------------
(* CameraMoveControl: preview reads the registry and the reader count;       *)
(* request_move previews, checks the confirmation against that preview and   *)
(* creates the move at the previewed revision.                               *)

PreviewMove(c, n) ==
    /\ ask = Waiting
    /\ camera[c].state = "enabled"
    /\ camera[c].desired < MaxRevision
    /\ camera[c].node # n
    /\ ~node[camera[c].node].portChange
    /\ ~node[n].portChange
    /\ is_node_eligible(n)
    /\ CallAnswers(camera[c].node)
    /\ ask' = [pc |-> "previewed", cam |-> c, rev |-> camera[c].desired, dst |-> n,
               readers |-> readers[camera[c].node][c]]
    /\ UNCHANGED <<camera, move, node, path, readers, alive, guard, wk>>

RequestMove(force) ==
    /\ ask.pc = "previewed"
    /\ \/ /\ ask.readers = 1 => force
          /\ CreateCameraMove(ask.cam, ask.rev, ask.dst, force, ask.readers)
       \/ UNCHANGED storeVars
    /\ ask' = Waiting
    /\ UNCHANGED <<path, readers, alive, guard, wk, faults>>

-----------------------------------------------------------------------------
(* Everything else that moves: readers, processes, observations, the clock.  *)

ReaderStep(n, c) ==
    /\ ReaderAttaches(n, c) \/ ReaderLeaves(n, c)
    /\ UNCHANGED <<camera, move, node, guard, wk, ask, faults>>

ProcessDies(n) ==
    /\ n \in Mortal
    /\ Fault
    /\ NodeDies(n)
    /\ UNCHANGED <<camera, move, node, guard, wk, ask>>

ProcessStarts(n) ==
    /\ NodeStarts(n)
    /\ UNCHANGED <<camera, move, node, guard, wk, ask, faults>>

(* A runtime observation stores what the helper saw; an administrative       *)
(* command (drain, maintenance) withdraws a node from admission.             *)
Observation(n) ==
    /\ <<node[n].admitting, node[n].running>> # <<alive[n], alive[n]>>
    /\ ObserveNode(n, alive[n], alive[n])
    /\ UNCHANGED <<path, readers, alive, guard, wk, ask, faults>>

Drain(n) ==
    /\ node[n].admitting
    /\ Fault
    /\ ObserveNode(n, FALSE, node[n].running)
    /\ UNCHANGED <<path, readers, alive, guard, wk, ask>>

Deadline(c) ==
    /\ MoveDeadlinePasses(c)
    /\ UNCHANGED <<path, readers, alive, guard, wk, ask, faults>>

-----------------------------------------------------------------------------
(* A running system: registered cameras that no reconciler has seen yet.     *)
ReconcileInit ==
    /\ camera \in {[c \in Cameras |->
                       IF c \in Registered
                       THEN [state |-> "enabled", source |-> InitialSource, desired |-> 1,
                             applied |-> 0, node |-> f[c], gen |-> 1]
                       ELSE AbsentCamera] : f \in [Registered -> Nodes]}
    /\ node = [n \in Nodes |-> [registered |-> Cardinality(PlacedOn(n)), admitting |-> TRUE,
                                running |-> TRUE, portChange |-> FALSE]]
    /\ \A n \in Nodes : node[n].registered <= Capacity
    /\ move = [c \in Cameras |-> NoMove]
    /\ path = [n \in Nodes |-> [c \in Cameras |->
                  IF c \in Registered THEN NoPath ELSE Open(InitialSource)]]
    /\ readers = [n \in Nodes |-> [c \in Cameras |-> 0]]
    /\ alive = [n \in Nodes |-> TRUE]
    /\ guard = [n \in Nodes |-> Free]
    /\ wk = [w \in Workers |-> IdleWorker]
    /\ ask = Waiting
    /\ faults = 0

RunOnce(w) == BeginCycle(w) \/ PickMove(w) \/ ListNodes(w) \/ PickNode(w) \/ EndCycle(w)
                  \/ Lock(w) \/ LockTimesOut(w)

MediaCall(w) == EnsureGet(w) \/ EnsurePut(w) \/ Put(w) \/ Verify(w)
                    \/ RemoveGet(w) \/ Remove(w) \/ Removed(w)

Resume(w) == ReadMove(w) \/ Occupancy(w) \/ Switch(w) \/ RequestAbort(w)
                 \/ MarkSourceCleaned(w) \/ Abort(w) \/ Complete(w)

ReconcileNode(w) == ReadCameras(w) \/ ReadMoves(w) \/ Inventory(w) \/ NextPath(w)
                        \/ MarkApplied(w)

WorkerStep(w) == RunOnce(w) \/ MediaCall(w) \/ Resume(w) \/ ReconcileNode(w)

MoveRequest ==
    \/ \E c \in Registered, n \in Nodes : PreviewMove(c, n)
    \/ \E force \in BOOLEAN : RequestMove(force)

Environment ==
    \/ \E n \in Nodes, c \in Cameras : ReaderStep(n, c)
    \/ \E n \in Nodes : ProcessDies(n) \/ ProcessStarts(n) \/ Observation(n) \/ Drain(n)
    \/ \E c \in Cameras : Deadline(c)

ReconcileNext ==
    \/ \E w \in Workers : WorkerStep(w) \/ Interrupt(w)
    \/ MoveRequest
    \/ Environment

ReconcileSpec == ReconcileInit /\ [][ReconcileNext]_reconcileVars

(* The reconciler service runs cycle after cycle, the collector keeps        *)
(* observing, and the supervisor restarts a dead process.                    *)
ReconcileFairness ==
    /\ \A w \in Workers : WF_reconcileVars(WorkerStep(w))
    /\ \A n \in Nodes : WF_reconcileVars(ProcessStarts(n)) /\ WF_reconcileVars(Observation(n))

FairReconcileSpec == ReconcileSpec /\ ReconcileFairness

-----------------------------------------------------------------------------
(* Properties.                                                               *)

(* Type invariant of the reconciler's own state.                             *)
ReconcileTypeOK ==
    /\ StoreTypeOK
    /\ MediaTypeOK
    /\ guard \in [Nodes -> Workers \cup {Free}]
    /\ \A w \in Workers :
           /\ wk[w].mv \in Job \cup {NoJob}
           /\ wk[w].cam \in Cameras \cup {NoCamera}
           /\ wk[w].at \in Nodes \cup {NoNode}
           /\ wk[w].want \in PathConfig \cup {NoPath}
           /\ \A c \in DOMAIN wk[w].rows : wk[w].rows[c] \in CameraRow
    /\ faults \in 0..MaxFaults

(* The target of a move stays closed until the deletion of the source path   *)
(* is verified: up to cleanup_source no path is open on the target, and in   *)
(* activate_target, when resume opens it, the source has no path.            *)
TargetClosedUntilSourceDeleted ==
    \A c \in Cameras : ActiveMove(c) =>
        IF move[c].state = "activate_target"
        THEN path[move[c].src][c] = NoPath
        ELSE ~IsOpen(move[c].dst, c)

Service == INSTANCE CameraEndpoint WITH
    Cameras <- Registered,
    endpoint <- [c \in Registered |-> {n \in Nodes : IsOpen(n, c)}],
    holder <- [c \in Registered |-> {n \in Nodes : readers[n][c] = 1}]

(* Whatever calls are lost, processes die or cycles overlap, the reconciler  *)
(* keeps the promise of CameraEndpoint: one admitting node, one reader in    *)
(* the whole system, and no admission on the target of a move while the      *)
(* source still admits or holds a reader.                                    *)
SingleEndpoint == Service!EndpointSpec

ReaderLossStep ==
    wk' # wk => \A n \in Nodes, c \in Registered :
       readers'[n][c] < readers[n][c] =>
           /\ ActiveMove(c)
           /\ move[c].force
           /\ move[c].confirmed = 1

(* The reconciler disconnects a reader only in a forced move for which the   *)
(* operator confirmed exactly that reader: resume re-reads the occupancy     *)
(* after closing the source, and an abort re-opens the path in place.        *)
ReaderLostOnlyIfConfirmed == [][ReaderLossStep]_reconcileVars

(* An applied revision is a read-back verified configuration: as long as no  *)
(* process dies, an enabled camera whose applied_revision is current is      *)
(* served by an open path with its full source on its node.                  *)
AppliedMeansServed ==
    Mortal = {} =>
        \A c \in Registered :
            camera[c].state = "enabled" /\ camera[c].applied = camera[c].desired
                /\ ~ActiveMove(c)
            => path[camera[c].node][c] = Open(camera[c].source)

(* A registered camera never leaves a path behind on a node that is neither  *)
(* its placement nor an end of its current move.                             *)
NoStrayPath ==
    \A c \in Registered, n \in Nodes : path[n][c] # NoPath =>
        \/ camera[c].node = n
        \/ ActiveMove(c) /\ n \in {move[c].src, move[c].dst}

(* Once faults and requests cease every move has ended, the media plane is   *)
(* what the registry says, and applied_revision says so too; orphan paths    *)
(* are gone.                                                                 *)
Converged ==
    /\ \A c \in Registered : ~ActiveMove(c) /\ camera[c].applied = camera[c].desired
    /\ \A c \in Cameras, n \in Nodes :
           path[n][c] = IF camera[c].node = n THEN Open(camera[c].source) ELSE NoPath

=============================================================================
