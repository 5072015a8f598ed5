----------------------------- MODULE NodeControl -----------------------------
(***************************************************************************)
(* NodeControl of nodes.py: the operator's node commands and the startup   *)
(* recovery, run by the web replicas over the shared store (NodeStore) and *)
(* the host's root helper (NodeHost).                                      *)
(*                                                                         *)
(* A command takes the node's lifecycle_guard, a PostgreSQL advisory lock  *)
(* held for the whole command, reads the row, commits its request, calls   *)
(* the helper and records what the helper observed.  The guard is released *)
(* when the command ends, and when its replica dies.                       *)
(* recover_runtime_state runs once when a replica starts, before it serves *)
(* commands; it reads the incomplete port changes and their nodes before   *)
(* it takes the guard.                                                     *)
(***************************************************************************)
EXTENDS NodeHost

CONSTANTS
    Webs,        \* web replicas
    Free,        \* nobody holds a node's guard
    NoChangeId,
    MaxCrashes,  \* bound: times a replica dies
    BusyGuard    \* may the camera reconciler keep a guard past the timeout?

VARIABLES
    guard,       \* lifecycle_guard, by node
    op,          \* what each replica is doing
    todo,        \* what a recovering replica has read and has still to visit
    crashes

controlVars == <<guard, op, todo, crashes>>
vars == <<row, change, conf, proc, foreign, faults, guard, op, todo, crashes>>

-----------------------------------------------------------------------------
(* kind: the command; node, arg: its target; cur: the row as the command     *)
(* read or last wrote it; act: the helper action; k: the port change; obs:   *)
(* the helper's answer; back: where the replica goes when it is done.        *)
NoCommand == [pc |-> "idle", kind |-> "none", node |-> NoNode, arg |-> NoPort,
              cur |-> AbsentNode, act |-> "observe", k |-> NoChangeId,
              obs |-> Failure, back |-> "idle"]

Down == [NoCommand EXCEPT !.pc = "down"]

ControlInit ==
    /\ NodeStoreInit
    /\ HostInit
    /\ guard = [n \in Nodes |-> Free]
    /\ op = [w \in Webs |-> Down]
    /\ todo = [w \in Webs |-> {}]
    /\ crashes = 0

(* What the helper is asked for: the row's port, revision and release.       *)
SpecOf(r) == [port |-> r.port, rev |-> r.desired, rel |-> r.rel]

Target(w) == [SpecOf(op[w].cur) EXCEPT !.port = change[op[w].k].new,
                                      !.rev = TargetRevision(op[w].k)]

At(w, pc, kind) == op[w].pc = pc /\ op[w].kind = kind

Goto(w, pc) == op' = [op EXCEPT ![w].pc = pc]

(* The command returns or raises: the guard is released either way.          *)
Return(w) ==
    /\ guard' = [guard EXCEPT ![op[w].node] = Free]
    /\ op' = [op EXCEPT ![w] = [NoCommand EXCEPT !.pc = op[w].back]]

(* A request has committed: call the helper with the row it left.            *)
Call(w, act) ==
    /\ op' = [op EXCEPT ![w].pc = "exec", ![w].act = act,
                        ![w].cur = row'[op[w].node]]
    /\ UNCHANGED guard

Refused(w) == Return(w) /\ UNCHANGED nodeStoreVars

(* The replica ends, with its connections and so its guards; what it had     *)
(* read is lost.                                                             *)
Dies(w) ==
    /\ guard' = [n \in Nodes |-> IF guard[n] = w THEN Free ELSE guard[n]]
    /\ op' = [op EXCEPT ![w] = Down]
    /\ todo' = [todo EXCEPT ![w] = {}]

RecordFailed(n, applied) ==
    IF ApplyObservationAllowed(n, FailedObservation(applied))
    THEN apply_runtime_observation(n, FailedObservation(applied))
    ELSE UNCHANGED nodeStoreVars

-----------------------------------------------------------------------------
(* Taking the guard.  lifecycle_guard raises NodeNotFound when the row has   *)
(* gone and NodeLifecycleBusy when the guard stays taken.                    *)

Acquire(w, n, kind, arg, back) ==
    /\ guard[n] = Free
    /\ n \in RegisteredNodes
    /\ guard' = [guard EXCEPT ![n] = w]
    /\ op' = [op EXCEPT ![w] =
           [NoCommand EXCEPT !.pc = "request", !.kind = kind, !.node = n,
                             !.arg = arg, !.cur = row[n], !.back = back]]

Commands == {<<k, NoPort>> : k \in {"start", "stop", "restart", "delete", "observe"}}
    \cup {<<"administrate", s>> : s \in {"draining", "maintenance", "running"}}
    \cup {<<k, r>> : k \in {"reconfigure", "release"}, r \in Releases}
    \cup {<<"change_port", p>> : p \in Ports}

Command(w, n, c) ==
    /\ op[w].pc = "idle"
    /\ row[n].desired < MaxRevision
    /\ c[1] = "change_port" => \E k \in ChangeIds : change[k].state = "none"
    /\ Acquire(w, n, c[1], c[2], "idle")
    /\ UNCHANGED <<nodeStoreVars, hostVars, todo, crashes>>

(* register_node probes the port, commits the row, then starts the node; a   *)
(* busy guard leaves the reservation for a later start.                      *)
Register(w, n, p, rel) ==
    /\ op[w].pc = "idle"
    /\ Bindable(p)
    /\ RegisterAllowed(n, p)
    /\ register_automatically(n, p, rel)
    /\ op' = [op EXCEPT ![w] = [NoCommand EXCEPT !.pc = "provision", !.node = n]]
    /\ UNCHANGED <<hostVars, guard, todo, crashes>>

ProvisionReserved(w) ==
    /\ op[w].pc = "provision"
    /\ LET n == op[w].node IN
       IF guard[n] = Free /\ n \in RegisteredNodes
       THEN Acquire(w, n, "start", NoPort, "idle")
       ELSE op' = [op EXCEPT ![w] = NoCommand] /\ UNCHANGED guard
    /\ UNCHANGED <<nodeStoreVars, hostVars, todo, crashes>>

-----------------------------------------------------------------------------
(* The requests, each one transaction under the guard.                       *)

Start(w) ==
    /\ At(w, "request", "start")
    /\ IF StartAllowed(op[w].node)
       THEN /\ request_desired_state(op[w].node)
            /\ Call(w, IF row'[op[w].node].applied = 0
                       THEN "provision_start" ELSE "start")
       ELSE Refused(w)
    /\ UNCHANGED <<hostVars, todo, crashes>>

Stop(w) ==
    /\ At(w, "request", "stop")
    /\ IF StopAllowed(op[w].node)
       THEN request_stop(op[w].node) /\ Call(w, "stop")
       ELSE Refused(w)
    /\ UNCHANGED <<hostVars, todo, crashes>>

Restart(w) ==
    /\ At(w, "request", "restart")
    /\ IF RestartAllowed(op[w].node)
       THEN request_restart(op[w].node) /\ Call(w, "restart")
       ELSE Refused(w)
    /\ UNCHANGED <<hostVars, todo, crashes>>

Observe(w) ==
    /\ At(w, "request", "observe") \/ At(w, "request", "recover")
    /\ UNCHANGED nodeStoreVars
    /\ Call(w, "observe")
    /\ UNCHANGED <<hostVars, todo, crashes>>

Administrate(w) ==
    /\ At(w, "request", "administrate")
    /\ IF AdministrativeAllowed(op[w].node, op[w].arg)
       THEN request_administrative_state(op[w].node, op[w].arg) /\ Return(w)
       ELSE Refused(w)
    /\ UNCHANGED <<hostVars, todo, crashes>>

UpdateRelease(w) ==
    /\ At(w, "request", "release")
    /\ IF ReleaseAllowed(op[w].node)
       THEN request_release(op[w].node, op[w].arg) /\ Return(w)
       ELSE Refused(w)
    /\ UNCHANGED <<hostVars, todo, crashes>>

(* A node that is not running proves its absence with an observation first.  *)
InactiveProof(n, r) ==
    LET o == Observation(n, "observe", SpecOf(r))
    IN r.rt = "running" \/ (o # Failure /\ o.state = "stopped")

Reconfigure(w) ==
    /\ At(w, "request", "reconfigure")
    /\ LET n == op[w].node  r == op[w].cur IN
       IF InactiveProof(n, r) /\ ReconfigureAllowed(n, r.desired, r.cams)
       THEN request_reconfigure(n, op[w].arg) /\ Call(w, "reconfigure_restart")
       ELSE Refused(w)
    /\ UNCHANGED <<hostVars, todo, crashes>>

Delete(w) ==
    /\ At(w, "request", "delete")
    /\ IF DeleteAllowed(op[w].node)
       THEN request_node_delete(op[w].node) /\ Call(w, "delete")
       ELSE Refused(w)
    /\ UNCHANGED <<hostVars, todo, crashes>>

ChangePort(w) ==
    /\ At(w, "request", "change_port")
    /\ LET n == op[w].node  r == op[w].cur  p == op[w].arg IN
       IF Bindable(p) /\ BeginAllowed(n, p, r.desired, r.cams)
       THEN \E k \in ChangeIds :
                /\ begin_port_change(k, n, p)
                /\ op' = [op EXCEPT ![w].pc = "change", ![w].k = k]
                /\ UNCHANGED guard
       ELSE Refused(w)
    /\ UNCHANGED <<hostVars, todo, crashes>>

-----------------------------------------------------------------------------
(* The helper call, and what the command does with the answer.               *)

Answered(w, o, done, failed) ==
    op' = [op EXCEPT ![w].pc = IF o = Failure THEN failed ELSE done, ![w].obs = o]

Helper(w, act, s, done, failed) ==
    LET n == op[w].node IN
    /\ \/ execute(n, act, s) /\ Answered(w, Observation(n, act, s), done, failed)
       \/ ExecuteFault(n, act, s) /\ Answered(w, Failure, done, failed)
    /\ UNCHANGED <<nodeStoreVars, guard, todo, crashes>>

Execute(w) ==
    /\ op[w].pc = "exec"
    /\ LET next == IF op[w].kind = "delete" THEN "finalize" ELSE "record"
       IN Helper(w, op[w].act, SpecOf(op[w].cur), next, next)

(* _execute_runtime records the observation, or FAILED; _recover_node then   *)
(* compares it with the persisted intent.                                    *)
Record(w) ==
    /\ op[w].pc = "record"
    /\ LET n == op[w].node
           o == op[w].obs
           intent == op[w].cur.state
       IN IF o # Failure /\ ApplyObservationAllowed(n, o)
          THEN /\ apply_runtime_observation(n, o)
               /\ IF op[w].kind = "recover" /\ intent = "running" /\ o.state # "running"
                  THEN op' = [op EXCEPT ![w].pc = "request", ![w].kind = "start"]
                       /\ UNCHANGED guard
                  ELSE IF op[w].kind = "recover" /\ intent = "stopped" /\ o.state = "running"
                  THEN op' = [op EXCEPT ![w].pc = "request", ![w].kind = "stop"]
                       /\ UNCHANGED guard
                  ELSE Return(w)
          ELSE RecordFailed(n, op[w].cur.applied) /\ Return(w)
    /\ UNCHANGED <<hostVars, todo, crashes>>

FinalizeDelete(w) ==
    /\ op[w].pc = "finalize"
    /\ LET n == op[w].node IN
       IF op[w].obs # Failure /\ FinalizeAllowed(n)
       THEN finalize_node_delete(n)
       ELSE RecordFailed(n, op[w].cur.applied)
    /\ Return(w)
    /\ UNCHANGED <<hostVars, todo, crashes>>

-----------------------------------------------------------------------------
(* change_port after its begin_port_change has committed.                    *)

ApplyTarget(w) ==
    /\ op[w].pc = "change"
    /\ Helper(w, "reconfigure_restart", Target(w), "port_wait", "rollback")

WaitForPortRelease(w) ==
    /\ op[w].pc = "port_wait"
    /\ Goto(w, IF Bindable(change[op[w].k].old) THEN "commit" ELSE "rollback")
    /\ UNCHANGED <<nodeStoreVars, hostVars, guard, todo, crashes>>

CompletePortChange(w) ==
    /\ op[w].pc = "commit"
    /\ IF FinishAllowed(op[w].k, op[w].obs, TRUE)
       THEN finish_port_change(op[w].k, op[w].obs, TRUE) /\ Return(w)
       ELSE Goto(w, "commit_check") /\ UNCHANGED <<nodeStoreVars, guard>>
    /\ UNCHANGED <<hostVars, todo, crashes>>

(* The commit raises: it may or may not have taken effect.                   *)
CommitLost(w, pc, complete, check) ==
    /\ op[w].pc = pc
    /\ faults < MaxFaults
    /\ FinishAllowed(op[w].k, op[w].obs, complete)
    /\ finish_port_change(op[w].k, op[w].obs, complete) \/ UNCHANGED nodeStoreVars
    /\ Goto(w, check)
    /\ faults' = faults + 1
    /\ UNCHANGED <<conf, proc, foreign, guard, todo, crashes>>

(* The commit of an observation raises.  Whether or not it took effect, the  *)
(* handler of _execute_runtime overwrites it with FAILED.                    *)
ObservationLost(w) ==
    /\ op[w].pc = "record"
    /\ faults < MaxFaults
    /\ op[w].obs # Failure
    /\ RecordFailed(op[w].node, op[w].cur.applied)
    /\ Return(w)
    /\ faults' = faults + 1
    /\ UNCHANGED <<conf, proc, foreign, todo, crashes>>

(* The commit of a deletion raises; FAILED is recorded if the row remains.   *)
DeletionLost(w) ==
    /\ op[w].pc = "finalize"
    /\ faults < MaxFaults
    /\ op[w].obs # Failure
    /\ LET n == op[w].node IN
       \/ FinalizeAllowed(n) /\ finalize_node_delete(n)
       \/ RecordFailed(n, op[w].cur.applied)
    /\ Return(w)
    /\ faults' = faults + 1
    /\ UNCHANGED <<conf, proc, foreign, todo, crashes>>

(* Any other statement fails: the command raises.  A request or the begin of *)
(* a port change may have been committed ("exec", "change").  During         *)
(* recovery nothing catches the exception, and the startup fails.            *)
StoreUnavailable(w) ==
    /\ op[w].pc \in {"request", "record", "finalize", "commit_check",
                     "rollback_failed", "abort_check", "exec", "change"}
    /\ faults < MaxFaults
    /\ IF op[w].back = "idle" THEN Return(w) /\ UNCHANGED todo ELSE Dies(w)
    /\ faults' = faults + 1
    /\ UNCHANGED <<nodeStoreVars, conf, proc, foreign, crashes>>

Committed(k, port, revision) ==
    LET r == row[change[k].node] IN
    /\ r.port = port
    /\ r.desired = revision
    /\ r.applied = revision
    /\ k \notin Prepared

CheckCommit(w) ==
    /\ op[w].pc = "commit_check"
    /\ LET k == op[w].k  r == row[op[w].node] IN
       IF \/ Committed(k, change[k].new, TargetRevision(k))
          \/ r.port # change[k].old
          \/ r.desired # change[k].source
       THEN Return(w)
       ELSE Goto(w, "rollback") /\ UNCHANGED guard
    /\ UNCHANGED <<nodeStoreVars, hostVars, todo, crashes>>

RollbackPortChange(w) ==
    /\ op[w].pc = "rollback"
    /\ Helper(w, "reconfigure_restart", SpecOf(op[w].cur), "abort", "rollback_failed")

RollbackFailedAborts(w) ==
    /\ op[w].pc = "rollback_failed"
    /\ row' = [row EXCEPT ![op[w].node] = Observed(@, FailedObservation(op[w].cur.applied))]
    /\ change' = [change EXCEPT ![op[w].k].state = "aborted"]
    /\ Return(w)
    /\ UNCHANGED <<hostVars, todo, crashes>>

RollbackFailed(w) ==
    /\ op[w].pc = "rollback_failed"
    /\ RecordFailed(op[w].node, op[w].cur.applied)
    /\ Return(w)
    /\ UNCHANGED <<hostVars, todo, crashes>>

AbortPortChange(w) ==
    /\ op[w].pc = "abort"
    /\ IF FinishAllowed(op[w].k, op[w].obs, FALSE)
       THEN finish_port_change(op[w].k, op[w].obs, FALSE) /\ Return(w)
       ELSE Goto(w, "abort_check") /\ UNCHANGED <<nodeStoreVars, guard>>
    /\ UNCHANGED <<hostVars, todo, crashes>>

CheckAbort(w) ==
    /\ op[w].pc = "abort_check"
    /\ LET k == op[w].k  n == op[w].node IN
       IF Committed(k, change[k].old, change[k].source)
       THEN UNCHANGED nodeStoreVars
       ELSE RecordFailed(n, IF op[w].cur.applied <= row[n].desired
                            THEN op[w].cur.applied ELSE row[n].desired)
    /\ Return(w)
    /\ UNCHANGED <<hostVars, todo, crashes>>

-----------------------------------------------------------------------------
(* recover_runtime_state: incomplete port changes, then interrupted          *)
(* deletions, then every other node.  An exception that no handler catches   *)
(* fails the startup, and systemd starts the replica again.                  *)

StartWeb(w) ==
    /\ op[w].pc = "down"
    /\ op' = [op EXCEPT ![w] = [NoCommand EXCEPT !.pc = "recover_changes"]]
    /\ todo' = [todo EXCEPT ![w] = {[k |-> k] : k \in Prepared}]
    /\ UNCHANGED <<nodeStoreVars, hostVars, guard, crashes>>

(* The node is read here, before the guard.                                  *)
RecoverChange(w) ==
    /\ op[w].pc = "recover_changes"
    /\ \E t \in todo[w] :
           LET n == change[t.k].node IN
           /\ todo' = [todo EXCEPT ![w] = @ \ {t}]
           /\ IF n \in RegisteredNodes
              THEN op' = [op EXCEPT ![w] =
                       [NoCommand EXCEPT !.pc = "lock", !.kind = "recover_change",
                           !.node = n, !.k = t.k, !.cur = row[n],
                           !.back = "recover_changes"]]
              ELSE UNCHANGED op
    /\ UNCHANGED <<nodeStoreVars, hostVars, guard, crashes>>

RecoverDeletions(w) ==
    /\ op[w].pc = "recover_changes"
    /\ todo[w] = {}
    /\ Goto(w, "recover_deletions")
    /\ todo' = [todo EXCEPT ![w] =
           {[n |-> n, r |-> row[n]] : n \in {m \in RegisteredNodes : row[m].state = "deleting"}}]
    /\ UNCHANGED <<nodeStoreVars, hostVars, guard, crashes>>

RecoverDeletion(w) ==
    /\ op[w].pc = "recover_deletions"
    /\ \E t \in todo[w] :
           /\ todo' = [todo EXCEPT ![w] = @ \ {t}]
           /\ op' = [op EXCEPT ![w] =
                  [NoCommand EXCEPT !.pc = "lock", !.kind = "recover_deletion",
                      !.node = t.n, !.cur = t.r, !.back = "recover_deletions"]]
    /\ UNCHANGED <<nodeStoreVars, hostVars, guard, crashes>>

(* The camera reconciler takes the same advisory lock, so the guard may be   *)
(* busy although no replica holds it.                                        *)
RecoveryLock(w) ==
    /\ op[w].pc = "lock"
    /\ LET n == op[w].node IN
       \/ /\ guard[n] = Free
          /\ n \in RegisteredNodes
          /\ guard' = [guard EXCEPT ![n] = w]
          /\ Goto(w, "recover_exec")
       \/ /\ BusyGuard \/ guard[n] # Free \/ n \notin RegisteredNodes
          /\ Goto(w, "recover_failed")
          /\ UNCHANGED guard
    /\ UNCHANGED <<nodeStoreVars, hostVars, todo, crashes>>

RecoveryExecute(w) ==
    /\ op[w].pc = "recover_exec"
    /\ LET r == SpecOf(op[w].cur)
           k == op[w].k
       IN IF op[w].kind = "recover_change"
          THEN Helper(w, "reconfigure_restart",
                      [r EXCEPT !.port = change[k].old, !.rev = change[k].source],
                      "recover_commit", "recover_commit")
          ELSE Helper(w, "delete", r, "recover_commit", "recover_commit")

RecoveryCommitAllowed(w) ==
    /\ op[w].obs # Failure
    /\ IF op[w].kind = "recover_change"
       THEN FinishAllowed(op[w].k, op[w].obs, FALSE)
       ELSE FinalizeAllowed(op[w].node)

RecoveryCommits(w) ==
    IF op[w].kind = "recover_change"
    THEN finish_port_change(op[w].k, op[w].obs, FALSE)
    ELSE finalize_node_delete(op[w].node)

RecoveryRaises(w) ==
    /\ Goto(w, "recover_failed")
    /\ guard' = [guard EXCEPT ![op[w].node] = Free]

RecoveryCommit(w) ==
    /\ op[w].pc = "recover_commit"
    /\ IF RecoveryCommitAllowed(w)
       THEN RecoveryCommits(w) /\ Return(w)
       ELSE RecoveryRaises(w) /\ UNCHANGED nodeStoreVars
    /\ UNCHANGED <<hostVars, todo, crashes>>

RecoveryCommitLost(w) ==
    /\ op[w].pc = "recover_commit"
    /\ faults < MaxFaults
    /\ RecoveryCommitAllowed(w)
    /\ RecoveryCommits(w) \/ UNCHANGED nodeStoreVars
    /\ RecoveryRaises(w)
    /\ faults' = faults + 1
    /\ UNCHANGED <<conf, proc, foreign, todo, crashes>>

(* The exception handler runs after the guard was released.                  *)
RecoveryFailed(w) ==
    /\ op[w].pc = "recover_failed"
    /\ LET n == op[w].node  o == FailedObservation(op[w].cur.applied) IN
       IF ApplyObservationAllowed(n, o)
       THEN /\ apply_runtime_observation(n, o)
            /\ op' = [op EXCEPT ![w] = [NoCommand EXCEPT !.pc = op[w].back]]
            /\ UNCHANGED <<guard, todo>>
       ELSE Dies(w) /\ UNCHANGED nodeStoreVars
    /\ UNCHANGED <<hostVars, crashes>>

RecoverNodes(w) ==
    /\ op[w].pc = "recover_deletions"
    /\ todo[w] = {}
    /\ Goto(w, "recover_nodes")
    /\ todo' = [todo EXCEPT ![w] = {[n |-> n] : n \in {m \in RegisteredNodes : row[m].state # "deleting"}}]
    /\ UNCHANGED <<nodeStoreVars, hostVars, guard, crashes>>

RecoverNode(w) ==
    /\ op[w].pc = "recover_nodes"
    /\ \E t \in todo[w] :
           \/ /\ Acquire(w, t.n, "recover", NoPort, "recover_nodes")
              /\ todo' = [todo EXCEPT ![w] = @ \ {t}]
           \/ /\ t.n \in RegisteredNodes
              /\ BusyGuard \/ guard[t.n] # Free
              /\ todo' = [todo EXCEPT ![w] = @ \ {t}]
              /\ UNCHANGED <<guard, op>>
           \/ /\ t.n \notin RegisteredNodes
              /\ Dies(w)
    /\ UNCHANGED <<nodeStoreVars, hostVars, crashes>>

Serve(w) ==
    /\ op[w].pc = "recover_nodes"
    /\ todo[w] = {}
    /\ Goto(w, "idle")
    /\ UNCHANGED <<nodeStoreVars, hostVars, guard, todo, crashes>>

Recovery(w) ==
    \/ StartWeb(w) \/ RecoverChange(w) \/ RecoverDeletions(w)
    \/ RecoverDeletion(w) \/ RecoveryLock(w) \/ RecoveryExecute(w)
    \/ RecoveryCommit(w) \/ RecoveryFailed(w) \/ RecoverNodes(w)
    \/ RecoverNode(w) \/ Serve(w)

-----------------------------------------------------------------------------
(* A replica dies: its connections close and its guards with them; the       *)
(* helper has finished or never begun what it was asked.                     *)
Crash(w) ==
    /\ op[w].pc # "down"
    /\ crashes < MaxCrashes
    /\ Dies(w)
    /\ crashes' = crashes + 1
    /\ UNCHANGED <<nodeStoreVars, hostVars>>

(* A removal needs the reconciler's turn of the guard.                       *)
CameraStep(n) ==
    /\ PlaceCamera(n) \/ (guard[n] = Free /\ RemoveCamera(n))
    /\ UNCHANGED <<hostVars, controlVars>>

Environment ==
    \/ \E n \in Nodes : CameraStep(n)
    \/ \E n \in Nodes : ProcessCrash(n) /\ UNCHANGED <<nodeStoreVars, controlVars>>
    \/ \E p \in Ports : ForeignListener(p) /\ UNCHANGED <<nodeStoreVars, controlVars>>
    \/ \E w \in Webs : Crash(w)

Operator ==
    \E w \in Webs, n \in Nodes :
        \/ \E c \in Commands : Command(w, n, c)
        \/ \E p \in Ports, rel \in Releases : Register(w, n, p, rel)

(* The steps a replica takes of its own accord once a command has begun.     *)
Progress(w) ==
    \/ ProvisionReserved(w)
    \/ Start(w) \/ Stop(w) \/ Restart(w) \/ Observe(w) \/ Administrate(w)
    \/ UpdateRelease(w) \/ Reconfigure(w) \/ Delete(w) \/ ChangePort(w)
    \/ Execute(w) \/ Record(w) \/ FinalizeDelete(w)
    \/ ApplyTarget(w) \/ WaitForPortRelease(w) \/ CompletePortChange(w)
    \/ CheckCommit(w) \/ RollbackPortChange(w) \/ RollbackFailed(w)
    \/ AbortPortChange(w) \/ CheckAbort(w)

StoreFails(w) ==
    \/ CommitLost(w, "commit", TRUE, "commit_check")
    \/ CommitLost(w, "abort", FALSE, "abort_check")
    \/ ObservationLost(w) \/ DeletionLost(w) \/ RecoveryCommitLost(w)
    \/ StoreUnavailable(w)

ControlNext ==
    \/ Environment
    \/ Operator
    \/ \E w \in Webs : Progress(w) \/ Recovery(w) \/ StoreFails(w)

ControlSpec == ControlInit /\ [][ControlNext]_vars

(* Threads run, and systemd restarts a replica that died.                    *)
ControlFairness == \A w \in Webs : WF_vars(Progress(w)) /\ WF_vars(Recovery(w))

ControlLiveSpec == ControlSpec /\ ControlFairness

-----------------------------------------------------------------------------
(* The tables, the host and the locals of the replicas have their types.     *)
ControlTypeOK ==
    /\ row \in [Nodes -> MediaNode]
    /\ change \in [ChangeIds -> NodePortChange]
    /\ conf \in [Nodes -> RenderedNodeConfig \cup {NoConf}]
    /\ proc \in [Nodes -> Process \cup {NoProc}]
    /\ foreign \subseteq Ports
    /\ faults \in 0..MaxFaults
    /\ guard \in [Nodes -> Webs \cup {Free}]
    /\ crashes \in 0..MaxCrashes
    /\ \A w \in Webs : op[w].obs \in NodeRuntimeObservation \cup {Failure}

(* A port is released only after the listener has gone: every port a         *)
(* MediaMTX process listens on is its node's port, or the new port of the    *)
(* node's prepared change, so the registry gives it to nobody else -- also   *)
(* after failed rollbacks, unknown commits and deaths of the replica.        *)
ListenerReserved ==
    \A n \in Nodes : proc[n] # NoProc =>
        /\ n \in RegisteredNodes
        /\ proc[n].port \in {row[n].port} \cup {change[k].new : k \in PreparedOn(n)}

(* A node that may be given cameras (is_node_eligible, no prepared change)   *)
(* has the configuration of its row installed: the port the control plane    *)
(* publishes and the release it recorded.                                    *)
EligibleMeansConfigured ==
    \A n \in Nodes :
        is_node_eligible(n) /\ PreparedOn(n) = {}
            => conf[n] = [port |-> row[n].port, rel |-> row[n].rel]

(* A deleted node leaves neither a process nor a configuration behind        *)
(* (delete_node, _recover_node_deletions).                                   *)
DeletedLeavesNothing ==
    \A n \in Nodes : row[n].state = "deleted" => conf[n] = NoConf /\ proc[n] = NoProc

(* stop, restart and delete touch the process of an empty node only: between *)
(* the request's check and the helper's call no camera is placed on it.      *)
EmptyNodeOnly ==
    \A w \in Webs :
        op[w].pc = "exec" /\ op[w].act \in {"stop", "restart", "delete"}
            => row[op[w].node].cams = 0

(* The FAILED observation an error handler falls back on is one the store    *)
(* accepts: although desired_revision falls back when a port change is       *)
(* aborted, the revision _execute_runtime and the startup recovery report is *)
(* never ahead of it, so their handlers do not raise and an error of one     *)
(* node does not fail the startup.  The exception is a recovery whose commit *)
(* raised after it took effect: the row has gone or the change is aborted,   *)
(* and the next startup finds nothing left to recover.                       *)
FailureIsRecordable ==
    \A w \in Webs :
        (/\ op[w].pc \in {"record", "finalize", "rollback_failed", "recover_failed"}
         /\ op[w].node \in RegisteredNodes
         /\ op[w].kind = "recover_change" => op[w].k \in Prepared)
            => validate_runtime_observation(row[op[w].node],
                                            FailedObservation(op[w].cur.applied))

(* A port change that the startup recovery has to end if its replica died.   *)
ChangeIsPrepared(k) == change[k].state = "prepared"

(* A command or a startup that has to end for the replica to serve again.    *)
Commanded(w) == op[w].pc # "idle"
=============================================================================
