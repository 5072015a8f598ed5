--------------------------- MODULE CameraMutation ---------------------------
(***************************************************************************)
(* CameraMutationControl: an operator changes the source of a camera,      *)
(* disables or deletes it through _fence, which closes the path, counts    *)
(* its readers, asks for a confirmation if there is one, and commits the   *)
(* change while the path is closed.  It runs in the web process next to    *)
(* the reconcilers of CameraReconcile and shares their advisory locks.     *)
(*                                                                         *)
(* The definitions no action refers to are wrong variants of the           *)
(* definition that follows them.                                           *)
(***************************************************************************)
EXTENDS CameraReconcile

CONSTANTS
    Web,              \* the session of the web process that holds a lock
    NoToken,          \* the operator has no confirmation token
    MaxRequests       \* bound on the operator's requests

VARIABLES
    op,               \* the mutation in progress
    requests,         \* requests the operator has begun
    warned            \* warned[c]: a committed change confirmed a disconnect of c's
                      \* reader and the reader has not been disconnected yet (history)

mutationVars == <<reconcileVars, op, requests, warned>>

(* An operation and the source URL of its payload.                           *)
Operation == ({"update_source"} \X Source) \cup ({"disable", "delete"} \X {NoSource})

(* camera: the row read before the lock; current: the row read under it.     *)
NoMutation == [pc |-> "idle", operation |-> "disable", cam |-> NoCamera, source |-> NoSource,
               token |-> NoToken, camera |-> AbsentCamera, current |-> AbsentCamera]

unchangedWorkers == UNCHANGED <<wk, ask, requests>>

-----------------------------------------------------------------------------
(* preview: reads the camera and its reader count; a token is issued for one *)
(* reader and is bound to the operation and to the revision.  An update      *)
(* keeps the stored credential unless it brings a new one.                   *)
Preview(c, operation, s) ==
    LET n == camera[c].node
    IN  /\ op.pc = "idle"
        /\ requests < MaxRequests
        /\ n \in Nodes
        /\ operation = "update_source" /\ camera[c].source.secret => s.secret
        /\ CallAnswers(n)
        /\ op' = [NoMutation EXCEPT !.pc = "previewed", !.operation = operation, !.cam = c,
                      !.source = s,
                      !.token = IF readers[n][c] = 1 THEN camera[c].desired ELSE NoToken]
        /\ requests' = requests + 1
        /\ UNCHANGED <<storeVars, mediaVars, guard, wk, ask, warned>>

(* update, disable, delete: the read of the camera before the fence.  An     *)
(* unconfirmed update that keeps the source is committed without a fence.    *)
ReadCamera ==
    LET c == op.cam
        row == camera[c]
        unfenced == /\ op.operation = "update_source"
                    /\ op.source = row.source
                    /\ op.token = NoToken
    IN  /\ op.pc = "previewed"
        /\ \/ /\ row.node \in Nodes
              /\ op.operation = "disable" => row.state # "disabled"
              /\ ~unfenced
              /\ op.operation # "delete" => row.desired < MaxRevision
              /\ op' = [op EXCEPT !.pc = "lock", !.camera = row]
              /\ UNCHANGED storeVars
           \/ /\ row.node \in Nodes
              /\ unfenced
              /\ row.desired < MaxRevision
              /\ UpdateCamera(c, row.desired, op.source)
              /\ op' = NoMutation
           \/ op' = NoMutation /\ UNCHANGED storeVars
        /\ UNCHANGED <<mediaVars, guard, faults, warned>> /\ unchangedWorkers

-----------------------------------------------------------------------------
(* _fence                                                                    *)

Unfence == op' = NoMutation /\ Release(Web)

OpGoto(label) == op' = [op EXCEPT !.pc = label] /\ UNCHANGED guard

(* reconcile_guard of the node the camera was on when it was read.           *)
FenceLock ==
    LET n == op.camera.node
    IN  /\ op.pc = "lock"
        /\ \/ /\ guard[n] = Free
              /\ guard' = [guard EXCEPT ![n] = Web]
              /\ op' = [op EXCEPT !.pc = "current"]
           \/ /\ guard[n] # Free
              /\ Unfence
        /\ UNCHANGED <<storeVars, mediaVars, faults, warned>> /\ unchangedWorkers

(* The second read must find the same revision; the client is the one of the *)
(* node the camera is on now.                                                *)
FenceCurrent ==
    LET row == camera[op.cam]
    IN  /\ op.pc = "current"
        /\ IF row.node \in Nodes /\ row.desired = op.camera.desired
           THEN op' = [op EXCEPT !.pc = "quiesce", !.current = row] /\ UNCHANGED guard
           ELSE Unfence
        /\ UNCHANGED <<storeVars, mediaVars, faults, warned>> /\ unchangedWorkers

FenceQuiesce ==
    LET n == op.current.node
        p == Closed(op.current.source)
    IN  /\ op.pc = "quiesce"
        /\ \/ CallAnswers(n) /\ PutPath(n, op.cam, p) /\ OpGoto("verify")
           \/ CallLost(n) /\ PutPath(n, op.cam, p) /\ Unfence
           \/ CallFails(n) /\ UNCHANGED mediaVars /\ Unfence
        /\ UNCHANGED <<storeVars, warned>> /\ unchangedWorkers

FenceVerify ==
    LET n == op.current.node
    IN  /\ op.pc = "verify"
        /\ \/ /\ CallAnswers(n)
              /\ IF path[n][op.cam] = Closed(op.current.source) THEN OpGoto("status") ELSE Unfence
           \/ CallFails(n) /\ Unfence
        /\ UNCHANGED <<storeVars, mediaVars, warned>> /\ unchangedWorkers

RefusedLax(count) == op.token # NoToken /\ op.token # op.current.desired

(* A token that does not verify, or a reader without a token, refuses the    *)
(* change; a valid token is accepted whatever the count is now.              *)
Refused(count) ==
    \/ op.token # NoToken /\ op.token # op.current.desired
    \/ count = 1 /\ op.token = NoToken

FenceStatus ==
    LET n == op.current.node
    IN  /\ op.pc = "status"
        /\ \/ CallAnswers(n) /\ OpGoto(IF Refused(readers[n][op.cam]) THEN "reopen" ELSE "commit")
           \/ CallFails(n) /\ Unfence
        /\ UNCHANGED <<storeVars, mediaVars, warned>> /\ unchangedWorkers

(* The store method of the operation; a second delete changes nothing.       *)
DeleteAgain(c, rev) ==
    op.operation = "delete" /\ camera[c].state = "deleting" /\ camera[c].desired = rev

Commit(c, rev) ==
    CASE op.operation = "update_source" -> UpdateCamera(c, rev, op.source)
      [] op.operation = "disable" -> SetCameraEnabled(c, rev, FALSE)
      [] op.operation = "delete" -> RequestCameraDelete(c, rev)

(* The body of the with statement: the transaction, or its exception.        *)
FenceCommit ==
    LET c == op.cam
        rev == op.camera.desired
    IN  /\ op.pc = "commit"
        /\ \/ /\ Commit(c, rev)
              /\ warned' = [warned EXCEPT ![c] = op.token # NoToken]
              /\ Unfence
           \/ /\ ~Mutable(c, rev)
              /\ IF DeleteAgain(c, rev) THEN Unfence ELSE OpGoto("reopen")
              /\ UNCHANGED <<storeVars, warned>>
        /\ UNCHANGED <<mediaVars, faults>> /\ unchangedWorkers

FenceReopen ==
    LET n == op.current.node
        p == Open(op.current.source)
    IN  /\ op.pc = "reopen"
        /\ \/ (CallAnswers(n) \/ CallLost(n)) /\ PutPath(n, op.cam, p)
           \/ CallFails(n) /\ UNCHANGED mediaVars
        /\ Unfence
        /\ UNCHANGED <<storeVars, warned>> /\ unchangedWorkers

(* The web process is restarted in the middle of a request.                  *)
WebDies ==
    /\ op.pc # "idle"
    /\ Fault
    /\ Unfence
    /\ UNCHANGED <<storeVars, mediaVars, warned>> /\ unchangedWorkers

(* Enabling needs no fence.                                                  *)
Enable(c) ==
    /\ camera[c].desired < MaxRevision
    /\ SetCameraEnabled(c, camera[c].desired, TRUE)
    /\ UNCHANGED <<mediaVars, guard, faults, op, warned>> /\ unchangedWorkers

-----------------------------------------------------------------------------
MutationInit ==
    /\ ReconcileInit
    /\ op = NoMutation
    /\ requests = 0
    /\ warned = [c \in Cameras |-> FALSE]

FenceStep == ReadCamera \/ FenceLock \/ FenceCurrent \/ FenceQuiesce \/ FenceVerify
                 \/ FenceStatus \/ FenceCommit \/ FenceReopen

Mutation ==
    \/ \E c \in Registered, o \in Operation : Preview(c, o[1], o[2])
    \/ FenceStep
    \/ WebDies
    \/ \E c \in Registered : Enable(c)

(* The authorisation callback admits a reader only to an enabled camera on   *)
(* the node of its placement.                                                *)
Authorized(n, c) == camera[c].state = "enabled" /\ camera[c].node = n

(* A step of the rest of the system.  A warning is used up when a reader of  *)
(* the camera is gone.                                                       *)
BesideMutation ==
    /\ \A n \in Nodes, c \in Cameras : readers'[n][c] > readers[n][c] => Authorized(n, c)
    /\ warned' = [c \in Cameras |-> warned[c] /\ \A n \in Nodes : readers'[n][c] >= readers[n][c]]
    /\ UNCHANGED <<op, requests>>

Reconcilers(w) == (WorkerStep(w) \/ Interrupt(w)) /\ BesideMutation

MutationNext ==
    \/ Mutation
    \/ \E w \in Workers : Reconcilers(w)
    \/ (MoveRequest \/ Environment) /\ BesideMutation

(* The same system while no camera is moved.                                 *)
UnmovedNext ==
    \/ Mutation
    \/ \E w \in Workers : Reconcilers(w)
    \/ Environment /\ BesideMutation

MutationSpec == MutationInit /\ [][MutationNext]_mutationVars

UnmovedSpec == MutationInit /\ [][UnmovedNext]_mutationVars

(* The reconcilers, collector and supervisor of ReconcileFairness, and a web *)
(* process that finishes the requests it has begun.                          *)
FairUnmovedSpec ==
    /\ UnmovedSpec
    /\ WF_mutationVars(FenceStep)
    /\ \A w \in Workers : WF_mutationVars(WorkerStep(w) /\ BesideMutation)
    /\ \A n \in Nodes : WF_mutationVars((ProcessStarts(n) \/ Observation(n)) /\ BesideMutation)

-----------------------------------------------------------------------------
(* Properties.                                                               *)

(* Type invariant of the mutation in progress and of the shared locks.       *)
MutationTypeOK ==
    /\ StoreTypeOK
    /\ MediaTypeOK
    /\ guard \in [Nodes -> Workers \cup {Free, Web}]
    /\ op.token \in Nat \cup {NoToken}
    /\ {op.camera, op.current} \subseteq CameraRow
    /\ warned \in [Cameras -> BOOLEAN]

DisconnectStep ==
    op' # op \/ wk' # wk => \A n \in Nodes, c \in Registered :
        readers'[n][c] < readers[n][c] =>
            \/ warned[c]
            \/ ActiveMove(c) /\ move[c].force /\ move[c].confirmed = 1

(* A reader that attached after a zero-reader preview is never silently      *)
(* disconnected: when the control plane (fence or reconciler) drops a reader,*)
(* either a committed change carried a confirmation for it or a forced move  *)
(* did.                                                                      *)
NoSilentDisconnect == [][DisconnectStep]_mutationVars

(* A fence that is refused, fails or dies halfway leaves its camera closed,  *)
(* or opens a camera that is disabled or being deleted; once the requests    *)
(* and the faults cease, the reconciler brings the node back to the registry *)
(* and finishes every delete, because each cycle compares the whole path     *)
(* configuration.                                                            *)
MutationSettled ==
    \A c \in Registered :
        /\ camera[c].state # "deleting"
        /\ camera[c].applied = camera[c].desired
        /\ \A n \in Nodes : path[n][c] =
               IF camera[c].state = "enabled" /\ camera[c].node = n
               THEN Open(camera[c].source) ELSE NoPath

=============================================================================
