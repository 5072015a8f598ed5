----------------------------- MODULE NodeFence -----------------------------
(***************************************************************************)
(* A confirmed disruption of one media node: the preview that signs what   *)
(* the operator saw, and the command that closes the node's paths to new   *)
(* readers, looks again, compares, restarts the process and, unless the    *)
(* restart succeeded, opens the paths again.  The store's part and the     *)
(* helper's steps are in NodeControl and NodeHost; here a restart is one   *)
(* step that succeeds, fails before or fails after the process stopped,    *)
(* and the administrative state each command asks for is not kept.         *)
(*                                                                         *)
(* The token the operator holds may be submitted any number of times, by   *)
(* several threads at once.  The definitions no action refers to are wrong *)
(* variants of the definition that follows them.                           *)
(***************************************************************************)
EXTENDS FiniteSets, Naturals

CONSTANTS
    Cameras,         \* public ids that may be placed on the node
    Movable,         \* those of them that are placed and removed meanwhile
    Webs,            \* threads serving operators
    Slots,           \* disruption_workers
    Free,            \* nobody: the node's guard, a token not held
    MaxEvents,       \* bound: readers that join, placements that change
    MaxFaults,       \* bound: failed calls and deaths of the process or a thread
    MaxPlacements,   \* bound: placement generations
    MaxProcess,      \* bound: processes started
    MaxRevision      \* bound: desired_revision

VARIABLES
    row,       \* media_nodes: revision, state, process, a prepared port change,
               \* config_compatible; placements, by camera
    proc,      \* the MediaMTX process, 0 when there is none
    path,      \* the paths of that process
    readers,   \* paths somebody reads; a path has one reader
    guard,     \* lifecycle_guard = reconcile_guard of the node
    slots,     \* _disruption_admission
    token,     \* the confirmation the operator holds
    op,        \* the command each thread executes
    late,      \* a request of a dead thread that the helper still has
    left,      \* a fence was left behind: its thread died or could not restore
    started, events, faults

fenceVars == <<row, proc, path, readers, guard, slots, token, op, late, left,
               started, events, faults>>

Kinds == {"reconfigure", "port"}
Placed(r) == {c \in Cameras : r.placed[c] > 0}
NoOp == [at |-> "idle", kind |-> "none", todo |-> {}, original |-> {}, cur |-> Free,
         seen |-> {}, pid |-> 0]

FenceInit ==
    /\ row = [rev |-> 1, state |-> "running", pid |-> 1, changing |-> FALSE,
              compatible |-> TRUE, placed |-> [c \in Cameras |-> 1]]
    /\ proc = 1 /\ started = 1
    /\ path = [c \in Cameras |-> "open"]
    /\ readers = {}
    /\ guard = Free /\ slots = Slots
    /\ token = Free
    /\ op = [w \in Webs |-> NoOp]
    /\ late = {} /\ left = FALSE /\ events = 0 /\ faults = 0

Fault == faults < MaxFaults /\ faults' = faults + 1
Event == events < MaxEvents /\ events' = events + 1
Goto(w, at) == op' = [op EXCEPT ![w].at = at]

-----------------------------------------------------------------------------
(* Readers, placements, the process and the reconciler.                    *)

(* A path admits one reader while its maxReaders is 1.                     *)
ReaderJoins(c) ==
    /\ Event
    /\ path[c] = "open" /\ c \notin readers
    /\ readers' = readers \cup {c}
    /\ UNCHANGED <<row, proc, path, guard, slots, token, op, late, left, started, faults>>

ReaderLeaves(c) ==
    /\ c \in readers
    /\ readers' = readers \ {c}
    /\ UNCHANGED <<row, proc, path, guard, slots, token, op, late, left, started, events, faults>>

(* A placement is written without the node's guard; its path is not.       *)
CameraMoves(c) ==
    /\ Event
    /\ \/ /\ row.placed[c] > 0
          /\ row' = [row EXCEPT !.placed[c] = 0]
       \/ /\ row.placed[c] = 0
          /\ \E g \in 1..MaxPlacements :
               /\ \A d \in Cameras : row.placed[d] < g
               /\ row' = [row EXCEPT !.placed[c] = g]
    /\ UNCHANGED <<proc, path, readers, guard, slots, token, op, late, left, started, faults>>

(* A new process has no camera paths and no readers.                       *)
NewProcess ==
    /\ started < MaxProcess
    /\ started' = started + 1 /\ proc' = started + 1
    /\ path' = [c \in Cameras |-> "none"] /\ readers' = {}

(* systemd restarts a process that died.                                   *)
ProcessDies ==
    /\ proc # 0
    /\ Fault
    /\ NewProcess
    /\ UNCHANGED <<row, guard, slots, token, op, late, left, events>>

(* The node's observation is written again under the guard.                *)
Observe ==
    /\ guard = Free
    /\ proc # 0 /\ row.pid # proc
    /\ row' = [row EXCEPT !.pid = proc, !.state = "running"]
    /\ UNCHANGED <<proc, path, readers, guard, slots, token, op, late, left, started, events, faults>>

ReconcileMissing ==
    /\ guard = Free
    /\ row.state = "running" /\ row.compatible /\ proc # 0
    /\ path' = [c \in Cameras |-> IF c \notin Placed(row) THEN "none"
                                  ELSE IF path[c] = "none" THEN "open" ELSE path[c]]
    /\ path' # path
    /\ readers' = readers \cap Placed(row)
    /\ UNCHANGED <<row, proc, guard, slots, token, op, late, left, started, events, faults>>

(* reconcile_node, whole: it holds the node's guard, writes the path of    *)
(* every placed camera that differs and deletes the others.                *)
reconcile_node ==
    /\ guard = Free
    /\ row.state = "running" /\ row.compatible /\ proc # 0
    /\ path' = [c \in Cameras |-> IF c \in Placed(row) THEN "open" ELSE "none"]
    /\ path' # path
    /\ readers' = readers \cap Placed(row)
    /\ left' = FALSE
    /\ UNCHANGED <<row, proc, guard, slots, token, op, late, started, events, faults>>

-----------------------------------------------------------------------------
(* The confirmation.                                                       *)

(* _node_port_payload, _node_reconfigure_payload and the two fingerprints  *)
(* in them: the placements with their generations, and the readers with    *)
(* the process they read from.                                             *)
Payload(kind, r, seen, pid) ==
    [kind |-> kind, rev |-> r.rev, placed |-> r.placed, seen |-> seen, pid |-> pid]

(* _validated_disruption_details, or the proof that nothing runs.          *)
Observable(r) ==
    IF r.state = "running" THEN proc = r.pid /\ proc # 0 /\ readers \subseteq Placed(r)
    ELSE proc = 0

SeenPid(r) == IF r.state = "running" THEN r.pid ELSE 0
SeenReaders(r) == IF r.state = "running" THEN readers ELSE {}

(* A signed description of what the command would interrupt; used counts   *)
(* the commands it admitted.                                               *)
Issue(kind) ==
    /\ guard = Free
    /\ row.rev < MaxRevision
    /\ Observable(row)
    /\ token' = [of |-> Payload(kind, row, SeenReaders(row), SeenPid(row)), used |-> 0]
    /\ token' # token
    /\ UNCHANGED <<row, proc, path, readers, guard, slots, op, late, left, started, events, faults>>

preview_reconfigure == Issue("reconfigure")
preview_port_change == row.state = "running" /\ Issue("port")

(* verify_node_port_change, verify_node_reconfigure.                       *)
Confirmed(w) ==
    token # Free /\ token.of = Payload(op[w].kind, op[w].cur, op[w].seen, op[w].pid)

(* The token's lifetime passes.                                            *)
Expire ==
    /\ token # Free
    /\ token' = Free
    /\ UNCHANGED <<row, proc, path, readers, guard, slots, op, late, left, started, events, faults>>

-----------------------------------------------------------------------------
(* The confirmed command.                                                  *)

(* _disruption_slot: taken without waiting.                                *)
_disruption_slot(w, kind) ==
    /\ op[w].at = "idle" /\ token # Free
    /\ slots > 0
    /\ slots' = slots - 1
    /\ op' = [op EXCEPT ![w] = [NoOp EXCEPT !.at = "guard", !.kind = kind]]
    /\ UNCHANGED <<row, proc, path, readers, guard, token, late, left, started, events, faults>>

EnterUnfenced(w) ==
    /\ op[w].at = "guard"
    /\ guard = Free /\ guard' = w
    /\ op' = [op EXCEPT ![w].at = "snapshot", ![w].cur = row]
    /\ UNCHANGED <<row, proc, path, readers, slots, token, late, left, started, events, faults>>

(* The guard taken: a running node is fenced, an inactive one only looked  *)
(* at.                                                                     *)
Enter(w) ==
    /\ op[w].at = "guard"
    /\ guard = Free /\ guard' = w
    /\ op' = [op EXCEPT ![w].cur = row,
                        ![w].at = IF row.state = "running" THEN "close" ELSE "snapshot",
                        ![w].todo = IF row.state = "running" THEN Placed(row) ELSE {}]
    /\ UNCHANGED <<row, proc, path, readers, slots, token, late, left, started, events, faults>>

(* The guard's timeout: the command is refused and gives its slot back.    *)
Busy(w) ==
    /\ op[w].at = "guard"
    /\ guard # Free
    /\ op' = [op EXCEPT ![w] = NoOp]
    /\ slots' = slots + 1
    /\ UNCHANGED <<row, proc, path, readers, guard, token, late, left, started, events, faults>>

(* UnixNodeDisruptionObserver.fence, one path: it is read, noted as to be  *)
(* restored, and closed; a path that is closed already is refused.         *)
fence(w, c) ==
    /\ op[w].at = "close" /\ c \in op[w].todo
    /\ \/ /\ proc # 0 /\ path[c] = "none"
          /\ op' = [op EXCEPT ![w].todo = @ \ {c}]
          /\ UNCHANGED <<path, faults>>
       \/ /\ proc # 0 /\ path[c] = "open"
          /\ path' = [path EXCEPT ![c] = "closed"]
          /\ op' = [op EXCEPT ![w].todo = @ \ {c}, ![w].original = @ \cup {c}]
          /\ UNCHANGED faults
       \/ /\ proc # 0 /\ path[c] = "open"
          /\ Fault
          /\ \E p \in {"open", "closed"} : path' = [path EXCEPT ![c] = p]
          /\ op' = [op EXCEPT ![w].at = "restore", ![w].original = @ \cup {c}]
       \/ /\ proc = 0 \/ path[c] = "closed"
          /\ op' = [op EXCEPT ![w].at = "restore"]
          /\ UNCHANGED <<path, faults>>
    /\ UNCHANGED <<row, proc, readers, guard, slots, token, late, left, started, events>>

(* The final snapshot: refused unless it is of the recorded process and    *)
(* reads only placed cameras.                                              *)
Snapshot(w) ==
    /\ \/ op[w].at = "close" /\ op[w].todo = {}
       \/ op[w].at = "snapshot"
    /\ \/ /\ Observable(op[w].cur)
          /\ op' = [op EXCEPT ![w].at = "verify", ![w].pid = SeenPid(op[w].cur),
                              ![w].seen = SeenReaders(op[w].cur)]
          /\ UNCHANGED faults
       \/ /\ ~Observable(op[w].cur)
          /\ Goto(w, "restore") /\ UNCHANGED faults
       \/ Fault /\ Goto(w, "restore")
    /\ UNCHANGED <<row, proc, path, readers, guard, slots, token, late, left, started, events>>

(* The token is compared, and the store compares the row once more in its  *)
(* transaction.                                                            *)
Accepted(w) ==
    /\ Confirmed(w)
    /\ row.rev = op[w].cur.rev /\ row.placed = op[w].cur.placed
    /\ ~row.changing

Admit(w) ==
    /\ token' = [token EXCEPT !.used = @ + 1]
    /\ Goto(w, "restart")
    /\ UNCHANGED <<proc, path, readers, guard, slots, late, left, started, events, faults>>

Refuse(w) ==
    /\ Goto(w, "restore")
    /\ UNCHANGED <<row, proc, path, readers, guard, slots, token, late, left, started, events, faults>>

(* reconfigure_node: request_reconfigure raises the revision.              *)
reconfigure_node(w) ==
    /\ op[w].at = "verify" /\ op[w].kind = "reconfigure"
    /\ \/ /\ Accepted(w) /\ Admit(w)
          /\ row' = [row EXCEPT !.rev = @ + 1, !.compatible = FALSE]
       \/ ~Accepted(w) /\ Refuse(w)

(* change_port: begin_port_change prepares the change; the revision is     *)
(* raised when it completes.                                               *)
change_port(w) ==
    /\ op[w].at = "verify" /\ op[w].kind = "port"
    /\ \/ /\ Accepted(w) /\ row.state = "running" /\ Admit(w)
          /\ row' = [row EXCEPT !.changing = TRUE]
       \/ ~(Accepted(w) /\ row.state = "running") /\ Refuse(w)

(* RECONFIGURE_RESTART succeeds; the lease is complete and nothing is      *)
(* restored: the reconciler writes the paths of the new process.           *)
Restart(w) ==
    /\ op[w].at = "restart"
    /\ NewProcess
    /\ row' = [row EXCEPT !.pid = proc', !.state = "running", !.compatible = TRUE,
                          !.changing = FALSE,
                          !.rev = IF op[w].kind = "port" THEN @ + 1 ELSE @]
    /\ Goto(w, "leave")
    /\ UNCHANGED <<guard, slots, token, late, left, events, faults>>

(* It fails, before or after the old process stopped.  A reconfiguration   *)
(* leaves the node failed; a port change goes back.                        *)
RestartFails(w) ==
    /\ op[w].at = "restart"
    /\ Fault
    /\ \/ UNCHANGED <<proc, path, readers, started>>
       \/ NewProcess
       \/ /\ proc' = 0 /\ path' = [c \in Cameras |-> "none"] /\ readers' = {}
          /\ UNCHANGED started
    /\ row' = [row EXCEPT !.state = IF op[w].kind = "reconfigure" THEN "failed" ELSE @]
    /\ Goto(w, IF op[w].kind = "reconfigure" THEN "restore" ELSE "rollback")
    /\ UNCHANGED <<guard, slots, token, late, left, events>>

(* _rollback_port_change: the old configuration is started again.          *)
_rollback_port_change(w) ==
    /\ op[w].at = "rollback"
    /\ \/ /\ NewProcess
          /\ row' = [row EXCEPT !.pid = proc', !.changing = FALSE] /\ UNCHANGED faults
       \/ /\ Fault
          /\ row' = [row EXCEPT !.state = "failed"]
          /\ UNCHANGED <<proc, path, readers, started>>
    /\ Goto(w, "restore")
    /\ UNCHANGED <<guard, slots, token, late, left, events>>

(* The finally of fence: every path noted is written back, each whether or *)
(* not the one before succeeded.                                           *)
Restore(w) ==
    /\ op[w].at = "restore"
    /\ \/ /\ op[w].original = {}
          /\ Goto(w, "leave") /\ UNCHANGED <<path, left, faults>>
       \/ \E c \in op[w].original :
            /\ op' = [op EXCEPT ![w].original = @ \ {c}]
            /\ \/ /\ proc # 0 /\ path' = [path EXCEPT ![c] = "open"]
                  /\ UNCHANGED <<left, faults>>
               \/ /\ proc = 0 /\ left' = TRUE /\ UNCHANGED <<path, faults>>
               \/ /\ Fault /\ left' = TRUE /\ UNCHANGED path
    /\ UNCHANGED <<row, proc, readers, guard, slots, token, late, started, events>>

Leave(w) ==
    /\ op[w].at = "leave"
    /\ guard' = Free /\ slots' = slots + 1
    /\ op' = [op EXCEPT ![w] = NoOp]
    /\ UNCHANGED <<row, proc, path, readers, token, late, left, started, events, faults>>

(* The replica dies and PostgreSQL gives its guard back; the helper may    *)
(* still have the request it sent.  Its threads start with free slots.     *)
ReplicaDies ==
    /\ \E w \in Webs : op[w].at # "idle"
    /\ Fault
    /\ \E w \in Webs : guard \in {w, Free} /\
         late' \in {{}, IF op[w].at = "close" THEN op[w].todo \cap {c \in Cameras : path[c] = "open"}
                        ELSE {}}
    /\ guard' = Free /\ slots' = Slots
    /\ op' = [w \in Webs |-> NoOp]
    /\ left' = TRUE
    /\ UNCHANGED <<row, proc, path, readers, token, started, events>>

(* The request a dead replica left with the helper is executed.            *)
LateRequest ==
    /\ late # {}
    /\ \/ proc = 0 /\ UNCHANGED path
       \/ proc # 0 /\ \E c \in late : path' = [path EXCEPT ![c] = "closed"]
    /\ late' = {} /\ left' = TRUE
    /\ UNCHANGED <<row, proc, readers, guard, slots, token, op, started, events, faults>>

(* What recover_runtime_state does when a replica starts: the old port is  *)
(* restored, or the desired configuration started.                         *)
recover_runtime_state ==
    /\ guard = Free
    /\ row.changing \/ ~row.compatible \/ row.state = "failed"
    /\ NewProcess
    /\ row' = [row EXCEPT !.pid = proc', !.state = "running", !.compatible = TRUE,
                          !.changing = FALSE]
    /\ UNCHANGED <<guard, slots, token, op, late, left, events, faults>>

CommandStep(w) ==
    \/ Enter(w) \/ Busy(w) \/ (\E c \in Cameras : fence(w, c)) \/ Snapshot(w)
    \/ reconfigure_node(w) \/ change_port(w) \/ Restart(w) \/ RestartFails(w) \/ _rollback_port_change(w)
    \/ Restore(w) \/ Leave(w)

FenceNext ==
    \/ \E c \in Cameras : ReaderJoins(c) \/ ReaderLeaves(c)
    \/ \E c \in Movable : CameraMoves(c)
    \/ Expire \/ ProcessDies \/ Observe \/ reconcile_node
    \/ preview_reconfigure \/ preview_port_change
    \/ \E w \in Webs : CommandStep(w) \/ (\E k \in Kinds : _disruption_slot(w, k))
    \/ ReplicaDies \/ LateRequest \/ recover_runtime_state

FenceSpec == FenceInit /\ [][FenceNext]_fenceVars

-----------------------------------------------------------------------------
(* The state's types.  A slot is taken exactly while a thread is inside a  *)
(* command, and the guard's holder is one of them.                         *)
FenceTypeOK ==
    /\ row.rev \in 1..MaxRevision + 1 /\ row.state \in {"running", "failed"}
    /\ path \in [Cameras -> {"none", "open", "closed"}]
    /\ readers \subseteq Cameras
    /\ guard \in Webs \cup {Free}
    /\ slots + Cardinality({w \in Webs : op[w].at # "idle"}) = Slots
    /\ guard # Free => op[guard].at \notin {"idle", "guard"}

ReaderStep ==
    \A w \in Webs :
      op[w].at \in {"restart", "rollback"} /\ proc' # proc /\ op'[w].at # op[w].at =>
          readers \cap Placed(op[w].cur) \subseteq op[w].seen

(* A confirmed restart interrupts, of the cameras placed on the node, only *)
(* readers the operator was shown: who came after the preview either makes *)
(* the command refuse or is kept out by the fence, also when the port      *)
(* change is rolled back.  (The path of a camera that has just been        *)
(* deleted is not fenced.)                                                 *)
OnlyConfirmedReaders == [][ReaderStep]_fenceVars

(* One confirmation, one interruption: a token that was acted on does not  *)
(* verify again, also after a port change that was rolled back to the same *)
(* revision.                                                               *)
TokenSpentOnce == token # Free => token.used <= 1

(* A command that ends without its restart leaves no path closed, unless   *)
(* its process died or a path could not be written back.                   *)
FenceIsLifted ==
    guard = Free /\ ~left => \A c \in Cameras : path[c] # "closed"

(* What a fence left closed and the reconciler has to open again.          *)
IsClosed(c) == path[c] = "closed"

(* A command runs on, a request the helper has is executed, a node is      *)
(* observed and recovered, and the reconciler's loop gets the guard if it  *)
(* is free again and again: it tries every few milliseconds while commands *)
(* come from operators.  Faults are not fair.                              *)
FairFenceSpec ==
    /\ FenceSpec
    /\ SF_fenceVars(reconcile_node)
    /\ SF_fenceVars(Observe)
    /\ SF_fenceVars(recover_runtime_state)
    /\ WF_fenceVars(LateRequest)
    /\ \A w \in Webs : WF_fenceVars(CommandStep(w))
=============================================================================
