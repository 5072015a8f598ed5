---------------------------- MODULE Registration ----------------------------
(***************************************************************************)
(* Registering cameras and nodes under an idempotency key: create_camera   *)
(* of CameraControl, register_node and ensure_automatic_capacity of        *)
(* NodeControl (nodes.py), and the two ledgers they keep in PostgreSQL     *)
(* (database.py, migrations 0016 and 0018).                                *)
(*                                                                         *)
(* A camera is registered in several transactions.  The intent is          *)
(* committed first.  The placement then commits on one connection while an *)
(* advisory lock of the key is held on another; if no node is eligible,    *)
(* capacity is made under the provisioning lock and the placement is tried *)
(* once more.  An operator whose request failed, timed out or was cut off  *)
(* sends it again, to any replica, while the first may still be running.   *)
(* A session's keys are the operator's, so a key stands for the pair       *)
(* (actor_session_id, idempotency_key).                                    *)
(*                                                                         *)
(* The definitions no action refers to are wrong variants of the           *)
(* definition that follows them.                                           *)
(***************************************************************************)
EXTENDS Naturals, Sequences, FiniteSets

CONSTANTS
    Workers,    \* request threads of the web replicas
    Keys,       \* idempotency keys
    Plans,      \* sets of requests; the operators send those of one of them
    MaxNodes,   \* max_nodes
    Capacity,   \* camera_capacity of a node
    MaxEvents,  \* bound: crashes, lost connections, failures, operator actions
    Auto, Free, None

VARIABLES
    node,          \* media_nodes, in the order of registration
    camera,        \* cameras, in the order of registration
    cameraLedger,  \* camera_registration_requests, by key
    nodeLedger,    \* node_registration_requests, by key
    guard,         \* the advisory lock of a camera registration key
    provisioning,  \* the provisioning_guard
    op,            \* what each thread is doing
    answers,       \* the successes that the operators have been told of
    plan,          \* what the operators may send
    events

regState == <<node, camera, cameraLedger, nodeLedger, guard, provisioning, op,
              answers, events>>
regVars == <<regState, plan>>
ledgers == <<cameraLedger, nodeLedger>>
locks == <<guard, provisioning>>

-----------------------------------------------------------------------------
(* The digest of a request: body stands for its name and source, target for  *)
(* the chosen node.  An automatic node's request has a digest of its own.    *)
Automatic == [body |-> None, target |-> Auto]
Digest(r) == [body |-> r.body, target |-> r.target]

NoRow == [there |-> FALSE, digest |-> Automatic, id |-> 0]

(* id is 0 while the intent is pending.                                      *)
Row(r, id) == [there |-> TRUE, digest |-> r, id |-> id]

NewNode(k, auto) ==
    [there |-> TRUE, auto |-> auto, key |-> k, wanted |-> FALSE,
     runtime |-> "provisioning", fresh |-> FALSE, maintenance |-> FALSE]

NewCamera(k, r, n) == [live |-> TRUE, key |-> k, digest |-> r, node |-> n]

Registered == {n \in DOMAIN node : node[n].there}

CamerasOn(n) == {c \in DOMAIN camera : camera[c].live /\ camera[c].node = n}

HasRoom(n) == Cardinality(CamerasOn(n)) < Capacity

is_node_eligible(n) ==
    /\ node[n].wanted /\ node[n].runtime = "running"
    /\ node[n].fresh /\ ~node[n].maintenance
    /\ HasRoom(n)

Eligible == {n \in Registered : is_node_eligible(n)}

LeastLoaded ==
    {n \in Eligible : \A m \in Eligible :
         Cardinality(CamerasOn(n)) <= Cardinality(CamerasOn(m))}

(* state RUNNING is what was asked of the node, whatever it does.            *)
Refreshable ==
    {n \in Registered : node[n].wanted /\ ~node[n].maintenance /\ HasRoom(n)}

Retryable ==
    {n \in Registered :
        /\ node[n].auto /\ CamerasOn(n) = {} /\ ~node[n].maintenance
        /\ node[n].runtime \in {"provisioning", "stopped", "failed"}}

-----------------------------------------------------------------------------
(* first: no capacity has been asked for yet; todo: nodes still to observe.  *)
NoRequest == [pc |-> "idle", req |-> None, first |-> TRUE, node |-> 0,
              todo |-> {}]

At(w, pc) == op[w].pc = pc
KeyOf(w) == op[w].req.key
ForCamera(w) == op[w].req.kind = "camera"

Goto(w, pc) == op' = [op EXCEPT ![w].pc = pc]

(* What the thread holds when it ends a step early.                          *)
Unlocked(w) ==
    /\ guard' = [k \in Keys |-> IF guard[k] = w THEN Free ELSE guard[k]]
    /\ provisioning' = IF provisioning = w THEN Free ELSE provisioning

Answer(w, result, id) ==
    /\ answers' = answers \cup
           {[kind |-> op[w].req.kind, key |-> KeyOf(w),
             digest |-> Digest(op[w].req), id |-> i] :
               i \in IF result = "created" THEN {id} ELSE {}}
    /\ op' = [op EXCEPT ![w] = NoRequest]
    /\ Unlocked(w)

Happens == events < MaxEvents /\ events' = events + 1

RegInit ==
    /\ node = <<>> /\ camera = <<>>
    /\ cameraLedger = [k \in Keys |-> NoRow]
    /\ nodeLedger = [k \in Keys |-> NoRow]
    /\ guard = [k \in Keys |-> Free]
    /\ provisioning = Free
    /\ op = [w \in Workers |-> NoRequest]
    /\ answers = {}
    /\ plan \in Plans
    /\ events = 0

-----------------------------------------------------------------------------
(* create_camera: the intent, then the placement.                            *)

create_camera(w, r) ==
    /\ At(w, "idle") /\ r.kind = "camera"
    /\ op' = [op EXCEPT ![w] = [NoRequest EXCEPT !.req = r, !.pc = "reserve"]]
    /\ UNCHANGED <<node, camera, ledgers, locks, answers, events>>

(* _camera_registration_target: a digest of another request is a conflict,   *)
(* a pending intent is resumed, a camera is replayed while it lives.         *)
Conflicts(row, r) == row.digest # Digest(r)
Pending(row) == row.there /\ row.id = 0
Gone(row) == row.there /\ row.id # 0 /\ ~camera[row.id].live

(* The intent commits before anything else.  One transaction under the       *)
(* key's lock, on the lock's own connection.                                 *)
reserve_camera_registration(w) ==
    /\ At(w, "reserve") /\ guard[KeyOf(w)] = Free
    /\ LET row == cameraLedger[KeyOf(w)] IN
       IF ~row.there
       THEN /\ cameraLedger' = [cameraLedger EXCEPT
                                    ![KeyOf(w)] = Row(Digest(op[w].req), 0)]
            /\ Goto(w, "place")
            /\ UNCHANGED <<locks, answers>>
       ELSE /\ IF Conflicts(row, op[w].req) \/ Gone(row) THEN Answer(w, "conflict", 0)
               ELSE IF Pending(row) THEN Goto(w, "place") /\ UNCHANGED <<locks, answers>>
               ELSE Answer(w, "created", row.id)
            /\ UNCHANGED cameraLedger
    /\ UNCHANGED <<node, camera, nodeLedger, events>>

(* place_camera_idempotently takes the lock and reads the ledger ...         *)
BeginPlacement(w) ==
    /\ At(w, "place") /\ guard[KeyOf(w)] = Free
    /\ LET row == cameraLedger[KeyOf(w)] IN
       IF Conflicts(row, op[w].req) \/ Gone(row) THEN Answer(w, "conflict", 0)
       ELSE IF Pending(row)
       THEN /\ guard' = [guard EXCEPT ![KeyOf(w)] = w]
            /\ Goto(w, "insert")
            /\ UNCHANGED <<provisioning, answers>>
       ELSE Answer(w, "created", row.id)
    /\ UNCHANGED <<node, camera, ledgers, events>>

InsertUnfenced(w, n) ==
    /\ camera' = Append(camera, NewCamera(KeyOf(w), Digest(op[w].req), n))
    /\ cameraLedger' = [cameraLedger EXCEPT
           ![KeyOf(w)] = Row(Digest(op[w].req), Len(camera) + 1)]
    /\ IF guard[KeyOf(w)] = w THEN Answer(w, "created", Len(camera) + 1)
       ELSE Answer(w, "unavailable", 0)

(* ... and places the camera on another connection.  The camera commits only *)
(* if the intent is still pending.  A thread that lost the lock's connection *)
(* cannot report what it placed.                                             *)
_insert_camera(w, n) ==
    IF Pending(cameraLedger[KeyOf(w)])
    THEN /\ camera' = Append(camera, NewCamera(KeyOf(w), Digest(op[w].req), n))
         /\ cameraLedger' = [cameraLedger EXCEPT
                ![KeyOf(w)] = Row(Digest(op[w].req), Len(camera) + 1)]
         /\ IF guard[KeyOf(w)] = w THEN Answer(w, "created", Len(camera) + 1)
            ELSE Answer(w, "unavailable", 0)
    ELSE Answer(w, "unavailable", 0) /\ UNCHANGED <<camera, cameraLedger>>

(* EligibleNodeMissing: capacity is asked for once.                          *)
EligibleNodeMissing(w) ==
    /\ \/ /\ op[w].first
          /\ op' = [op EXCEPT ![w].pc = "ensure", ![w].first = FALSE]
          /\ Unlocked(w)
          /\ UNCHANGED answers
       \/ ~op[w].first /\ Answer(w, "no_node", 0)
       \/ guard[KeyOf(w)] # w /\ Answer(w, "unavailable", 0)
    /\ UNCHANGED <<camera, cameraLedger>>

place_camera_automatically(w) ==
    /\ At(w, "insert") /\ op[w].req.target = Auto
    /\ \/ \E n \in LeastLoaded : _insert_camera(w, n)
       \/ Eligible = {} /\ EligibleNodeMissing(w)
    /\ UNCHANGED <<node, nodeLedger, events>>

place_camera_manually(w) ==
    /\ At(w, "insert") /\ op[w].req.target # Auto
    /\ IF op[w].req.target \in Eligible
       THEN _insert_camera(w, op[w].req.target)
       ELSE Answer(w, "no_node", 0) /\ UNCHANGED <<camera, cameraLedger>>
    /\ UNCHANGED <<node, nodeLedger, events>>

-----------------------------------------------------------------------------
(* ensure_automatic_capacity: under the provisioning lock, an eligible node, *)
(* one that a fresh observation makes eligible, an idle automatic node to    *)
(* start again, or a new one.                                                *)

Survey(w) ==
    /\ At(w, "ensure") /\ provisioning = Free
    /\ IF Eligible # {} THEN Goto(w, "place") /\ UNCHANGED provisioning
       ELSE /\ op' = [op EXCEPT ![w].pc = "observe", ![w].todo = Refreshable]
            /\ provisioning' = w
    /\ UNCHANGED <<node, camera, ledgers, guard, answers, events>>

(* The helper's answer is recorded; its failure too, and ends the request.   *)
Observed(n) == node' = [node EXCEPT ![n].runtime = "running", ![n].fresh = TRUE]
Failed(n) == node' = [node EXCEPT ![n].runtime = "failed", ![n].fresh = FALSE]

ObserveNext(w) ==
    /\ At(w, "observe")
    /\ \E n \in op[w].todo :
        /\ n \in Registered
        /\ \/ /\ Observed(n)
              /\ op' = [op EXCEPT ![w].todo = @ \ {n}]
              /\ UNCHANGED <<locks, answers, events>>
           \/ Failed(n) /\ Answer(w, "failed", n) /\ Happens
    /\ UNCHANGED <<camera, ledgers>>

(* A node deleted since the list was read: NodeNotFound.                     *)
ObserveGone(w) ==
    /\ At(w, "observe") /\ op[w].todo \ Registered # {}
    /\ Answer(w, "not_found", 0)
    /\ UNCHANGED <<node, camera, ledgers, events>>

Capable(w) ==
    /\ At(w, "observe") /\ op[w].todo = {}
    /\ IF Eligible # {}
       THEN Goto(w, "place") /\ Unlocked(w)
       ELSE /\ \/ \E n \in Retryable :
                   /\ \A m \in Retryable : n <= m
                   /\ op' = [op EXCEPT ![w].pc = "start", ![w].node = n]
               \/ Retryable = {} /\ Goto(w, "lookup")
            /\ UNCHANGED locks
    /\ UNCHANGED <<node, camera, ledgers, answers, events>>

-----------------------------------------------------------------------------
(* register_node, for an operator or for capacity.  For capacity it runs     *)
(* with the camera request's key.                                            *)

create_node(w, r) ==
    /\ At(w, "idle") /\ r.kind = "node"
    /\ op' = [op EXCEPT ![w] = [NoRequest EXCEPT !.req = r, !.pc = "lookup"]]
    /\ UNCHANGED <<node, camera, ledgers, locks, answers, events>>

NodeDigest(w) == IF ForCamera(w) THEN Automatic ELSE Digest(op[w].req)

(* A replayed node is returned as it is, without being started.              *)
Replayed(w, n) ==
    IF ForCamera(w)
    THEN Goto(w, "place") /\ Unlocked(w) /\ UNCHANGED answers
    ELSE Answer(w, "created", n)

Replay(w, row) ==
    IF row.digest # NodeDigest(w) \/ ~node[row.id].there
    THEN Answer(w, "conflict", 0)
    ELSE Replayed(w, row.id)

lookup_registration(w) ==
    /\ At(w, "lookup")
    /\ IF nodeLedger[KeyOf(w)].there THEN Replay(w, nodeLedger[KeyOf(w)])
       ELSE Goto(w, "register") /\ UNCHANGED <<locks, answers>>
    /\ UNCHANGED <<node, camera, ledgers, events>>

(* register_idempotently holds the key's lock over the check and             *)
(* register_automatically, which writes the node and its ledger row in one   *)
(* transaction; the ledger's primary key decides between two that lost it.   *)
register_idempotently(w) ==
    /\ At(w, "register")
    /\ IF nodeLedger[KeyOf(w)].there
       THEN Replay(w, nodeLedger[KeyOf(w)]) /\ UNCHANGED <<node, nodeLedger>>
       ELSE IF Cardinality(Registered) >= MaxNodes
       THEN Answer(w, "max_nodes", 0) /\ UNCHANGED <<node, nodeLedger>>
       ELSE /\ node' = Append(node, NewNode(KeyOf(w), ForCamera(w)))
            /\ nodeLedger' = [nodeLedger EXCEPT
                   ![KeyOf(w)] = Row(NodeDigest(w), Len(node) + 1)]
            /\ op' = [op EXCEPT ![w].pc = "start", ![w].node = Len(node) + 1]
            /\ UNCHANGED <<locks, answers>>
    /\ UNCHANGED <<camera, cameraLedger, events>>

(* start_node under the node's lifecycle guard: the request commits, the     *)
(* helper starts the process, its observation commits.                       *)
start_node(w) ==
    /\ At(w, "start") /\ op[w].node \in Registered
    /\ \/ /\ node' = [node EXCEPT ![op[w].node].wanted = TRUE,
                  ![op[w].node].runtime = "running", ![op[w].node].fresh = TRUE]
          /\ IF ForCamera(w)
             THEN Goto(w, "place") /\ Unlocked(w) /\ UNCHANGED answers
             ELSE Answer(w, "created", op[w].node)
          /\ UNCHANGED events
       \/ /\ node' = [node EXCEPT ![op[w].node].wanted = TRUE,
                  ![op[w].node].runtime = "failed", ![op[w].node].fresh = FALSE]
          /\ Answer(w, "failed", op[w].node)
          /\ Happens
    /\ UNCHANGED <<camera, ledgers>>

StartGone(w) ==
    /\ At(w, "start") /\ op[w].node \notin Registered
    /\ Answer(w, "not_found", 0)
    /\ UNCHANGED <<node, camera, ledgers, events>>

-----------------------------------------------------------------------------
(* _acquire_advisory_lock gives up after its timeout: NodeLifecycleBusy.     *)
Busy(w) ==
    /\ \/ op[w].pc \in {"reserve", "place"} /\ guard[KeyOf(w)] # Free
       \/ At(w, "ensure") /\ provisioning # Free
    /\ Answer(w, "busy", 0)
    /\ UNCHANGED <<node, camera, ledgers, events>>

(* A replica dies: PostgreSQL ends its sessions, and with them its locks.    *)
Crash(w) ==
    /\ ~At(w, "idle") /\ Happens
    /\ op' = [op EXCEPT ![w] = NoRequest]
    /\ Unlocked(w)
    /\ UNCHANGED <<node, camera, ledgers, answers>>

(* Only the connection of a lock is lost; the thread goes on.                *)
LoseGuard(w) ==
    /\ At(w, "insert") /\ guard[KeyOf(w)] = w /\ Happens
    /\ guard' = [guard EXCEPT ![KeyOf(w)] = Free]
    /\ UNCHANGED <<node, camera, ledgers, provisioning, op, answers>>

(* What else happens to the rows: the observation grows older than           *)
(* management_freshness_seconds, an operator starts maintenance, deletes a   *)
(* camera, or deletes an empty node.  The ledgers keep their rows.           *)
GrowsStale(n) ==
    /\ node[n].fresh /\ Happens
    /\ node' = [node EXCEPT ![n].fresh = FALSE]
    /\ UNCHANGED <<camera, ledgers, locks, op, answers>>

Maintain(n) ==
    /\ n \in Registered /\ ~node[n].maintenance /\ Happens
    /\ node' = [node EXCEPT ![n].maintenance = TRUE]
    /\ UNCHANGED <<camera, ledgers, locks, op, answers>>

delete_camera(c) ==
    /\ camera[c].live /\ Happens
    /\ camera' = [camera EXCEPT ![c].live = FALSE]
    /\ UNCHANGED <<node, ledgers, locks, op, answers>>

delete_node(n) ==
    /\ n \in Registered /\ CamerasOn(n) = {} /\ Happens
    /\ node' = [node EXCEPT ![n].there = FALSE, ![n].fresh = FALSE]
    /\ UNCHANGED <<camera, ledgers, locks, op, answers>>

Submit(w, r) == create_camera(w, r) \/ create_node(w, r)

Step(w) ==
    \/ reserve_camera_registration(w)
    \/ BeginPlacement(w)
    \/ place_camera_automatically(w)
    \/ place_camera_manually(w)
    \/ Survey(w)
    \/ ObserveNext(w)
    \/ ObserveGone(w)
    \/ Capable(w)
    \/ lookup_registration(w)
    \/ register_idempotently(w)
    \/ start_node(w)
    \/ StartGone(w)

RegNext ==
    /\ \/ \E w \in Workers :
           \/ \E r \in plan : Submit(w, r)
           \/ Step(w)
           \/ Busy(w)
           \/ Crash(w)
           \/ LoseGuard(w)
       \/ \E n \in DOMAIN node : GrowsStale(n) \/ Maintain(n) \/ delete_node(n)
       \/ \E c \in DOMAIN camera : delete_camera(c)
    /\ UNCHANGED plan

RegSpec == RegInit /\ [][RegNext]_regVars

-----------------------------------------------------------------------------
(* Rows, locks and ledgers hold values of their columns, and neither the     *)
(* fleet nor a node holds more than it may.                                  *)
RegTypeOK ==
    /\ Cardinality(Registered) <= MaxNodes
    /\ \A n \in DOMAIN node : Cardinality(CamerasOn(n)) <= Capacity
    /\ \A n \in DOMAIN node : node[n].runtime \in {"provisioning", "running", "failed"}
    /\ \A c \in DOMAIN camera : camera[c].node \in DOMAIN node
    /\ \A k \in Keys : /\ cameraLedger[k].id \in 0..Len(camera)
                       /\ nodeLedger[k].id \in 0..Len(node)
    /\ guard \in [Keys -> Workers \cup {Free}]
    /\ provisioning \in Workers \cup {Free}
    /\ events \in 0..MaxEvents

(* An idempotency key registers at most one camera, however often its        *)
(* request is sent, on however many threads, when a replica dies between the *)
(* intent and the placement, when the connection of the key's lock is lost   *)
(* under a running placement, and after the camera has been deleted.         *)
KeyCreatesOnce ==
    \A c, d \in DOMAIN camera : camera[c].key = camera[d].key => c = d

(* A key registers at most one node, whether an operator or a camera's need  *)
(* for capacity asks for it (register_idempotently).                         *)
OneNodePerKey ==
    \A n, m \in DOMAIN node : node[n].key = node[m].key => n = m

(* Everyone told that a key's request was carried out is told of the same    *)
(* row, and asked for the same thing (_camera_registration_target).          *)
AnswersAgree ==
    \A a, b \in answers :
        (a.kind = b.kind /\ a.key = b.key) => (a.id = b.id /\ a.digest = b.digest)

(* Cameras registered at once on a full fleet share the node that the first  *)
(* of them makes: as long as nothing fails and nobody interferes, there is   *)
(* never a second automatic node without a camera                            *)
(* (ensure_automatic_capacity under provisioning_guard).                     *)
OneSpareNode ==
    events = 0 =>
        Cardinality({n \in Registered : node[n].auto /\ CamerasOn(n) = {}}) <= 1
=============================================================================
