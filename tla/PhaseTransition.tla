---------------------------- MODULE PhaseTransition ----------------------------
(***************************************************************************)
(* rtsp-proxy-phase-d-transition (phase_d_transition.py): the export of    *)
(* every node and camera to a private manifest, and their restoration      *)
(* under the same identities after the nodes were removed and the schema   *)
(* was migrated.  Around it the control plane goes on: cameras are         *)
(* changed, moved and deleted, nodes are revised and removed.              *)
(*                                                                         *)
(* The definitions no action refers to are wrong variants of the           *)
(* definition that follows them.                                           *)
(***************************************************************************)
EXTENDS Integers, FiniteSets, FiniteSetsExt

CONSTANTS
    Nodes, Cameras,
    Capacity,       \* cameras a node may register
    None,
    MaxRevision,    \* bound: revisions of a node or a camera
    MaxAudit,       \* bound: audited revisions of a node a restore starts from
    MaxFaults       \* bound: torn files

VARIABLES
    schema,         \* "0008" | "head"
    node,           \* [Nodes -> the media_nodes row, or NoRow]
    audited,        \* [Nodes -> the last audited aggregate revision]
    camera,         \* [Cameras -> the cameras row and its placement]
    history,        \* camera_placement_history: <<camera, generation, node>>
    restoredAt,     \* [Nodes -> revision of its last phase_d_restored event]
    exporting,      \* the manifest between the transaction and the file
    file,           \* the manifest file
    digest,         \* the digest the operator recorded
    faults

transitionVars == <<schema, node, audited, camera, history, restoredAt,
                    exporting, file, digest, faults>>

NoRow == [present |-> FALSE, count |-> 0, rev |-> 0, state |-> "none"]
NoManifest == [kind |-> "none", node |-> <<>>, camera |-> <<>>]
Torn == [NoManifest EXCEPT !.kind = "torn"]

TransitionInit ==
    /\ schema = "0008"
    /\ \E place \in [Cameras -> Nodes] :
        /\ camera = [c \in Cameras |-> [state |-> "enabled", body |-> "a", rev |-> 1,
                                        node |-> place[c], gen |-> 1, moving |-> FALSE,
                                        policy |-> 1]]
        /\ node = [n \in Nodes |-> [present |-> TRUE, rev |-> 1, state |-> "running",
                                    count |-> Cardinality({c \in Cameras : place[c] = n})]]
        /\ history = {<<c, 1, place[c]>> : c \in Cameras}
    /\ audited = [n \in Nodes |-> 1]
    /\ restoredAt = [n \in Nodes |-> 0]
    /\ exporting = NoManifest /\ file = NoManifest /\ digest = NoManifest
    /\ faults = 0

Placed(c) == camera[c].node # None
Live(c) == camera[c].state # "deleted"
tool == <<exporting, file, digest>>

-----------------------------------------------------------------------------
\* The control plane.  A camera's definition changes; it is moved, the start
\* and the end of the move being two steps; it is deleted, which frees its
\* placement and its access policy but leaves the row and the tombstone.
ChangeCamera(c) ==
    /\ Live(c) /\ camera[c].rev < MaxRevision
    /\ \/ camera' = [camera EXCEPT ![c].body = "b", ![c].rev = @ + 1]
       \/ camera' = [camera EXCEPT ![c].policy = @ + 1, ![c].rev = @ + 1]
    /\ UNCHANGED <<schema, node, audited, history, restoredAt, tool, faults>>

StartMove(c) ==
    /\ Live(c) /\ ~camera[c].moving /\ camera[c].rev < MaxRevision
    /\ camera' = [camera EXCEPT ![c].moving = TRUE]
    /\ UNCHANGED <<schema, node, audited, history, restoredAt, tool, faults>>

FinishMove(c, n) ==
    LET from == camera[c].node
        gen == camera[c].gen + 1 IN
    /\ camera[c].moving /\ n # from
    /\ node[n].present /\ node[n].count < Capacity
    /\ camera' = [camera EXCEPT ![c].node = n, ![c].gen = gen, ![c].rev = @ + 1,
                                ![c].moving = FALSE]
    /\ node' = [node EXCEPT ![from].count = @ - 1, ![n].count = @ + 1]
    /\ history' = history \cup {<<c, gen, n>>}
    /\ UNCHANGED <<schema, audited, restoredAt, tool, faults>>

DeleteCamera(c) ==
    /\ Live(c) /\ ~camera[c].moving
    /\ camera' = [camera EXCEPT ![c].state = "deleted", ![c].node = None,
                                ![c].policy = 0, ![c].rev = @ + 1]
    /\ node' = [node EXCEPT ![camera[c].node].count = @ - 1]
    /\ UNCHANGED <<schema, audited, history, restoredAt, tool, faults>>

ReviseNode(n) ==
    /\ node[n].present /\ node[n].rev < MaxRevision
    /\ node' = [node EXCEPT ![n].rev = @ + 1,
                            ![n].state = IF @ = "running" THEN "stopped" ELSE "running"]
    /\ audited' = [audited EXCEPT ![n] = node[n].rev + 1]
    /\ UNCHANGED <<schema, camera, history, restoredAt, tool, faults>>

DeleteNode(n) ==
    /\ node[n].present /\ node[n].count = 0
    /\ node' = [node EXCEPT ![n] = NoRow]
    /\ audited' = [audited EXCEPT ![n] = node[n].rev + 1]
    /\ UNCHANGED <<schema, camera, history, restoredAt, tool, faults>>

\* Migration 0009 refuses a non-empty node registry.
Migrate ==
    /\ schema = "0008" /\ \A n \in Nodes : ~node[n].present
    /\ schema' = "head"
    /\ UNCHANGED <<node, audited, camera, history, restoredAt, tool, faults>>

-----------------------------------------------------------------------------
\* export_transition's transaction: schema 0008, no move in progress, every
\* registered count equal to the placements read.
export_transition ==
    /\ schema = "0008" /\ exporting.kind = "none"
    /\ \A c \in Cameras : ~camera[c].moving
    /\ \A n \in Nodes : node[n].present =>
          node[n].count = Cardinality({c \in Cameras : Live(c) /\ camera[c].node = n})
    /\ exporting' = [kind |-> "whole",
                     node |-> [n \in {m \in Nodes : node[m].present} |-> node[n]],
                     camera |-> [c \in {d \in Cameras : Live(d)} |-> camera[c]]]
    /\ UNCHANGED <<schema, node, audited, camera, history, restoredAt, file, digest, faults>>

\* _write_new_private_file: created exclusively, then written.  The digest is
\* printed once the file is complete; a failure or a crash leaves a torn file
\* and no digest.
_write_new_private_file ==
    /\ exporting.kind = "whole"
    /\ \/ /\ file.kind = "none"
          /\ \/ file' = exporting /\ digest' = exporting /\ UNCHANGED faults
             \/ faults < MaxFaults /\ faults' = faults + 1 /\ file' = Torn /\ UNCHANGED digest
       \/ file.kind # "none" /\ UNCHANGED <<file, digest, faults>>
    /\ exporting' = NoManifest
    /\ UNCHANGED <<schema, node, audited, camera, history, restoredAt>>

\* The operator removes the file to export again; the recorded digest stays.
RemoveFile ==
    /\ file.kind = "torn" /\ file' = NoManifest
    /\ UNCHANGED <<schema, node, audited, camera, history, restoredAt,
                   exporting, digest, faults>>

-----------------------------------------------------------------------------
\* The rows restore_transition writes: a node continues after the highest
\* revision known of it, a camera after its deleted row and its exported
\* placement generation.
RestoredNode(m, n) ==
    [present |-> TRUE, state |-> m.node[n].state,
     rev |-> Max({m.node[n].rev, audited[n]}) + 1,
     count |-> Cardinality({c \in DOMAIN m.camera : m.camera[c].node = n})]
RestoredCamera(m, c) ==
    [m.camera[c] EXCEPT !.rev = camera[c].rev + 1, !.gen = @ + 1, !.policy = 1]

RestorableByBody(m) ==
    /\ \A c \in Cameras : ~Placed(c)
    /\ \A c \in DOMAIN m.camera : camera[c].state = "deleted" /\ camera[c].body = m.camera[c].body

\* The refusals of restore_transition on an empty registry: a camera whose
\* deleted row is not the exported one, and the primary key of the placement
\* history.
Restorable(m) ==
    /\ \A c \in Cameras : ~Placed(c)
    /\ \A c \in DOMAIN m.camera : camera[c].state = "deleted" /\ camera[c].body = m.camera[c].body
    /\ \A c \in DOMAIN m.camera, h \in history : h[1] = c => h[2] # m.camera[c].gen + 1

\* _already_restored: the registry is exactly what this manifest restores.
_already_restored(m) ==
    /\ \A n \in Nodes : node[n].present <=> n \in DOMAIN m.node
    /\ \A n \in DOMAIN m.node :
        /\ node[n].state = m.node[n].state /\ node[n].rev = restoredAt[n]
        /\ node[n].count = RestoredNode(m, n).count
    /\ \A c \in Cameras : Live(c) <=> c \in DOMAIN m.camera
    /\ \A c \in DOMAIN m.camera :
        /\ camera[c].body = m.camera[c].body /\ camera[c].state = m.camera[c].state
        /\ camera[c].node = m.camera[c].node /\ camera[c].gen = m.camera[c].gen + 1
        /\ camera[c].policy = 1

\* restore_transition: one transaction under the two advisory locks.  The
\* answer of a commit may be lost, and the operator then runs it again.
restore_transition ==
    /\ schema = "head" /\ file.kind = "whole" /\ file = digest
    /\ \A n \in Nodes : ~node[n].present
    /\ \A n \in Nodes : audited[n] < MaxAudit
    /\ Restorable(file)
    /\ node' = [n \in Nodes |-> IF n \in DOMAIN file.node THEN RestoredNode(file, n) ELSE node[n]]
    /\ audited' = [n \in Nodes |-> IF n \in DOMAIN file.node THEN RestoredNode(file, n).rev
                                   ELSE audited[n]]
    /\ restoredAt' = [n \in Nodes |-> IF n \in DOMAIN file.node THEN RestoredNode(file, n).rev
                                      ELSE restoredAt[n]]
    /\ camera' = [c \in Cameras |-> IF c \in DOMAIN file.camera THEN RestoredCamera(file, c)
                                    ELSE camera[c]]
    /\ history' = history \cup {<<c, file.camera[c].gen + 1, file.camera[c].node>> :
                                c \in DOMAIN file.camera}
    /\ UNCHANGED <<schema, tool, faults>>

TransitionNext ==
    \/ \E c \in Cameras : ChangeCamera(c) \/ StartMove(c) \/ DeleteCamera(c)
    \/ \E c \in Cameras, n \in Nodes : FinishMove(c, n)
    \/ \E n \in Nodes : ReviseNode(n) \/ DeleteNode(n)
    \/ Migrate
    \/ export_transition
    \/ _write_new_private_file
    \/ RemoveFile
    \/ restore_transition

TransitionSpec == TransitionInit /\ [][TransitionNext]_transitionVars

-----------------------------------------------------------------------------
\* A placement generation of a camera names one placement for ever, across
\* the export, a move the operator forgot, and the restoration.
GenerationNamesOnePlacement ==
    \A h, g \in history : h[1] = g[1] /\ h[2] = g[2] => h = g

\* The registered count of every node is the number of its placements after a
\* restoration as before it.
RestoredCountsExact ==
    \A n \in Nodes : node[n].present =>
        node[n].count = Cardinality({c \in Cameras : camera[c].node = n})

NodeRevisionStep ==
    \A n \in Nodes : /\ audited'[n] >= audited[n]
                     /\ node'[n].present /\ ~node[n].present => node'[n].rev > audited[n]

\* A node's revisions never go back or repeat, also across its removal and
\* restoration: consumers of the audit and outbox order by them.
NodeRevisionsAdvance == [][NodeRevisionStep]_transitionVars

RestoreStep ==
    restore_transition => _already_restored(file)'

\* Running the restore again right after one that committed is recognised, so
\* a lost answer is harmless: the registry it wrote is the one it expects.
RestoreRecognisesItself == [][RestoreStep]_transitionVars
=============================================================================
