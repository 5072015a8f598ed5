------------------------------ MODULE MCRegistry -----------------------------
(*****************************************************************************)
(* The tables of the registry, each under every interleaving of its          *)
(* transactions: the cameras with their placements and moves, the requests   *)
(* that register either under an idempotency key, and what a phase           *)
(* transition and a backup save of the tables and restore. One of them       *)
(* moves in each behaviour while the others rest.                            *)
(*****************************************************************************)
EXTENDS CameraStore, Backup, TLC

CONSTANTS Auto, Free, None, c1   \* model values

VARIABLES
    focus,    \* the component that moves; the others rest
    slot1, slot2, slot3, slot4, slot5, slot6, slot7, slot8, slot9, slot10    \* its variables

Workers == {"w1", "w2"}
k1 == "k1"
k2 == "k2"

CameraRequest(k, b, t) == [kind |-> "camera", key |-> k, body |-> b, target |-> t]
NodeRequest(k, b) == [kind |-> "node", key |-> k, body |-> b, target |-> Auto]
(* Two cameras, one camera sent twice with different bodies, a node and a
   camera under one key, and one node sent twice. *)
Plans ==
    {{CameraRequest(k1, "b1", Auto), CameraRequest(k2, "b1", Auto)},
     {CameraRequest(k1, "b1", Auto), CameraRequest(k1, "b2", Auto)},
     {NodeRequest(k2, "b1"), CameraRequest(k2, "b1", 1)},
     {NodeRequest(k1, "b1"), NodeRequest(k1, "b2")}}
Keys == {k1, k2}

Register == INSTANCE Registration WITH
    MaxNodes <- 2, Capacity <- 1, MaxEvents <- 2, node <- slot1, camera <-
    slot2, cameraLedger <- slot3, nodeLedger <- slot4, guard <- slot5,
    provisioning <- slot6, op <- slot7, answers <- slot8, plan <- slot9,
    events <- slot10

Phase == INSTANCE PhaseTransition WITH
    Nodes <- Nodes, Cameras <- {c1}, Capacity <- 2, MaxRevision <- 2,
    MaxFaults <- 1, MaxAudit <- 4, schema <- slot1, node <- slot2, audited
    <- slot3, camera <- slot4, history <- slot5, restoredAt <- slot6,
    exporting <- slot7, file <- slot8, digest <- slot9, faults <- slot10

camerasState == <<camera, move, node>>
backupState == <<content, archive, manifest, report, scratch, job, faults>>
registrationState == <<slot1, slot2, slot3, slot4, slot5, slot6, slot7, slot8, slot9, slot10>>
phaseState == <<slot1, slot2, slot3, slot4, slot5, slot6, slot7, slot8, slot9, slot10>>
slots == <<slot1, slot2, slot3, slot4, slot5, slot6, slot7, slot8, slot9, slot10>>
mcVars == <<focus, camerasState, backupState, slots>>

MCInit ==
    \/ /\ focus = "cameras"
       /\ StoreInit
       /\ slot1 = 0 /\ slot2 = 0 /\ slot3 = 0 /\ slot4 = 0 /\ slot5 = 0
       /\ slot6 = 0 /\ slot7 = 0 /\ slot8 = 0 /\ slot9 = 0 /\ slot10 = 0
       /\ BackupInit
    \/ /\ focus = "backup"
       /\ BackupInit
       /\ slot1 = 0 /\ slot2 = 0 /\ slot3 = 0 /\ slot4 = 0 /\ slot5 = 0
       /\ slot6 = 0 /\ slot7 = 0 /\ slot8 = 0 /\ slot9 = 0 /\ slot10 = 0
       /\ StoreInit
    \/ /\ focus = "registration"
       /\ Register!RegInit
       /\ StoreInit
       /\ BackupInit
    \/ /\ focus = "phase"
       /\ Phase!TransitionInit
       /\ StoreInit
       /\ BackupInit

MCNext ==
    \/ /\ focus = "cameras"
       /\ StoreNext
       /\ UNCHANGED <<focus, slots, backupState>>
    \/ /\ focus = "backup"
       /\ BackupNext
       /\ UNCHANGED <<focus, slots, camerasState>>
    \/ /\ focus = "registration"
       /\ Register!RegNext
       /\ UNCHANGED <<focus, camerasState, backupState>>
    \/ /\ focus = "phase"
       /\ Phase!TransitionNext
       /\ UNCHANGED <<focus, camerasState, backupState>>
    \/ /\ focus \in {"backup", "phase"}    \* these may stop
       /\ UNCHANGED mcVars

MCSpec == MCInit /\ [][MCNext]_mcVars

-----------------------------------------------------------------------------
(* Registration: under one idempotency key at most one camera and one
   node is ever created, every answer to a retry names it and a request
   with another body is refused, and concurrent registrations prepare one
   spare node between them. *)
RetriesAgree ==
    focus = "registration" => /\ Register!RegTypeOK
                              /\ Register!KeyCreatesOnce
                              /\ Register!OneNodePerKey
                              /\ Register!AnswersAgree
                              /\ Register!OneSpareNode

(* PhaseTransition: a restoration brings back the counts and placements
   that were exported, gives no placement generation a second meaning and
   lets no node revision go back, and when it is started again it
   recognises what it restored. *)
RestoreIsExact ==
    /\ [](focus = "phase" => /\ Phase!GenerationNamesOnePlacement
                             /\ Phase!RestoredCountsExact)
    /\ [][focus = "phase" => /\ Phase!NodeRevisionStep
                             /\ Phase!RestoreStep]_phaseState

=============================================================================
