----------------------------- MODULE ProbeGuard -----------------------------
(***************************************************************************)
(* The connect guard of a probe: ProbeConnectGuardManager and its bpftool  *)
(* backend in probe_connect_guard.py.  A guard is a chain of files under   *)
(* the ownership root, directories and pins under the BPF root and two     *)
(* programs attached to the probe's cgroup.  Every step of that chain can  *)
(* fail, and the broker can be killed between any two of them; the receipt *)
(* is what lets the next process find and remove what was left.            *)
(*                                                                         *)
(* One scope is one request: its unit, its cgroup and its pin directory    *)
(* are named after the request's UUID, so no two scopes share a path.  The *)
(* deployed broker never calls the manager's own retry_pending_cleanup, so *)
(* a scope whose removal failed waits for the next process.                *)
(*                                                                         *)
(* The definitions no action refers to are wrong variants of the           *)
(* definition that follows them.                                           *)
(***************************************************************************)
EXTENDS FiniteSets, Naturals, Sequences

CONSTANTS
    Scopes,        \* the requests whose guards are modelled
    BatchLimit,    \* _RECONCILE_MAX_SCOPES, at least 1
    MaxFaults      \* bound: file, kernel and process failures in a behaviour

VARIABLES
    disk,      \* the files, pins and attachments of every scope
    cgroup,    \* the scopes whose unit still has a cgroup
    rec,       \* the manager's record: its state and the step it is at
    process,   \* the broker process and its startup recovery
    faults

guardVars == <<disk, cgroup, rec, process, faults>>

(* What a scope leaves outside the process.  "reserve" and "next" are the  *)
(* temporary receipts, "stage" the reservation directory, "scope" the pin  *)
(* directory under its final name; "receipt" is the phase of the receipt.  *)
NoReceipt == 3
Clean == [receipt |-> NoReceipt, reserve |-> FALSE, next |-> FALSE,
          stage |-> FALSE, scope |-> FALSE, dirs |-> FALSE, target |-> FALSE,
          pins |-> {}, hooks |-> {}]

FreeScope == [state |-> "none", at |-> "idle", lease |-> FALSE]

InstallSteps ==
    {"check", "reserve", "link", "unreserve", "stage", "promote", "staged",
     "rename", "finalize", "owned", "dirs", "map", "pin4", "pin6", "hook4",
     "hook6", "target", "verify"}
Preload == {"stage", "promote", "staged", "rename", "finalize", "owned"}

GuardInit ==
    /\ disk = [s \in Scopes |-> Clean]
    /\ cgroup = {}
    /\ rec = [s \in Scopes |-> FreeScope]
    /\ process = [up |-> TRUE, ready |-> FALSE, at |-> "temps", todo |-> {},
                  refused |-> FALSE]
    /\ faults = 0

-----------------------------------------------------------------------------
(* Installation.                                                           *)

UnitAppears(s) ==
    /\ process.ready /\ rec[s].state = "none" /\ s \notin cgroup
    /\ disk[s] = Clean
    /\ cgroup' = cgroup \cup {s}
    /\ UNCHANGED <<disk, rec, process, faults>>

(* The unit is collected: its cgroup goes, and with it every attachment.   *)
UnitGone(s) ==
    /\ s \in cgroup
    /\ cgroup' = cgroup \ {s}
    /\ disk' = [disk EXCEPT ![s].hooks = {}]
    /\ UNCHANGED <<rec, process, faults>>

(* ProbeConnectGuardManager._install up to the call of the backend.        *)
Install(s) ==
    /\ process.up /\ process.ready /\ s \in cgroup
    /\ rec[s] = FreeScope
    /\ rec' = [rec EXCEPT ![s] = [state |-> "installing", at |-> "check",
                                   lease |-> FALSE]]
    /\ UNCHANGED <<disk, cgroup, process, faults>>

Goto(s, step) == rec' = [rec EXCEPT ![s].at = step]

Writes(s, from, field, value, to) ==
    /\ rec[s].at = from
    /\ disk' = [disk EXCEPT ![s][field] = value]
    /\ Goto(s, to)

(* The rejection of a scope whose directory or receipt already exists.     *)
CheckScope(s) ==
    /\ rec[s].at = "check"
    /\ rec' = [rec EXCEPT ![s] =
                 IF disk[s].scope \/ disk[s].receipt # NoReceipt
                 THEN FreeScope ELSE [@ EXCEPT !.at = "reserve"]]
    /\ UNCHANGED disk

(* _create_receipt: an exclusive temporary file, its link, its removal.    *)
CreateReceipt(s) ==
    \/ Writes(s, "reserve", "reserve", TRUE, "link")
    \/ Writes(s, "link", "receipt", 0, "unreserve")
    \/ Writes(s, "unreserve", "reserve", FALSE, "stage")

MakeStage(s) == Writes(s, "stage", "stage", TRUE, "promote")

(* _promote_receipt: the replacement is written aside and renamed over.    *)
PromoteReceipt(s) ==
    \/ Writes(s, "promote", "next", TRUE, "staged")
    \/ /\ rec[s].at = "staged"
       /\ disk' = [disk EXCEPT ![s].next = FALSE, ![s].receipt = 1]
       /\ Goto(s, "rename")

RenameScope(s) ==
    /\ rec[s].at = "rename"
    /\ disk' = [disk EXCEPT ![s].stage = FALSE, ![s].scope = TRUE]
    /\ Goto(s, "finalize")

FinalizeReceipt(s) ==
    \/ Writes(s, "finalize", "next", TRUE, "owned")
    \/ /\ rec[s].at = "owned"
       /\ disk' = [disk EXCEPT ![s].next = FALSE, ![s].receipt = 2]
       /\ Goto(s, "dirs")

(* The bpftool commands: the map, the two programs, the two attachments    *)
(* (which need the cgroup) and last the map's value.                       *)
LoadGuard(s) ==
    \/ Writes(s, "dirs", "dirs", TRUE, "map")
    \/ Writes(s, "map", "pins", {"map"}, "pin4")
    \/ Writes(s, "pin4", "pins", {"map", "ipv4"}, "pin6")
    \/ Writes(s, "pin6", "pins", {"map", "ipv4", "ipv6"}, "hook4")
    \/ s \in cgroup /\ Writes(s, "hook4", "hooks", {"ipv4"}, "hook6")
    \/ s \in cgroup /\ Writes(s, "hook6", "hooks", disk[s].hooks \cup {"ipv6"},
                              "target")
    \/ Writes(s, "target", "target", TRUE, "verify")

(* verify and the publication of the lease.                                *)
VerifyGuard(s) ==
    /\ rec[s].at = "verify"
    /\ disk[s].receipt = 2 /\ disk[s].target
    /\ disk[s].pins = {"map", "ipv4", "ipv6"}
    /\ disk[s].hooks = {"ipv4", "ipv6"}
    /\ rec' = [rec EXCEPT ![s] = [state |-> "active", at |-> "idle", lease |-> TRUE]]
    /\ UNCHANGED disk

InstallStep(s) ==
    /\ rec[s].state = "installing"
    /\ \/ CheckScope(s)
       \/ CreateReceipt(s)
       \/ MakeStage(s)
       \/ PromoteReceipt(s)
       \/ RenameScope(s)
       \/ FinalizeReceipt(s)
       \/ LoadGuard(s)
       \/ VerifyGuard(s)
    /\ UNCHANGED <<cgroup, process, faults>>

-----------------------------------------------------------------------------
(* A failed installation.  Before the scope is owned the backend undoes    *)
(* its own reservation and the manager forgets the record; once programs   *)
(* may be loaded the manager removes the scope.                            *)

(* A step that cannot succeed because the cgroup is gone fails without a   *)
(* fault of its own.                                                       *)
MustFail(s) ==
    \/ rec[s].at \in {"hook4", "hook6"} /\ s \notin cgroup
    \/ rec[s].at = "verify" /\ disk[s].hooks # {"ipv4", "ipv6"}

Blame(s) ==
    \/ MustFail(s) /\ faults' = faults
    \/ faults < MaxFaults /\ faults' = faults + 1

UndoOf(step) ==
    CASE step \in {"check", "verify"}                 -> "remove"
      [] step \in {"reserve", "link", "unreserve"}    -> "unreceipt"
      [] step \in Preload                             -> "unstage"
      [] OTHER                                        -> "remove"

(* A failing step may have had part of its effect: a temporary receipt     *)
(* that was created and not completed.                                     *)
InstallFails(s) ==
    /\ rec[s].state = "installing" /\ rec[s].at \in InstallSteps
    /\ Blame(s)
    /\ \/ disk' = disk
       \/ rec[s].at = "reserve" /\ disk' = [disk EXCEPT ![s].reserve = TRUE]
       \/ /\ rec[s].at \in {"promote", "finalize"}
          /\ disk' = [disk EXCEPT ![s].next = TRUE]
    /\ rec' = [rec EXCEPT ![s] =
                 IF @.at = "check" THEN FreeScope
                 ELSE [@ EXCEPT !.state = IF UndoOf(rec[s].at) = "remove"
                                          THEN "cleaning" ELSE @,
                                !.at = UndoOf(@)]]
    /\ UNCHANGED <<cgroup, process>>

(* The rollback of _create_receipt.                                        *)
UndoReceipt(s) ==
    /\ rec[s].at = "unreceipt"
    /\ IF disk[s].reserve
       THEN disk' = [disk EXCEPT ![s].reserve = FALSE] /\ rec' = rec
       ELSE /\ disk' = [disk EXCEPT ![s].receipt = NoReceipt]
            /\ rec' = [rec EXCEPT ![s] = FreeScope]

(* _cleanup_preload_reservation: the empty directories, the temporary      *)
(* receipt and then the receipt.                                           *)
UndoStage(s) ==
    /\ rec[s].at = "unstage"
    /\ IF disk[s].stage THEN disk' = [disk EXCEPT ![s].stage = FALSE] /\ rec' = rec
       ELSE IF disk[s].scope
       THEN disk' = [disk EXCEPT ![s].scope = FALSE] /\ rec' = rec
       ELSE IF disk[s].next
       THEN disk' = [disk EXCEPT ![s].next = FALSE] /\ rec' = rec
       ELSE /\ disk' = [disk EXCEPT ![s].receipt = NoReceipt]
            /\ rec' = [rec EXCEPT ![s] = FreeScope]

RemovedReceiptFirst(d) ==
    IF d.receipt # NoReceipt THEN [d EXCEPT !.receipt = NoReceipt]
    ELSE [d EXCEPT !.hooks = {}, !.pins = {}, !.dirs = FALSE, !.scope = FALSE]

(* The next thing _remove_owned takes away: attachments, the map and the   *)
(* programs, the directories and last the receipt.                         *)
Removed(d) ==
    CASE d.hooks # {}  -> [d EXCEPT !.hooks = @ \ {IF "ipv4" \in @ THEN "ipv4" ELSE "ipv6"}]
      [] d.hooks = {} /\ d.pins # {} ->
           [d EXCEPT !.target = FALSE,
                     !.pins = @ \ {IF "map" \in @ THEN "map"
                                   ELSE IF "ipv6" \in @ THEN "ipv6" ELSE "ipv4"}]
      [] d.hooks = {} /\ d.pins = {} /\ d.dirs  -> [d EXCEPT !.dirs = FALSE]
      [] d.hooks = {} /\ d.pins = {} /\ ~d.dirs /\ d.scope -> [d EXCEPT !.scope = FALSE]
      [] OTHER -> [d EXCEPT !.receipt = NoReceipt]

(* What _remove_owned refuses to touch.                                    *)
Removable(d) ==
    \/ d.receipt = NoReceipt /\ ~d.scope
    \/ d.receipt = 2 /\ ~d.reserve

Absent(d) == d.receipt = NoReceipt /\ ~d.scope

(* _cleanup_failed_install and _release, both through backend.remove.      *)
RemoveStep(s) ==
    /\ rec[s].at = "remove" /\ Removable(disk[s])
    /\ IF Absent(disk[s])
       THEN rec' = [rec EXCEPT ![s] = FreeScope] /\ UNCHANGED disk
       ELSE /\ disk' = [disk EXCEPT ![s] = Removed(@)]
            /\ rec' = rec

(* A removal that fails, or that is refused, leaves the record pending.  A *)
(* failed rollback is followed by one attempt to remove the scope.         *)
RemoveFails(s) ==
    /\ rec[s].at \in {"unreceipt", "unstage", "remove"}
    /\ \/ rec[s].at = "remove" /\ ~Removable(disk[s]) /\ faults' = faults
       \/ faults < MaxFaults /\ faults' = faults + 1
    /\ rec' = [rec EXCEPT ![s] =
                 IF @.at = "remove"
                 THEN [@ EXCEPT !.state = "cleanup_pending", !.at = "idle"]
                 ELSE [@ EXCEPT !.state = "cleaning", !.at = "remove"]]
    /\ UNCHANGED <<disk, cgroup, process>>

CleanupStep(s) ==
    /\ UndoReceipt(s) \/ UndoStage(s) \/ RemoveStep(s)
    /\ UNCHANGED <<cgroup, process, faults>>

(* ensure_released: the coordinator calls it only for a lease it holds,    *)
(* once the unit has been collected, and calls it again while it fails.    *)
Release(s) ==
    /\ rec[s].state \in {"active", "cleanup_pending"} /\ rec[s].lease
    /\ s \notin cgroup
    /\ rec' = [rec EXCEPT ![s].state = "cleaning", ![s].at = "remove"]
    /\ UNCHANGED <<disk, cgroup, process, faults>>

-----------------------------------------------------------------------------
(* The process dies, and the next one recovers before it serves: units     *)
(* first (the cgroups), then the guards.                                   *)

BrokerDies ==
    /\ process.up /\ faults < MaxFaults
    /\ faults' = faults + 1
    /\ process' = [up |-> FALSE, ready |-> FALSE, at |-> "idle", todo |-> {},
                   refused |-> process.refused]
    /\ rec' = [s \in Scopes |-> FreeScope]
    /\ UNCHANGED <<disk, cgroup>>

(* The units of the dead process are collected before guards are touched.  *)
BrokerStarts ==
    /\ ~process.up
    /\ cgroup' = {}
    /\ disk' = [s \in Scopes |-> [disk[s] EXCEPT !.hooks = {}]]
    /\ process' = [process EXCEPT !.up = TRUE, !.at = "temps"]
    /\ UNCHANGED <<rec, faults>>

(* A receipt linked to its temporary name has two links, and is not read.  *)
Readable(d) == d.receipt # NoReceipt /\ ~d.reserve

(* _cleanup_promotion_temps: the reservations first, so that every receipt *)
(* has one link again; a replacement without a readable receipt is         *)
(* refused.                                                                *)
CleanTemps ==
    /\ process.at = "temps"
    /\ \/ \E s \in Scopes :
            /\ disk[s].reserve
            /\ disk' = [disk EXCEPT ![s].reserve = FALSE]
            /\ UNCHANGED process
       \/ /\ \A s \in Scopes : ~disk[s].reserve
          /\ \E s \in Scopes :
               /\ disk[s].next
               /\ IF Readable(disk[s])
                  THEN disk' = [disk EXCEPT ![s].next = FALSE] /\ UNCHANGED process
                  ELSE process' = [process EXCEPT !.refused = TRUE] /\ UNCHANGED disk
       \/ /\ \A s \in Scopes : ~disk[s].reserve /\ ~disk[s].next
          /\ \E batch \in SUBSET {s \in Scopes : disk[s].receipt # NoReceipt} :
               /\ Cardinality(batch) <= BatchLimit
               /\ \/ Cardinality(batch) = BatchLimit
                  \/ batch = {s \in Scopes : disk[s].receipt # NoReceipt}
               /\ process' = [process EXCEPT !.at = "scopes", !.todo = batch]
          /\ UNCHANGED disk

(* _cleanup_reserved_scope: a receipt of phase 0 owns at most the empty    *)
(* reservation directory.                                                  *)
CleanReserved(d) ==
    IF d.stage THEN [d EXCEPT !.stage = FALSE]
    ELSE [d EXCEPT !.receipt = NoReceipt]

(* _cleanup_staged_owned_scope: phase 1 owns an empty directory under one  *)
(* of its two names, phase 2 whatever _remove_owned finds.                 *)
CleanStaged(d) ==
    CASE d.receipt = 1 /\ d.stage -> [d EXCEPT !.stage = FALSE]
      [] d.receipt = 1 /\ ~d.stage /\ d.scope -> [d EXCEPT !.scope = FALSE]
      [] OTHER -> Removed(d)

(* What the two of them refuse: a directory that is not empty before the   *)
(* scope is owned, or both names at once.                                  *)
Refused(d) ==
    \/ ~Readable(d)
    \/ d.receipt \in {0, 1} /\ (d.dirs \/ d.pins # {} \/ d.hooks # {})
    \/ d.receipt = 0 /\ d.scope
    \/ d.stage /\ d.scope

ReconcileOneBatch ==
    /\ process.at = "scopes"
    /\ \/ \E s \in process.todo :
            /\ disk' = [disk EXCEPT ![s] =
                           IF @.receipt = 0 THEN CleanReserved(@) ELSE CleanStaged(@)]
            /\ process' = [process EXCEPT !.todo =
                              {t \in @ : disk'[t].receipt # NoReceipt}]
       \/ /\ process.todo = {}
          /\ process' = [process EXCEPT !.at = "idle",
                            !.ready = \A s \in Scopes : disk[s].receipt = NoReceipt]
          /\ UNCHANGED disk

(* reconcile_owned: the receipts of one batch; startup succeeds when none  *)
(* is left, and otherwise the process exits and is started again.          *)
ReconcileOwned ==
    /\ process.at = "scopes"
    /\ \/ \E s \in process.todo :
            IF Refused(disk[s])
            THEN process' = [process EXCEPT !.refused = TRUE,
                                            !.todo = @ \ {s}] /\ UNCHANGED disk
            ELSE /\ disk' = [disk EXCEPT ![s] =
                               IF @.receipt = 0 THEN CleanReserved(@) ELSE CleanStaged(@)]
                 /\ process' = [process EXCEPT !.todo =
                                  {t \in @ : disk'[t].receipt # NoReceipt}]
       \/ /\ process.todo = {}
          /\ process' = IF \E s \in Scopes : disk[s].receipt # NoReceipt
                        THEN [process EXCEPT !.up = FALSE, !.at = "idle"]
                        ELSE [process EXCEPT !.ready = TRUE, !.at = "idle"]
          /\ UNCHANGED disk

Recover ==
    /\ process.up /\ ~process.refused
    /\ CleanTemps \/ ReconcileOwned
    /\ UNCHANGED <<cgroup, rec, faults>>

GuardNext ==
    \/ \E s \in Scopes :
         \/ UnitAppears(s) \/ UnitGone(s)
         \/ Install(s) \/ InstallStep(s) \/ InstallFails(s)
         \/ CleanupStep(s) \/ RemoveFails(s) \/ Release(s)
    \/ BrokerDies \/ BrokerStarts \/ Recover

Work(s) == InstallStep(s) \/ CleanupStep(s) \/ Release(s)

GuardSpec == GuardInit /\ [][GuardNext]_guardVars

(* Every step of the broker is bounded by a deadline and it is restarted   *)
(* when it exits; units end by themselves.                                 *)
GuardFairness ==
    /\ WF_guardVars(BrokerStarts \/ Recover)
    /\ WF_guardVars(\E s \in Scopes : Work(s))
    /\ WF_guardVars(\E s \in Scopes : UnitGone(s))

FairGuardSpec == GuardSpec /\ GuardFairness

-----------------------------------------------------------------------------
(* Properties.                                                             *)

(* What is pinned or attached is always named by a receipt, at every point *)
(* of installation and removal: the receipt is written first and removed   *)
(* last, so that no crash leaves a guard nobody can find.                  *)
ResidueIsReceipted ==
    \A s \in Scopes :
        disk[s].stage \/ disk[s].scope \/ disk[s].pins # {} \/ disk[s].hooks # {}
            => disk[s].receipt # NoReceipt

(* A published lease means both programs are attached and the map holds    *)
(* the target, for as long as the unit has a cgroup.                       *)
LeaseIsEnforced ==
    \A s \in Scopes : rec[s].state = "active" /\ s \in cgroup =>
        disk[s].hooks = {"ipv4", "ipv6"} /\ disk[s].target

(* Startup recovery never meets a state it refuses to clean, whatever step *)
(* the previous process was killed in.                                     *)
RecoveryIsAccepted == ~process.refused

(* While the broker serves, a scope without a record has left nothing that *)
(* the kernel enforces or a receipt names.                                 *)
ServingIsClean ==
    process.ready => \A s \in Scopes :
        rec[s].state = "none" => Absent(disk[s]) /\ ~disk[s].stage

(* What a killed broker has to come back to, however many scopes it left   *)
(* and however few a start may clean.                                      *)
Serving == process.ready
=============================================================================
