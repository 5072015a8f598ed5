-------------------------------- MODULE Backup --------------------------------
(***************************************************************************)
(* rtsp-proxy-operations (operations.py): backup-database and              *)
(* verify-database-restore.  Several commands may be started with the same *)
(* output path; a command can fail at any step, and then undoes what it    *)
(* made, or die at any step, and then leaves it.                           *)
(*                                                                         *)
(* The database is its content, a number that grows with every write; an   *)
(* archive is the content it was dumped from, or a torn dump.  A JSON file *)
(* that was created but not completely written is "torn".                  *)
(*                                                                         *)
(* The definitions no action refers to are wrong variants of the           *)
(* definition that follows them.                                           *)
(***************************************************************************)
EXTENDS Naturals, FiniteSets

CONSTANTS
    Backups,        \* the backup commands, all with the same --output
    Verifiers,      \* the restore verifications, all with the same --report
    MaxContent,     \* bound: writes to the database
    MaxFaults       \* bound: failing steps and crashes

ASSUME BackupAssumption == Backups \cap Verifiers = {}

VARIABLES
    content,        \* the production database
    archive,        \* the file at --output: 0 is none
    manifest,       \* the file at --output.manifest.json
    report,         \* the file at --report
    scratch,        \* [Verifiers -> content]: temporary restore databases, 0 is none
    job,            \* [Backups \cup Verifiers -> a command's progress]
    faults

backupVars == <<content, archive, manifest, report, scratch, job, faults>>

NoFile == [kind |-> "none", of |-> 0]
Torn == [kind |-> "torn", of |-> 0]
Whole(c) == [kind |-> "whole", of |-> c]
Idle == [pc |-> "start", dump |-> 0, made |-> FALSE, expected |-> 0]

BackupInit ==
    /\ content = 1 /\ archive = 0
    /\ manifest = NoFile /\ report = NoFile
    /\ scratch = [v \in Verifiers |-> 0]
    /\ job = [j \in Backups \cup Verifiers |-> Idle]
    /\ faults = 0

Goto(j, pc) == job' = [job EXCEPT ![j].pc = pc]
Fault == faults < MaxFaults /\ faults' = faults + 1
files == <<archive, manifest, report, scratch>>

\* A transaction of the application, at any time.
Write ==
    /\ content < MaxContent /\ content' = content + 1
    /\ UNCHANGED <<files, job, faults>>

\* _new_private_output for the archive and the manifest: neither exists.
OpenOutputs(b) ==
    /\ job[b].pc = "start"
    /\ Goto(b, IF archive = 0 /\ manifest.kind = "none" THEN "dump" ELSE "failed")
    /\ UNCHANGED <<content, files, faults>>

\* pg_dump from the exported snapshot, then pg_restore --list and the digest
\* of the private temporary file.
Dump(b) ==
    /\ job[b].pc = "dump"
    /\ \/ job' = [job EXCEPT ![b].pc = "link", ![b].dump = content] /\ UNCHANGED faults
       \/ Fault /\ Goto(b, "failed")
    /\ UNCHANGED <<content, files>>

\* _link_exclusive: the archive gets its name unless the name is taken.
_link_exclusive(b) ==
    /\ job[b].pc = "link"
    /\ IF archive = 0
       THEN archive' = job[b].dump /\ job' = [job EXCEPT ![b].pc = "open", ![b].made = TRUE]
       ELSE Goto(b, "undo") /\ UNCHANGED archive
    /\ UNCHANGED <<content, manifest, report, scratch, faults>>

\* _write_json_exclusive, first half: O_CREAT | O_EXCL.
CreateManifest(b) ==
    /\ job[b].pc = "open"
    /\ IF manifest.kind = "none" THEN manifest' = Torn /\ Goto(b, "write")
       ELSE Goto(b, "undo") /\ UNCHANGED manifest
    /\ UNCHANGED <<content, archive, report, scratch, faults>>

\* Second half: the payload is written and flushed, or the file is removed.
WriteManifest(b) ==
    /\ job[b].pc = "write"
    /\ \/ manifest' = Whole(job[b].dump) /\ Goto(b, "done") /\ UNCHANGED faults
       \/ Fault /\ manifest' = NoFile /\ Goto(b, "undo")
    /\ UNCHANGED <<content, archive, report, scratch>>

UndoPath(b) ==
    /\ job[b].pc = "undo"
    /\ archive' = 0
    /\ Goto(b, "failed")
    /\ UNCHANGED <<content, manifest, report, scratch, faults>>

\* The handlers of backup_database: an archive this command named is removed.
UndoBackup(b) ==
    /\ job[b].pc = "undo"
    /\ archive' = IF job[b].made THEN 0 ELSE archive
    /\ Goto(b, "failed")
    /\ UNCHANGED <<content, manifest, report, scratch, faults>>

-----------------------------------------------------------------------------
\* _private_input, _new_private_output, _validate_backup_manifest: a complete
\* manifest with the archive's digest.
ReadBackup(v) ==
    /\ job[v].pc = "start" /\ archive # 0
    /\ IF manifest = Whole(archive) /\ report.kind = "none"
       THEN job' = [job EXCEPT ![v].pc = "create", ![v].expected = manifest.of]
       ELSE Goto(v, "failed")
    /\ UNCHANGED <<content, files, faults>>

\* _create_database under a fresh random name, then pg_restore into it; the
\* restore reads the archive's path again.  A CREATE DATABASE whose answer is
\* lost counts as not created and is not dropped.
_create_database(v) ==
    /\ job[v].pc = "create"
    /\ \/ /\ scratch' = [scratch EXCEPT ![v] = archive]
          /\ job' = [job EXCEPT ![v].pc = "compare", ![v].made = TRUE]
          /\ UNCHANGED faults
       \/ /\ Fault /\ Goto(v, "create_failed")
          /\ scratch' \in {scratch, [scratch EXCEPT ![v] = archive]}
    /\ UNCHANGED <<content, archive, manifest, report>>

\* _inspect_database of the restored copy against the manifest's snapshot.
Compare(v) ==
    /\ job[v].pc = "compare"
    /\ \/ Goto(v, IF scratch[v] = job[v].expected THEN "drop" ELSE "cleanup") /\ UNCHANGED faults
       \/ Fault /\ Goto(v, "cleanup")
    /\ UNCHANGED <<content, files>>

\* _drop_database before the report is written; a failure goes to `finally`.
_drop_database(v) ==
    /\ job[v].pc = "drop"
    /\ \/ /\ scratch' = [scratch EXCEPT ![v] = 0]
          /\ job' = [job EXCEPT ![v].pc = "open", ![v].made = FALSE] /\ UNCHANGED faults
       \/ Fault /\ Goto(v, "cleanup") /\ UNCHANGED scratch
    /\ UNCHANGED <<content, archive, manifest, report>>

CreateReport(v) ==
    /\ job[v].pc = "open"
    /\ IF report.kind = "none" THEN report' = Torn /\ Goto(v, "write")
       ELSE Goto(v, "failed") /\ UNCHANGED report
    /\ UNCHANGED <<content, archive, manifest, scratch, faults>>

WriteReport(v) ==
    /\ job[v].pc = "write"
    /\ \/ report' = Whole(job[v].expected) /\ Goto(v, "done") /\ UNCHANGED faults
       \/ Fault /\ report' = NoFile /\ Goto(v, "failed")
    /\ UNCHANGED <<content, archive, manifest, scratch>>

\* The finally clause: drop what is still there, or say that it stayed.
Cleanup(v) ==
    /\ job[v].pc = "cleanup"
    /\ \/ scratch' = [scratch EXCEPT ![v] = 0] /\ Goto(v, "failed") /\ UNCHANGED faults
       \/ Fault /\ Goto(v, "cleanup_failed") /\ UNCHANGED scratch
    /\ UNCHANGED <<content, archive, manifest, report>>

Ended == {"done", "failed", "create_failed", "cleanup_failed", "dead"}

Crash(j) ==
    /\ job[j].pc \notin Ended /\ Fault /\ Goto(j, "dead")
    /\ UNCHANGED <<content, files>>

BackupStep(b) == OpenOutputs(b) \/ Dump(b) \/ _link_exclusive(b) \/ CreateManifest(b)
                 \/ WriteManifest(b) \/ UndoBackup(b) \/ Crash(b)
VerifyStep(v) == ReadBackup(v) \/ _create_database(v) \/ Compare(v) \/ _drop_database(v)
                 \/ CreateReport(v) \/ WriteReport(v) \/ Cleanup(v) \/ Crash(v)

BackupNext == Write \/ (\E b \in Backups : BackupStep(b)) \/ (\E v \in Verifiers : VerifyStep(v))
BackupSpec == BackupInit /\ [][BackupNext]_backupVars

-----------------------------------------------------------------------------
\* A complete manifest stands beside the archive it describes, whichever
\* commands raced for the path, failed or died: no command removes or
\* replaces another one's archive.
ManifestDescribesArchive ==
    manifest.kind = "whole" => archive = manifest.of

\* A restore report exists only for an archive that was restored and compared,
\* and only once the temporary database of that verification is gone, as
\* its temporary_database_removed field says.
ReportIsTrue ==
    /\ report.kind = "whole" => report.of = archive /\ manifest = Whole(archive)
    /\ \A v \in Verifiers : job[v].pc \in {"open", "write", "done"} => scratch[v] = 0

\* A temporary restore database outlives its command only if the command died
\* or said that creating it or dropping it failed.
NoScratchLeft ==
    \A v \in Verifiers : job[v].pc \in {"done", "failed"} => scratch[v] = 0

\* What the files and databases that the commands leave behind promise.
BackupSafe == ManifestDescribesArchive /\ ReportIsTrue /\ NoScratchLeft

-----------------------------------------------------------------------------
\* What BackupSafe rests on.  The archive is the one that the command which
\* named it dumped, and that is one command at most; how far this command has
\* come tells what the manifest's path holds.
BackupPcs == {"start", "dump", "link", "open", "write", "undo", "done", "failed", "dead"}
VerifyPcs == {"start", "create", "compare", "drop", "open", "write", "cleanup", "done",
              "failed", "create_failed", "cleanup_failed", "dead"}

JobsTypeOK ==
    /\ content \in Nat \ {0} /\ archive \in Nat
    /\ scratch \in [Verifiers -> Nat]
    /\ job \in [Backups \cup Verifiers ->
                  [pc : BackupPcs \cup VerifyPcs, dump : Nat, made : BOOLEAN, expected : Nat]]
    /\ \A b \in Backups :
          /\ job[b].pc \in BackupPcs
          /\ job[b].pc \in {"start", "dump", "link"} => ~job[b].made
          /\ job[b].pc \in {"open", "write", "done"} => job[b].made
          /\ job[b].pc = "link" => job[b].dump # 0
    /\ \A v \in Verifiers : job[v].pc \in VerifyPcs

Named(b) == job[b].made /\ job[b].pc # "failed"

ArchiveIsNamed ==
    /\ archive # 0 => \E b \in Backups : Named(b)
    /\ \A b \in Backups : Named(b) => archive = job[b].dump /\ archive # 0
    /\ \A b, c \in Backups : Named(b) /\ Named(c) => b = c

ManifestFollows ==
    /\ archive = 0 => manifest = NoFile
    /\ \A b \in Backups : Named(b) =>
          /\ job[b].pc \in {"open", "undo"} => manifest = NoFile
          /\ job[b].pc = "write" => manifest = Torn
          /\ job[b].pc = "dead" => manifest \in {NoFile, Torn}
          /\ job[b].pc = "done" => manifest = Whole(archive)

\* A verification works on an archive that nobody will remove any more.
Verifying(v) == job[v].pc \in {"create", "compare", "drop", "open", "write", "cleanup"}

VerifiedStays ==
    /\ \A v \in Verifiers : Verifying(v) =>
          archive # 0 /\ manifest = Whole(archive) /\ job[v].expected = archive
    /\ report \in {NoFile, Torn, Whole(archive)}
    /\ report.kind = "whole" => archive # 0 /\ manifest = Whole(archive)
    /\ \A v \in Verifiers :
          job[v].pc \in {"start", "create", "open", "write", "done", "failed"} => scratch[v] = 0

BackupInv == JobsTypeOK /\ ArchiveIsNamed /\ ManifestFollows /\ VerifiedStays
=============================================================================
