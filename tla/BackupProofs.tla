---------------------------- MODULE BackupProofs ----------------------------
(***************************************************************************)
(* Proofs about Backup for any sets of backup and verification commands    *)
(* that share their output paths, any number of writes and any number of   *)
(* faults.  BackupInv is inductive and implies BackupSafe.                 *)
(***************************************************************************)
EXTENDS Backup, TLAPS

Jobs == Backups \cup Verifiers
JobRow == [pc : BackupPcs \cup VerifyPcs, dump : Nat, made : BOOLEAN, expected : Nat]

(* A command that goes on changes its own row only.                          *)
LEMMA GotoFacts ==
    ASSUME job \in [Jobs -> JobRow], NEW j \in Jobs, NEW p \in BackupPcs \cup VerifyPcs,
           Goto(j, p)
    PROVE  /\ job' \in [Jobs -> JobRow]
           /\ job'[j].pc = p /\ job'[j].dump = job[j].dump
           /\ job'[j].made = job[j].made /\ job'[j].expected = job[j].expected
           /\ \A i \in Jobs : i # j => job'[i] = job[i]
<1> DEFINE r == [job[j] EXCEPT !.pc = p]
<1>1. r \in JobRow /\ r.pc = p /\ r.dump = job[j].dump /\ r.made = job[j].made
      /\ r.expected = job[j].expected
    BY DEF JobRow
<1>2. job' = [job EXCEPT ![j] = r]
    BY DEF Goto
<1> HIDE DEF r
<1> QED
    BY <1>1, <1>2

(* A step of a backup command: the verifications stay where they are, and    *)
(* the archive and the manifest stay once the manifest is complete.          *)
LEMMA BackupSide ==
    ASSUME BackupInv, NEW b \in Backups,
           job' \in [Jobs -> JobRow], \A i \in Jobs : i # b => job'[i] = job[i],
           scratch' = scratch, report' = report, content' = content,
           archive # 0 /\ manifest = Whole(archive) => archive' = archive /\ manifest' = manifest
    PROVE  VerifiedStays'
<1>1. \A v \in Verifiers : job'[v] = job[v]
    BY BackupAssumption DEF BackupAssumption, Jobs
<1>2. \A v \in Verifiers : Verifying(v)' =>
         archive' # 0 /\ manifest' = Whole(archive') /\ job'[v].expected = archive'
    BY <1>1 DEF BackupInv, VerifiedStays, Verifying
<1>3. /\ report' \in {NoFile, Torn, Whole(archive')}
      /\ report'.kind = "whole" => archive' # 0 /\ manifest' = Whole(archive')
    <2>1. NoFile.kind # "whole" /\ Torn.kind # "whole" /\ Whole(archive).kind = "whole"
        BY DEF NoFile, Torn, Whole
    <2>2. CASE report.kind = "whole"
        BY <2>2, <2>1 DEF BackupInv, VerifiedStays
    <2>3. CASE report.kind # "whole"
        BY <2>3, <2>1 DEF BackupInv, VerifiedStays
    <2> QED
        BY <2>2, <2>3
<1> QED
    BY <1>1, <1>2, <1>3 DEF BackupInv, VerifiedStays, Whole

(* A step of a verification: the backups stay where they are and the archive *)
(* and the manifest are only read.                                           *)
LEMMA VerifySide ==
    ASSUME BackupInv, NEW v \in Verifiers,
           job' \in [Jobs -> JobRow], \A i \in Jobs : i # v => job'[i] = job[i],
           job'[v].pc \in VerifyPcs, scratch' \in [Verifiers -> Nat],
           content' = content, archive' = archive, manifest' = manifest
    PROVE  JobsTypeOK' /\ ArchiveIsNamed' /\ ManifestFollows'
<1>1. \A b \in Backups : job'[b] = job[b]
    BY BackupAssumption DEF BackupAssumption, Jobs
<1>2. \A u \in Verifiers : job'[u].pc \in VerifyPcs
    BY DEF BackupInv, JobsTypeOK, Jobs
<1>3. JobsTypeOK'
    BY <1>1, <1>2 DEF BackupInv, JobsTypeOK, Jobs, JobRow
<1>4. \A b \in Backups : Named(b)' <=> Named(b)
    BY <1>1 DEF Named
<1> QED
    BY <1>1, <1>3, <1>4 DEF BackupInv, ArchiveIsNamed, ManifestFollows

\* Before any command ran, there is nothing to describe.
LEMMA InitBackup == BackupInit => BackupInv
<1> SUFFICES ASSUME BackupInit PROVE BackupInv
    OBVIOUS
<1>1. Idle \in JobRow /\ Idle.pc = "start" /\ Idle.made = FALSE
    BY DEF Idle, JobRow, BackupPcs
<1>2. job \in [Jobs -> JobRow] /\ \A j \in Jobs : job[j] = Idle
    BY <1>1 DEF BackupInit, Jobs
<1>3. JobsTypeOK
    BY <1>1, <1>2 DEF BackupInit, JobsTypeOK, Jobs, JobRow, BackupPcs, VerifyPcs
<1>4. ArchiveIsNamed /\ ManifestFollows
    BY <1>1, <1>2 DEF BackupInit, ArchiveIsNamed, ManifestFollows, Named, Jobs
<1>5. VerifiedStays
    BY <1>1, <1>2 DEF BackupInit, VerifiedStays, Verifying, Jobs, NoFile
<1> QED
    BY <1>3, <1>4, <1>5 DEF BackupInv

(* A write of the application is visible to later dumps only.                *)
LEMMA WriteKeeps ==
    ASSUME BackupInv, Write PROVE BackupInv'
BY DEF Write, files, BackupInv, JobsTypeOK, ArchiveIsNamed, Named, ManifestFollows, VerifiedStays,
       Verifying

(* The steps before a command names its archive: looking at the paths,       *)
(* dumping, and failing there.                                               *)
LEMMA PrepareKeeps ==
    ASSUME BackupInv, NEW b \in Backups, OpenOutputs(b) \/ Dump(b)
    PROVE  BackupInv'
<1>1. job \in [Jobs -> JobRow] /\ b \in Jobs /\ content \in Nat \ {0}
    BY DEF BackupInv, JobsTypeOK, Jobs, JobRow
<1>2. /\ job' \in [Jobs -> JobRow] /\ \A i \in Jobs : i # b => job'[i] = job[i]
      /\ job'[b].pc \in {"dump", "link", "failed"} /\ job'[b].made = job[b].made
      /\ job'[b].pc = "link" => job'[b].dump # 0
    <2>1. ASSUME NEW p \in {"dump", "failed"}, Goto(b, p)
          PROVE  /\ job' \in [Jobs -> JobRow] /\ \A i \in Jobs : i # b => job'[i] = job[i]
                 /\ job'[b].pc = p /\ job'[b].made = job[b].made
        <3>1. p \in BackupPcs \cup VerifyPcs
            BY DEF BackupPcs
        <3> QED
            BY <1>1, <2>1, <3>1, GotoFacts
    <2>2. CASE job' = [job EXCEPT ![b].pc = "link", ![b].dump = content]
        <3> DEFINE r == [job[b] EXCEPT !.pc = "link", !.dump = content]
        <3>1. r \in JobRow /\ r.pc = "link" /\ r.dump = content /\ r.made = job[b].made
            BY <1>1 DEF JobRow, BackupPcs
        <3>2. job' = [job EXCEPT ![b] = r]
            BY <2>2
        <3> HIDE DEF r
        <3> QED
            BY <1>1, <3>1, <3>2
    <2> QED
        BY <2>1, <2>2 DEF OpenOutputs, Dump
<1>3. /\ archive' = archive /\ manifest' = manifest /\ report' = report /\ scratch' = scratch
      /\ content' = content /\ job[b].pc \in {"start", "dump"}
    BY DEF OpenOutputs, Dump, files
<1>4. ~job[b].made
    BY <1>3 DEF BackupInv, JobsTypeOK
<1>5. \A c \in Backups : Named(c)' <=> Named(c)
    BY <1>2, <1>4 DEF Named, Jobs
<1>6. \A c \in Backups : Named(c) => job'[c] = job[c]
    BY <1>2, <1>4 DEF Named, Jobs
<1>7. JobsTypeOK'
    <2>1. \A v \in Verifiers : job'[v] = job[v]
        BY <1>2, BackupAssumption DEF BackupAssumption, Jobs
    <2>2. \A c \in Backups :
             /\ job'[c].pc \in BackupPcs
             /\ job'[c].pc \in {"start", "dump", "link"} => ~job'[c].made
             /\ job'[c].pc \in {"open", "write", "done"} => job'[c].made
             /\ job'[c].pc = "link" => job'[c].dump # 0
        BY <1>2, <1>4 DEF BackupInv, JobsTypeOK, Jobs, BackupPcs
    <2> QED
        BY <1>2, <1>3, <2>1, <2>2 DEF BackupInv, JobsTypeOK, Jobs, JobRow
<1>8. ArchiveIsNamed' /\ ManifestFollows'
    BY <1>3, <1>5, <1>6 DEF BackupInv, ArchiveIsNamed, ManifestFollows
<1>9. VerifiedStays'
    BY <1>2, <1>3, BackupSide
<1> QED
    BY <1>7, <1>8, <1>9 DEF BackupInv

(* The archive gets its name when no archive has it: until then no command   *)
(* had named one, and from now on this one has.                              *)
LEMMA LinkKeeps ==
    ASSUME BackupInv, NEW b \in Backups, _link_exclusive(b)
    PROVE  BackupInv'
<1>1. /\ job \in [Jobs -> JobRow] /\ b \in Jobs
      /\ ~job[b].made /\ job[b].dump # 0 /\ job[b].dump \in Nat
    BY DEF BackupInv, JobsTypeOK, Jobs, JobRow, _link_exclusive
<1>2. /\ manifest' = manifest /\ report' = report /\ scratch' = scratch /\ content' = content
    BY DEF _link_exclusive
<1>3. CASE archive = 0
    <2> DEFINE r == [job[b] EXCEPT !.pc = "open", !.made = TRUE]
    <2>1. r \in JobRow /\ r.pc = "open" /\ r.dump = job[b].dump /\ r.made = TRUE
        BY <1>1 DEF JobRow, BackupPcs
    <2>2. job' = [job EXCEPT ![b] = r] /\ archive' = job[b].dump
        BY <1>3 DEF _link_exclusive
    <2> HIDE DEF r
    <2>3. /\ job' \in [Jobs -> JobRow] /\ job'[b] = r
          /\ \A i \in Jobs : i # b => job'[i] = job[i]
        BY <1>1, <2>1, <2>2
    <2>4. \A c \in Backups : ~Named(c)
        BY <1>3 DEF BackupInv, ArchiveIsNamed
    <2>5. \A c \in Backups : Named(c)' <=> c = b
        BY <2>1, <2>3, <2>4 DEF Named, Jobs
    <2>6. JobsTypeOK'
        <3>1. \A v \in Verifiers : job'[v] = job[v]
            BY <2>3, BackupAssumption DEF BackupAssumption, Jobs
        <3>2. \A c \in Backups :
                 /\ job'[c].pc \in BackupPcs
                 /\ job'[c].pc \in {"start", "dump", "link"} => ~job'[c].made
                 /\ job'[c].pc \in {"open", "write", "done"} => job'[c].made
                 /\ job'[c].pc = "link" => job'[c].dump # 0
            BY <2>1, <2>3 DEF BackupInv, JobsTypeOK, Jobs, BackupPcs
        <3> QED
            BY <1>1, <1>2, <2>2, <2>3, <3>1, <3>2 DEF BackupInv, JobsTypeOK, Jobs, JobRow
    <2>7. ArchiveIsNamed'
        BY <1>1, <2>1, <2>2, <2>3, <2>5 DEF ArchiveIsNamed, Jobs
    <2>8. manifest = NoFile
        BY <1>3 DEF BackupInv, ManifestFollows
    <2>9. ManifestFollows'
        BY <1>1, <1>2, <2>1, <2>2, <2>3, <2>5, <2>8 DEF ManifestFollows, Jobs
    <2>10. VerifiedStays'
        BY <1>2, <1>3, <2>3, BackupSide
    <2> QED
        BY <2>6, <2>7, <2>9, <2>10 DEF BackupInv
<1>4. CASE archive # 0
    <2>1. Goto(b, "undo") /\ archive' = archive
        BY <1>4 DEF _link_exclusive
    <2>2. /\ job' \in [Jobs -> JobRow] /\ job'[b].pc = "undo" /\ job'[b].made = job[b].made
          /\ \A i \in Jobs : i # b => job'[i] = job[i]
        BY <1>1, <2>1, GotoFacts DEF BackupPcs
    <2>3. \A c \in Backups : (Named(c)' <=> Named(c)) /\ (Named(c) => job'[c] = job[c])
        BY <1>1, <2>2 DEF Named, Jobs
    <2>4. JobsTypeOK'
        <3>1. \A v \in Verifiers : job'[v] = job[v]
            BY <2>2, BackupAssumption DEF BackupAssumption, Jobs
        <3>2. \A c \in Backups :
                 /\ job'[c].pc \in BackupPcs
                 /\ job'[c].pc \in {"start", "dump", "link"} => ~job'[c].made
                 /\ job'[c].pc \in {"open", "write", "done"} => job'[c].made
                 /\ job'[c].pc = "link" => job'[c].dump # 0
            BY <2>2 DEF BackupInv, JobsTypeOK, Jobs, BackupPcs
        <3> QED
            BY <1>1, <1>2, <2>1, <2>2, <3>1, <3>2 DEF BackupInv, JobsTypeOK, Jobs, JobRow
    <2>5. ArchiveIsNamed' /\ ManifestFollows'
        BY <1>2, <2>1, <2>3 DEF BackupInv, ArchiveIsNamed, ManifestFollows
    <2>6. VerifiedStays'
        BY <1>2, <2>1, <2>2, BackupSide
    <2> QED
        BY <2>4, <2>5, <2>6 DEF BackupInv
<1> QED
    BY <1>3, <1>4

(* The steps of a command after its dump: it stays the one that named the    *)
(* archive, or it gives the name up together with the archive.               *)
LEMMA FinishKeeps ==
    ASSUME BackupInv, NEW b \in Backups,
           CreateManifest(b) \/ WriteManifest(b) \/ UndoBackup(b) \/ Crash(b)
    PROVE  BackupInv'
<1>1. job \in [Jobs -> JobRow] /\ b \in Jobs
    BY DEF BackupInv, JobsTypeOK, Jobs, JobRow
<1>2. PICK p \in {"undo", "write", "done", "failed", "dead"} : Goto(b, p)
    BY DEF CreateManifest, WriteManifest, UndoBackup, Crash
<1>3. /\ job' \in [Jobs -> JobRow] /\ job'[b].pc = p /\ job'[b].made = job[b].made
      /\ job'[b].dump = job[b].dump /\ \A i \in Jobs : i # b => job'[i] = job[i]
    <2>1. p \in BackupPcs \cup VerifyPcs
        BY DEF BackupPcs
    <2> QED
        BY <1>1, <1>2, <2>1, GotoFacts
<1>4. /\ report' = report /\ scratch' = scratch /\ content' = content
      /\ job[b].pc \in BackupPcs \ Ended
    BY DEF CreateManifest, WriteManifest, UndoBackup, Crash, files, BackupInv, JobsTypeOK, BackupPcs, Ended
<1>5. NoFile # Torn /\ NoFile.kind = "none" /\ \A a : Whole(a) # NoFile /\ Whole(a) # Torn
    BY DEF NoFile, Torn, Whole
<1>6. Named(b) => manifest # Whole(archive)
    BY <1>4, <1>5 DEF BackupInv, ManifestFollows, JobsTypeOK, BackupPcs, Ended, Named
<1>7. /\ archive' = IF job[b].made /\ p = "failed" THEN 0 ELSE archive
      /\ p = "failed" => job[b].pc = "undo"
    <2>1. ASSUME NEW q \in BackupPcs, Goto(b, q) PROVE p = q
        BY <1>1, <1>3, <2>1, GotoFacts
    <2>2. {"undo", "write", "done", "failed", "dead"} \subseteq BackupPcs
        BY DEF BackupPcs
    <2>3. CASE UndoBackup(b)
        BY <2>1, <2>2, <2>3 DEF UndoBackup
    <2>4. CASE CreateManifest(b) \/ WriteManifest(b) \/ Crash(b)
        BY <2>1, <2>2, <2>4 DEF CreateManifest, WriteManifest, Crash, files
    <2> QED
        BY <2>3, <2>4
<1>8. \/ manifest' = manifest /\ p \in {"failed", "dead"}
      \/ manifest' = manifest /\ p = "undo" /\ job[b].pc = "open"
      \/ /\ manifest' = Torn /\ p = "write" /\ job[b].pc = "open"
      \/ /\ job[b].pc = "write" /\ manifest' = Whole(job[b].dump) /\ p = "done"
      \/ /\ job[b].pc = "write" /\ manifest' = NoFile /\ p = "undo"
    <2>1. ASSUME NEW q \in BackupPcs, Goto(b, q) PROVE p = q
        BY <1>1, <1>3, <2>1, GotoFacts
    <2>2. {"undo", "write", "done", "failed", "dead"} \subseteq BackupPcs
        BY DEF BackupPcs
    <2> QED
        BY <2>1, <2>2 DEF CreateManifest, WriteManifest, UndoBackup, Crash, files
<1>9. /\ Named(b) <=> job[b].made
      /\ job[b].pc \in {"open", "write"} => job[b].made
      /\ Named(b) => archive # 0 /\ archive = job[b].dump
    BY <1>4 DEF BackupInv, JobsTypeOK, ArchiveIsNamed, Named, Ended
<1>10. \A c \in Backups : /\ c # b => job'[c] = job[c] /\ (Named(c)' <=> Named(c))
                          /\ Named(b) /\ Named(c) => c = b
    BY <1>3 DEF Named, Jobs, BackupInv, ArchiveIsNamed
<1>11. Named(b)' <=> Named(b) /\ p # "failed"
    BY <1>3, <1>9 DEF Named
<1>12. JobsTypeOK'
    <2>1. \A v \in Verifiers : job'[v] = job[v]
        BY <1>3, BackupAssumption DEF BackupAssumption, Jobs
    <2>2. /\ p \in BackupPcs /\ p \notin {"start", "dump", "link", "open"}
          /\ p \in {"write", "done"} => job[b].made
        BY <1>8, <1>9 DEF BackupPcs
    <2>3. \A c \in Backups :
             /\ job'[c].pc \in BackupPcs
             /\ job'[c].pc \in {"start", "dump", "link"} => ~job'[c].made
             /\ job'[c].pc \in {"open", "write", "done"} => job'[c].made
             /\ job'[c].pc = "link" => job'[c].dump # 0
        BY <1>3, <1>10, <2>2 DEF BackupInv, JobsTypeOK
    <2>4. archive' \in Nat
        BY <1>7 DEF BackupInv, JobsTypeOK
    <2> QED
        BY <1>3, <1>4, <2>1, <2>3, <2>4 DEF BackupInv, JobsTypeOK, Jobs, JobRow
<1>13. ArchiveIsNamed'
    <2>1. CASE job[b].made /\ p = "failed"
        <3>1. \A c \in Backups : ~Named(c)'
            BY <1>9, <1>10, <1>11, <2>1
        <3> QED
            BY <1>7, <2>1, <3>1 DEF ArchiveIsNamed
    <2>2. CASE ~(job[b].made /\ p = "failed")
        <3>1. \A c \in Backups : (Named(c)' <=> Named(c)) /\ job'[c].dump = job[c].dump
            BY <1>3, <1>9, <1>10, <1>11, <2>2
        <3> QED
            BY <1>7, <2>2, <3>1 DEF BackupInv, ArchiveIsNamed
    <2> QED
        BY <2>1, <2>2
<1>14. ManifestFollows'
    <2>1. CASE Named(b)
        <3>1. /\ job[b].pc \in {"open", "undo"} => manifest = NoFile
              /\ job[b].pc = "write" => manifest = Torn
            BY <2>1 DEF BackupInv, ManifestFollows
        <3>2. job[b].pc \in {"open", "undo", "write"}
            BY <1>4, <1>9, <2>1 DEF BackupInv, JobsTypeOK, BackupPcs, Ended
        <3>3. archive' = 0 => manifest' = NoFile
            BY <1>7, <1>8, <1>9, <2>1, <3>1
        <3>4. \A c \in Backups : Named(c)' => c = b
            BY <1>10, <1>11, <2>1
        <3>5. Named(b)' => /\ p \in {"open", "undo"} => manifest' = NoFile
                           /\ p = "write" => manifest' = Torn
                           /\ p = "dead" => manifest' \in {NoFile, Torn}
                           /\ p = "done" => manifest' = Whole(archive')
            BY <1>7, <1>8, <1>9, <1>11, <3>1, <3>2
        <3> QED
            BY <1>3, <3>3, <3>4, <3>5 DEF ManifestFollows
    <2>2. CASE ~Named(b)
        <3>1. manifest' = manifest /\ archive' = archive
            BY <1>7, <1>8, <1>9, <2>2
        <3>2. \A c \in Backups : Named(c)' => Named(c) /\ job'[c] = job[c]
            BY <1>10, <1>11, <2>2
        <3> QED
            BY <3>1, <3>2 DEF BackupInv, ManifestFollows
    <2> QED
        BY <2>1, <2>2
<1>15. VerifiedStays'
    <2>1. archive # 0 /\ manifest = Whole(archive) => archive' = archive /\ manifest' = manifest
        BY <1>6, <1>7, <1>8, <1>9
    <2> QED
        BY <1>3, <1>4, <2>1, BackupSide
<1> QED
    BY <1>12, <1>13, <1>14, <1>15 DEF BackupInv

(* What a step of one verification has to show: where its own row, its own   *)
(* temporary database and the report go.                                     *)
LEMMA VerificationKept ==
    ASSUME BackupInv, NEW v \in Verifiers,
           job' \in [Jobs -> JobRow], \A i \in Jobs : i # v => job'[i] = job[i],
           job'[v].pc \in VerifyPcs, scratch' \in [Verifiers -> Nat],
           \A u \in Verifiers : u # v => scratch'[u] = scratch[u],
           content' = content, archive' = archive, manifest' = manifest,
           \/ report' = report \/ report' \in {NoFile, Torn}
           \/ report' = Whole(archive) /\ Verifying(v),
           Verifying(v)' => archive # 0 /\ manifest = Whole(archive) /\ job'[v].expected = archive,
           job'[v].pc \in {"start", "create", "open", "write", "done", "failed"} => scratch'[v] = 0
    PROVE  BackupInv'
<1>1. JobsTypeOK' /\ ArchiveIsNamed' /\ ManifestFollows'
    BY VerifySide
<1>2. \A u \in Verifiers : u # v => job'[u] = job[u]
    BY DEF Jobs
<1>3. \A u \in Verifiers : Verifying(u)' =>
         archive' # 0 /\ manifest' = Whole(archive') /\ job'[u].expected = archive'
    BY <1>2 DEF BackupInv, VerifiedStays, Verifying
<1>4. \A u \in Verifiers :
         job'[u].pc \in {"start", "create", "open", "write", "done", "failed"} => scratch'[u] = 0
    BY <1>2 DEF BackupInv, VerifiedStays
<1>5. NoFile.kind # "whole" /\ Torn.kind # "whole"
    BY DEF NoFile, Torn
<1>6. report' \in {NoFile, Torn, Whole(archive')}
      /\ (report'.kind = "whole" => archive' # 0 /\ manifest' = Whole(archive'))
    BY <1>5 DEF BackupInv, VerifiedStays
<1>7. VerifiedStays'
    BY <1>3, <1>4, <1>6 DEF VerifiedStays
<1> QED
    BY <1>1, <1>7 DEF BackupInv

(* The steps that read the backup, restore it and compare the copy.          *)
LEMMA RestoreKeeps ==
    ASSUME BackupInv, NEW v \in Verifiers,
           ReadBackup(v) \/ _create_database(v) \/ Compare(v)
    PROVE  BackupInv'
<1>1. /\ job \in [Jobs -> JobRow] /\ v \in Jobs /\ archive \in Nat
      /\ scratch \in [Verifiers -> Nat]
    BY DEF BackupInv, JobsTypeOK, Jobs, JobRow
<1>2. /\ content' = content /\ archive' = archive /\ manifest' = manifest /\ report' = report
    BY DEF ReadBackup, _create_database, Compare, files
<1>3. ASSUME NEW p \in VerifyPcs, Goto(v, p)
      PROVE  /\ job' \in [Jobs -> JobRow] /\ \A i \in Jobs : i # v => job'[i] = job[i]
             /\ job'[v].pc = p /\ job'[v].expected = job[v].expected
    BY <1>1, <1>3, GotoFacts
<1>4. {"create", "compare", "drop", "cleanup", "failed", "create_failed"} \subseteq VerifyPcs
    BY DEF VerifyPcs
<1>5. CASE ReadBackup(v)
    <2>1. scratch' = scratch /\ job[v].pc = "start" /\ archive # 0
        BY <1>5 DEF ReadBackup, files
    <2>2. scratch[v] = 0
        BY <2>1 DEF BackupInv, VerifiedStays
    <2>3. CASE Goto(v, "failed")
        <3>1. ~Verifying(v)'
            BY <1>3, <1>4, <2>3 DEF Verifying
        <3> QED
            BY <1>1, <1>2, <1>3, <1>4, <2>1, <2>2, <2>3, <3>1, VerificationKept
    <2>4. CASE /\ manifest = Whole(archive)
               /\ job' = [job EXCEPT ![v].pc = "create", ![v].expected = manifest.of]
        <3> DEFINE r == [job[v] EXCEPT !.pc = "create", !.expected = manifest.of]
        <3>1. manifest.of = archive
            BY <2>4 DEF Whole
        <3>2. r \in JobRow /\ r.pc = "create" /\ r.expected = archive
            BY <1>1, <3>1 DEF JobRow, VerifyPcs
        <3>3. job' = [job EXCEPT ![v] = r]
            BY <2>4
        <3> HIDE DEF r
        <3>4. /\ job' \in [Jobs -> JobRow] /\ \A i \in Jobs : i # v => job'[i] = job[i]
              /\ job'[v].pc = "create" /\ job'[v].expected = archive
            BY <1>1, <3>2, <3>3
        <3> QED
            BY <1>1, <1>2, <1>4, <2>1, <2>2, <2>4, <3>4, VerificationKept
    <2> QED
        BY <1>5, <2>3, <2>4 DEF ReadBackup
<1>6. CASE _create_database(v)
    <2>1. /\ job[v].pc = "create" /\ archive # 0 /\ manifest = Whole(archive)
          /\ job[v].expected = archive
        BY <1>6 DEF _create_database, BackupInv, VerifiedStays, Verifying
    <2>2. /\ scratch' \in [Verifiers -> Nat]
          /\ \A u \in Verifiers : u # v => scratch'[u] = scratch[u]
        BY <1>1, <1>6 DEF _create_database
    <2>3. CASE Goto(v, "create_failed")
        <3>1. ~Verifying(v)'
            BY <1>3, <1>4, <2>3 DEF Verifying
        <3> QED
            BY <1>1, <1>2, <1>3, <1>4, <2>2, <2>3, <3>1, VerificationKept
    <2>4. CASE job' = [job EXCEPT ![v].pc = "compare", ![v].made = TRUE]
        <3> DEFINE r == [job[v] EXCEPT !.pc = "compare", !.made = TRUE]
        <3>1. r \in JobRow /\ r.pc = "compare" /\ r.expected = archive
            BY <1>1, <2>1 DEF JobRow, VerifyPcs
        <3>2. job' = [job EXCEPT ![v] = r]
            BY <2>4
        <3> HIDE DEF r
        <3>3. /\ job' \in [Jobs -> JobRow] /\ \A i \in Jobs : i # v => job'[i] = job[i]
              /\ job'[v].pc = "compare" /\ job'[v].expected = archive
            BY <1>1, <3>1, <3>2
        <3> QED
            BY <1>1, <1>2, <1>4, <2>1, <2>2, <3>3, VerificationKept
    <2> QED
        BY <1>6, <2>3, <2>4 DEF _create_database
<1>7. CASE Compare(v)
    <2>1. /\ job[v].pc = "compare" /\ archive # 0 /\ manifest = Whole(archive)
          /\ job[v].expected = archive /\ scratch' = scratch
        BY <1>7 DEF Compare, files, BackupInv, VerifiedStays, Verifying
    <2>2. PICK p \in {"drop", "cleanup"} : Goto(v, p)
        BY <1>7 DEF Compare
    <2>3. p \in VerifyPcs
        BY <1>4
    <2> QED
        BY <1>1, <1>2, <1>3, <2>1, <2>2, <2>3, VerificationKept
<1> QED
    BY <1>5, <1>6, <1>7

(* The steps that drop the copy, write the report, clean up or die.          *)
LEMMA ReportKeeps ==
    ASSUME BackupInv, NEW v \in Verifiers,
           _drop_database(v) \/ CreateReport(v) \/ WriteReport(v) \/ Cleanup(v) \/ Crash(v)
    PROVE  BackupInv'
<1>1. /\ job \in [Jobs -> JobRow] /\ v \in Jobs /\ archive \in Nat
      /\ scratch \in [Verifiers -> Nat]
    BY DEF BackupInv, JobsTypeOK, Jobs, JobRow
<1>2. /\ content' = content /\ archive' = archive /\ manifest' = manifest
    BY DEF _drop_database, CreateReport, WriteReport, Cleanup, Crash, files
<1>3. ASSUME NEW p \in VerifyPcs, Goto(v, p)
      PROVE  /\ job' \in [Jobs -> JobRow] /\ \A i \in Jobs : i # v => job'[i] = job[i]
             /\ job'[v].pc = p /\ job'[v].expected = job[v].expected
    BY <1>1, <1>3, GotoFacts
<1>4. {"open", "write", "cleanup", "done", "failed", "cleanup_failed", "dead"} \subseteq VerifyPcs
    BY DEF VerifyPcs
<1>5. /\ scratch' \in [Verifiers -> Nat]
      /\ \A u \in Verifiers : u # v => scratch'[u] = scratch[u]
    BY <1>1 DEF _drop_database, CreateReport, WriteReport, Cleanup, Crash, files
<1>6. Verifying(v) => archive # 0 /\ manifest = Whole(archive) /\ job[v].expected = archive
    BY DEF BackupInv, VerifiedStays
<1>7. CASE _drop_database(v)
    <2>1. Verifying(v) /\ report' = report
        BY <1>7 DEF _drop_database, Verifying
    <2>2. CASE Goto(v, "cleanup")
        BY <1>1, <1>2, <1>3, <1>4, <1>5, <1>6, <2>1, <2>2, VerificationKept
    <2>3. CASE /\ scratch' = [scratch EXCEPT ![v] = 0]
               /\ job' = [job EXCEPT ![v].pc = "open", ![v].made = FALSE]
        <3> DEFINE r == [job[v] EXCEPT !.pc = "open", !.made = FALSE]
        <3>1. r \in JobRow /\ r.pc = "open" /\ r.expected = job[v].expected
            BY <1>1 DEF JobRow, VerifyPcs
        <3>2. job' = [job EXCEPT ![v] = r]
            BY <2>3
        <3> HIDE DEF r
        <3>3. /\ job' \in [Jobs -> JobRow] /\ \A i \in Jobs : i # v => job'[i] = job[i]
              /\ job'[v].pc = "open" /\ job'[v].expected = job[v].expected
            BY <1>1, <3>1, <3>2
        <3>4. scratch'[v] = 0
            BY <1>1, <2>3
        <3> QED
            BY <1>1, <1>2, <1>4, <1>5, <1>6, <2>1, <3>3, <3>4, VerificationKept
    <2> QED
        BY <1>7, <2>2, <2>3 DEF _drop_database
<1>8. CASE CreateReport(v) \/ WriteReport(v)
    <2>1. Verifying(v) /\ scratch' = scratch /\ scratch[v] = 0
        BY <1>8 DEF CreateReport, WriteReport, Verifying, BackupInv, VerifiedStays
    <2>2. \/ report' = report \/ report' \in {NoFile, Torn}
          \/ report' = Whole(archive)
        BY <1>6, <1>8, <2>1 DEF CreateReport, WriteReport
    <2>3. PICK p \in {"write", "done", "failed"} : Goto(v, p)
        BY <1>8 DEF CreateReport, WriteReport
    <2>4. p \in VerifyPcs
        BY <1>4
    <2> QED
        BY <1>1, <1>2, <1>3, <1>5, <1>6, <2>1, <2>2, <2>3, <2>4, VerificationKept
<1>9. CASE Cleanup(v)
    <2>1. report' = report
        BY <1>9 DEF Cleanup
    <2>2. CASE Goto(v, "failed") /\ scratch' = [scratch EXCEPT ![v] = 0]
        <3>1. ~Verifying(v)' /\ scratch'[v] = 0
            BY <1>1, <1>3, <1>4, <2>2 DEF Verifying
        <3> QED
            BY <1>1, <1>2, <1>3, <1>4, <1>5, <2>1, <2>2, <3>1, VerificationKept
    <2>3. CASE Goto(v, "cleanup_failed")
        <3>1. ~Verifying(v)'
            BY <1>3, <1>4, <2>3 DEF Verifying
        <3> QED
            BY <1>1, <1>2, <1>3, <1>4, <1>5, <2>1, <2>3, <3>1, VerificationKept
    <2> QED
        BY <1>9, <2>2, <2>3 DEF Cleanup
<1>10. CASE Crash(v)
    <2>1. report' = report /\ Goto(v, "dead")
        BY <1>10 DEF Crash, files
    <2>2. ~Verifying(v)'
        BY <1>3, <1>4, <2>1 DEF Verifying
    <2> QED
        BY <1>1, <1>2, <1>3, <1>4, <1>5, <2>1, <2>2, VerificationKept
<1> QED
    BY <1>7, <1>8, <1>9, <1>10

(* BackupInv holds in every state, however many commands race for the paths  *)
(* of operations.py's backup and restore verification, fail or die.          *)
THEOREM BackupInvariant == BackupSpec => []BackupInv
<1>1. BackupInv /\ [BackupNext]_backupVars => BackupInv'
    <2> SUFFICES ASSUME BackupInv, [BackupNext]_backupVars PROVE BackupInv'
        OBVIOUS
    <2>1. CASE Write
        BY <2>1, WriteKeeps
    <2>2. ASSUME NEW b \in Backups, BackupStep(b) PROVE BackupInv'
        BY <2>2, PrepareKeeps, LinkKeeps, FinishKeeps DEF BackupStep
    <2>3. ASSUME NEW v \in Verifiers, VerifyStep(v) PROVE BackupInv'
        BY <2>3, RestoreKeeps, ReportKeeps DEF VerifyStep
    <2>4. CASE UNCHANGED backupVars
        BY <2>4 DEF backupVars, BackupInv, JobsTypeOK, ArchiveIsNamed, Named, ManifestFollows,
                    VerifiedStays, Verifying
    <2> QED
        BY <2>1, <2>2, <2>3, <2>4 DEF BackupNext
<1> QED
    BY <1>1, InitBackup, PTL DEF BackupSpec

(* A complete manifest describes the archive beside it, a complete report    *)
(* describes an archive that was restored and whose temporary database is    *)
(* gone, and a temporary database outlives only commands that died or said   *)
(* that it stayed.                                                           *)
THEOREM BackupsSafe == BackupSpec => []BackupSafe
<1>1. BackupInv => BackupSafe
    <2> SUFFICES ASSUME BackupInv PROVE BackupSafe
        OBVIOUS
    <2>1. NoFile.kind # "whole" /\ Torn.kind # "whole" /\ Whole(archive).of = archive
        BY DEF NoFile, Torn, Whole
    <2>2. ManifestDescribesArchive
        <3>1. SUFFICES ASSUME manifest.kind = "whole" PROVE archive = manifest.of
            BY DEF ManifestDescribesArchive
        <3>2. PICK b \in Backups : Named(b)
            BY <2>1, <3>1 DEF BackupInv, ManifestFollows, ArchiveIsNamed
        <3>3. job[b].pc \in {"open", "undo", "write", "dead", "done"}
            BY <3>2 DEF BackupInv, JobsTypeOK, BackupPcs, Named
        <3> QED
            BY <2>1, <3>1, <3>2, <3>3 DEF BackupInv, ManifestFollows
    <2>3. ReportIsTrue /\ NoScratchLeft
        BY <2>1 DEF BackupInv, VerifiedStays, ReportIsTrue, NoScratchLeft
    <2> QED
        BY <2>2, <2>3 DEF BackupSafe
<1> QED
    BY <1>1, BackupInvariant, PTL
=============================================================================
