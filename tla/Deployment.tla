------------------------------ MODULE Deployment ------------------------------
(***************************************************************************)
(* rtsp-proxy-deploy (deploy.py): staging a release bundle, installing     *)
(* the host's assets and the media runtime, and activating a release with  *)
(* its health check and automatic rollback.  A command holds the           *)
(* deployment lock for its whole run and a second one fails at the lock,   *)
(* so one command runs at a time; it can die between any two of its steps, *)
(* and the kernel then drops the lock.  Beside it the operator starts and  *)
(* stops the application's units, and migrates the database forward.       *)
(*                                                                         *)
(* A unit's ExecStart goes through the `current` link, so a unit that      *)
(* starts runs the release the link names at that moment.  A media         *)
(* environment file names a binary by path: <<"media", id>> in the         *)
(* content-addressed media directory, or <<"release", r>> inside a release *)
(* of the older layout.                                                    *)
(*                                                                         *)
(* The definitions no action refers to are wrong variants of the           *)
(* definition that follows them.                                           *)
(***************************************************************************)
EXTENDS Naturals, FiniteSets

CONSTANTS
    Releases,       \* the release ids
    Builds,         \* the bundles that may carry a release id: their manifests
    MediaOf,        \* [Releases -> media release id] of the manifest
    DigestOf,       \* [Releases -> digest of the MediaMTX binary]
    Window,         \* [Releases -> <<minimum, maximum>>] of schema_compatibility
    Units,          \* _RESTARTABLE_APPLICATION_UNITS
    Environments,   \* node-runtime.env and each node's runtime.env
    Assets,         \* the unit, sysusers and tmpfiles files of install_assets
    None,
    MaxRevision,    \* bound: the last database revision
    MaxCommands,    \* bound: how many commands are run
    MaxUnitChanges  \* bound: starts and stops by the operator

VARIABLES
    installed,      \* [Releases -> Builds \cup {None}]: complete release directories
    media,          \* [media release id -> digest]: /opt/rtsp-proxy/media
    env,            \* [Environments -> path]: the binary a media process is given
    assets,         \* [Assets -> Releases \cup {None}]
    link,           \* the release /opt/rtsp-proxy/current names
    receipt,        \* the deployment receipt
    units,          \* [Units -> Releases \cup {None}]: what an active unit runs
    db,             \* the database's revision
    job,            \* the command that holds the deployment lock
    budget          \* commands and unit changes left

vars == <<installed, media, env, assets, link, receipt, units, db, job, budget>>
hostVars == <<installed, media, env, assets>>

MediaIds == {MediaOf[r] : r \in Releases}
NoReceipt == [current |-> None, previous |-> None, revision |-> 0]
NoJob == [pc |-> "idle", command |-> "status", release |-> None, build |-> None,
          todo |-> {}, revision |-> 0, previous |-> None, units |-> {}, outcome |-> "none"]

\* The digest of the binary a path leads to.
Digest(path, media_) ==
    IF path[1] = "media" THEN media_[path[2]] ELSE DigestOf[path[2]]

\* The first release is installed in the older layout, where the media
\* environments name the binary inside the release directory. Builds are only
\* compared with each other, so any one of them will do.
DeploymentInit ==
    /\ \E r \in Releases :
        /\ installed = [q \in Releases |->
                           IF q = r THEN CHOOSE b \in Builds : TRUE ELSE None]
        /\ env = [e \in Environments |-> <<"release", r>>]
        /\ \/ link = r /\ units \in [Units -> {r, None}]
           \/ link = None /\ units = [u \in Units |-> None]
    /\ media = [m \in MediaIds |-> None]
    /\ assets = [a \in Assets |-> None]
    /\ receipt = NoReceipt
    /\ db \in 1 .. MaxRevision
    /\ job = NoJob
    /\ budget = [commands |-> MaxCommands, units |-> MaxUnitChanges]

Goto(pc) == job' = [job EXCEPT !.pc = pc]
End(outcome) == job' = [job EXCEPT !.pc = "idle", !.outcome = outcome]

\* _schema_compatible: minimum <= revision <= maximum.
_schema_compatible(r, revision) ==
    Window[r][1] <= revision /\ revision <= Window[r][2]

-----------------------------------------------------------------------------
\* One command at a time: the lock goes with the process.
_deployment_lock == job.pc = "idle"

\* A release directory that is there is complete: it appears by one rename.
verify_release(r) == installed[r] # None

\* main takes the lock and dispatches: stage, install and update begin with
\* the bundle, install-assets with the assets, activate and rollback with the
\* release's verification.
main(command, r, b) ==
    /\ _deployment_lock /\ budget.commands > 0
    /\ budget' = [budget EXCEPT !.commands = @ - 1]
    /\ job' = [NoJob EXCEPT
                !.pc = CASE command \in {"stage", "install", "update"} -> "stage"
                         [] command = "install-assets" -> "media"
                         [] command = "activate" -> "verify",
                !.command = command, !.release = r, !.build = b]
    /\ UNCHANGED <<hostVars, link, receipt, units, db>>

\* stage: a release directory that exists must verify and carry the same
\* manifest; otherwise the bundle is built in a staging directory that is
\* verified and renamed into place in one step, or removed.
stage ==
    /\ job.pc = "stage"
    /\ \/ /\ installed[job.release] \in {None, job.build}
          /\ installed' = [installed EXCEPT ![job.release] = job.build]
          /\ IF job.command = "stage" THEN End("staged") ELSE Goto("media")
       \/ End("failed") /\ UNCHANGED installed
    /\ UNCHANGED <<media, env, assets, link, receipt, units, db, budget>>

\* _install_media_runtime, after install_assets verified the release and the
\* checkout: the directory of a media release is created once, by rename; one
\* that exists must hold the digest the manifest names.
_install_media_runtime ==
    LET id == MediaOf[job.release]
        digest == DigestOf[job.release] IN
    /\ job.pc = "media"
    /\ \/ /\ verify_release(job.release)
          /\ media[id] \in {None, digest}
          /\ media' = [media EXCEPT ![id] = digest]
          /\ job' = [job EXCEPT !.pc = "env", !.todo = Environments]
       \/ End("failed") /\ UNCHANGED media
    /\ UNCHANGED <<installed, env, assets, link, receipt, units, db, budget>>

\* _rewrite_media_environment for one file: a file that already names the
\* media directory's binary is left, and so is one whose binary has another
\* digest; otherwise the path is replaced.  A file may also be refused.
_rewrite_media_environment(e) ==
    LET target == <<"media", MediaOf[job.release]>> IN
    /\ job.pc = "env" /\ e \in job.todo
    /\ \/ /\ env' = IF Digest(env[e], media) = DigestOf[job.release]
                    THEN [env EXCEPT ![e] = target] ELSE env
          /\ job' = [job EXCEPT !.todo = @ \ {e}]
       \/ End("failed") /\ UNCHANGED env
    /\ UNCHANGED <<installed, media, assets, link, receipt, units, db, budget>>

\* The rest of install_assets: the files one by one, each by rename, then
\* systemd-sysusers, systemd-tmpfiles and daemon-reload.
BeginAssets ==
    /\ job.pc = "env" /\ job.todo = {}
    /\ job' = [job EXCEPT !.pc = "assets", !.todo = Assets]
    /\ UNCHANGED <<hostVars, link, receipt, units, db, budget>>

_install_file(a) ==
    /\ job.pc = "assets" /\ a \in job.todo
    /\ \/ /\ assets' = [assets EXCEPT ![a] = job.release]
          /\ job' = [job EXCEPT !.todo = @ \ {a}]
       \/ End("failed") /\ UNCHANGED assets
    /\ UNCHANGED <<installed, media, env, link, receipt, units, db, budget>>

EndAssets ==
    /\ job.pc = "assets" /\ job.todo = {}
    /\ \/ IF job.command = "update" THEN Goto("verify") ELSE End("installed")
       \/ End("failed")
    /\ UNCHANGED <<hostVars, link, receipt, units, db, budget>>

-----------------------------------------------------------------------------
\* _activate up to the schema gate: verify, read the revision, compare.
SchemaGate ==
    /\ job.pc = "verify"
    /\ \/ /\ verify_release(job.release)
          /\ _schema_compatible(job.release, db)
          /\ job' = [job EXCEPT !.pc = "look", !.revision = db]
       \/ End("failed")
    /\ UNCHANGED <<hostVars, link, receipt, units, db, budget>>

\* The previous release and the active units, read before the switch.
Look ==
    /\ job.pc = "look"
    /\ job' = [job EXCEPT !.pc = "switch", !.previous = link,
                          !.units = {u \in Units : units[u] # None}]
    /\ UNCHANGED <<hostVars, link, receipt, units, db, budget>>

\* _switch: a new symlink renamed over `current`.
_switch ==
    /\ job.pc = "switch"
    /\ link' = job.release
    /\ Goto("restart")
    /\ UNCHANGED <<hostVars, receipt, units, db, budget>>

\* systemctl restart of the units seen active: each comes up on the linked
\* release or stays down, in which case the command fails.
Restarted(up) == units' = [u \in Units |-> IF u \in up THEN link
                                           ELSE IF u \in job.units THEN None ELSE units[u]]

restart_units ==
    /\ job.pc = "restart"
    /\ \E up \in SUBSET job.units :
        /\ Restarted(up)
        /\ Goto(IF up # job.units THEN "recover"
                ELSE IF job.units = {} THEN "receipt" ELSE "health")
    /\ UNCHANGED <<hostVars, link, receipt, db, budget>>

\* _await_health: ready within the attempts, or not.
_await_health ==
    /\ job.pc = "health"
    /\ Goto("receipt") \/ Goto("recover")
    /\ UNCHANGED <<hostVars, link, receipt, units, db, budget>>

RecoverLinkOnly ==
    /\ job.pc = "recover"
    /\ IF job.previous # None /\ _schema_compatible(job.previous, job.revision)
       THEN link' = job.previous /\ End("rolled_back")
       ELSE End("failed") /\ UNCHANGED link
    /\ UNCHANGED <<hostVars, receipt, units, db, budget>>

\* The except clause of _activate: back to the previous release if there is
\* one and its window holds the revision that was read; otherwise the error
\* leaves the new release linked.
Recover ==
    /\ job.pc = "recover"
    /\ IF job.previous # None /\ _schema_compatible(job.previous, job.revision)
       THEN link' = job.previous /\ Goto("back")
       ELSE End("failed") /\ UNCHANGED link
    /\ UNCHANGED <<hostVars, receipt, units, db, budget>>

RestartBack ==
    /\ job.pc = "back"
    /\ \E up \in SUBSET job.units :
        /\ Restarted(up)
        /\ End(IF up = job.units THEN "rolled_back" ELSE "failed")
    /\ UNCHANGED <<hostVars, link, receipt, db, budget>>

_write_receipt ==
    /\ job.pc = "receipt"
    /\ \/ /\ receipt' = [current |-> job.release, previous |-> job.previous,
                         revision |-> job.revision]
          /\ End("activated")
       \/ End("failed") /\ UNCHANGED receipt
    /\ UNCHANGED <<hostVars, link, units, db, budget>>

-----------------------------------------------------------------------------
\* The process dies and the lock goes with it; what it did stays.
Crash ==
    /\ job.pc # "idle"
    /\ End("crashed")
    /\ UNCHANGED <<hostVars, link, receipt, units, db, budget>>

\* rtsp-proxy-migrate: forward only.
upgrade_database ==
    /\ db < MaxRevision /\ db' = db + 1
    /\ UNCHANGED <<hostVars, link, receipt, units, job, budget>>

\* The operator starts or stops a unit; a unit that starts runs `current`.
OperatorUnit(u) ==
    /\ budget.units > 0
    /\ budget' = [budget EXCEPT !.units = @ - 1]
    /\ \/ units[u] = None /\ link # None /\ units' = [units EXCEPT ![u] = link]
       \/ units[u] # None /\ units' = [units EXCEPT ![u] = None]
    /\ UNCHANGED <<hostVars, link, receipt, db, job>>

DeploymentNext ==
    \/ \E r \in Releases, b \in Builds,
          c \in {"stage", "install", "update", "install-assets", "activate"} : main(c, r, b)
    \/ stage
    \/ _install_media_runtime
    \/ \E e \in Environments : _rewrite_media_environment(e)
    \/ BeginAssets
    \/ \E a \in Assets : _install_file(a)
    \/ EndAssets
    \/ SchemaGate
    \/ Look
    \/ _switch
    \/ restart_units
    \/ _await_health
    \/ Recover
    \/ RestartBack
    \/ _write_receipt
    \/ Crash
    \/ upgrade_database
    \/ \E u \in Units : OperatorUnit(u)

DeploymentSpec == DeploymentInit /\ [][DeploymentNext]_vars

-----------------------------------------------------------------------------
\* Whatever a command dies in the middle of, `current` names a complete
\* release directory, and an active unit runs one: a release becomes visible
\* only by the rename that ends stage, and _switch follows a verification.
RunsCompleteRelease ==
    /\ link # None => installed[link] # None
    /\ \A u \in Units : units[u] # None => installed[units[u]] # None

\* A command that reports success or a rollback leaves the units it saw
\* active on the linked release, or stopped since: the requested release and
\* its receipt after an activation, the earlier one after a rollback.
ReportedReleaseRuns ==
    job.pc = "idle" /\ job.outcome \in {"activated", "rolled_back"} =>
        /\ link = IF job.outcome = "activated" THEN job.release ELSE job.previous
        /\ job.outcome = "activated" => receipt.current = link
        /\ \A u \in job.units : units[u] \in {link, None}

\* An update activates the build it was given: a release id already on the
\* host with another manifest is refused by stage.
UpdateActivatesItsBundle ==
    job.command = "update" /\ job.pc \notin {"idle", "stage"}
        => installed[job.release] = job.build

MediaBinaryStep ==
    \A e \in Environments : Digest(env[e], media) = Digest(env'[e], media')

\* No deployment command changes which MediaMTX binary a media process is
\* given: environment files move to the media directory only when the digest
\* stays the same, and the media directory's content is never replaced.
MediaBinaryKept == [][MediaBinaryStep]_vars

LinkStep ==
    link' # link => _schema_compatible(link', job.revision)

\* The link only moves to a release whose window holds the revision the same
\* command read, in the rollback too.
LinkWithinSchemaWindow == [][LinkStep]_vars
=============================================================================
