---------------------------- MODULE ProbeMonitor ----------------------------
(***************************************************************************)
(* ProbeMonitoringWorker and its stores: a profile and a camera are read,  *)
(* the execution is permitted under row locks, the probe runs, and the     *)
(* result is recorded behind a fence together with the health projection.  *)
(* Several worker processes may exist; an advisory lock picks the one that *)
(* works, and may be lost at any time.                                     *)
(*                                                                         *)
(* gen stands for what _UPSERT_OBSERVATION compares with the tables: the   *)
(* camera's and the placement's revision and the endpoint generation.  A   *)
(* task is one lease of the scheduler (ProbeScheduler), which never grants *)
(* two for a camera and, as deployed, never retries one.                   *)
(*                                                                         *)
(* The definitions no action refers to are wrong variants of the           *)
(* definition that follows them.                                           *)
(***************************************************************************)
EXTENDS Integers

CONSTANTS
    Cameras, Workers,
    Nobody,
    Routine, Confirmation,   \* the intervals of the profile
    LeaseTime,               \* until the lease of a probe ends
    FreshTime,               \* how old a result may be when it is stored
    MaxTime, MaxGen, MaxRevision,    \* bounds
    MaxEvents                \* bound: sessions lost and nodes gone

VARIABLES
    camera,     \* generation of the target, and whether its node serves
    profile,    \* revision, enabled with spare sessions, last attempt
    lock,       \* the row locks of a camera: held by a worker's permit
    owner,      \* the holder of the advisory lock
    task,       \* what each worker is doing about each camera
    obs,        \* probe_observations
    health,     \* probe_health_states
    streak,     \* the outcomes recorded since the last different one
    events, now    \* bounded by MaxEvents and MaxTime

monitorVars == <<camera, profile, lock, owner, task, obs, health, streak, events, now>>
dbVars == <<camera, profile, lock, obs, health, streak>>

None == -1
Outcomes == {"healthy", "unhealthy", "inconclusive"}
NoTask == [at |-> "idle", rev |-> 0, gen |-> 0, started |-> 0, out |-> "none", done |-> 0]
NoObs == [gen |-> 0, rev |-> 0, out |-> "none", at |-> None]
Unknown(gen) == [gen |-> gen, state |-> "UNKNOWN", fails |-> 0, oks |-> 0, at |-> None]

MonitorInit ==
    /\ camera = [c \in Cameras |-> [gen |-> 1, serves |-> TRUE]]
    /\ profile = [c \in Cameras |-> [rev |-> 1, on |-> TRUE, last |-> None]]
    /\ lock = [c \in Cameras |-> Nobody]
    /\ owner = Nobody
    /\ task = [w \in Workers |-> [c \in Cameras |-> NoTask]]
    /\ obs = [c \in Cameras |-> NoObs]
    /\ health = [c \in Cameras |-> Unknown(1)]
    /\ streak = [c \in Cameras |-> [out |-> "none", first |-> 0]]
    /\ events = 0 /\ now = 0

-----------------------------------------------------------------------------
(* PostgresProbeWorkStore.acquire, and the loss of the session behind it.  *)
Acquire(w) ==
    /\ owner = Nobody
    /\ owner' = w
    /\ UNCHANGED <<dbVars, task, events, now>>

SessionLost ==
    /\ owner # Nobody /\ events < MaxEvents
    /\ owner' = Nobody
    /\ events' = events + 1
    /\ UNCHANGED <<dbVars, task, now>>

(* Changes of the catalogue lock the rows a permit holds.                  *)
UpdateCamera(c) ==
    /\ lock[c] = Nobody /\ camera[c].gen < MaxGen
    /\ camera' = [camera EXCEPT ![c].gen = @ + 1]
    /\ UNCHANGED <<profile, lock, owner, task, obs, health, streak, events, now>>

(* The endpoint generation is rotated with the profile.                    *)
update_camera_probe_profile(c) ==
    /\ lock[c] = Nobody /\ profile[c].rev < MaxRevision /\ camera[c].gen < MaxGen
    /\ profile' = [profile EXCEPT ![c] = [rev |-> @.rev + 1, on |-> ~@.on, last |-> None]]
    /\ camera' = [camera EXCEPT ![c].gen = @ + 1]
    /\ UNCHANGED <<lock, owner, task, obs, health, streak, events, now>>

(* Maintenance of the node: its row is locked in share mode by the permit. *)
NodeChanges(c) ==
    /\ lock[c] = Nobody
    /\ camera[c].serves => events < MaxEvents
    /\ events' = IF camera[c].serves THEN events + 1 ELSE events
    /\ camera' = [camera EXCEPT ![c].serves = ~@]
    /\ UNCHANGED <<profile, lock, owner, task, obs, health, streak, now>>

-----------------------------------------------------------------------------
(* _load_candidates reads the profiles first and the camera and its health *)
(* later; RoutineProbeCandidate.due_at decides whether it is submitted.    *)
Confirming(h) == h.state \in {"SUSPECT", "RECOVERING"}
HealthOf(c, gen) == IF health[c].gen = gen THEN health[c] ELSE Unknown(gen)

active_profiles(w, c) ==
    /\ owner = w /\ task[w][c].at = "idle"
    /\ profile[c].on /\ camera[c].serves
    /\ task' = [task EXCEPT ![w][c] = [NoTask EXCEPT !.at = "profile", !.rev = profile[c].rev,
                                                     !.done = profile[c].last]]
    /\ UNCHANGED <<dbVars, owner, events, now>>

Due(c, last) ==
    \/ last = None
    \/ now >= last + (IF Confirming(HealthOf(c, camera[c].gen)) THEN Confirmation ELSE Routine)

load_candidate(w, c) ==
    /\ task[w][c].at = "profile"
    /\ task' = [task EXCEPT ![w][c] =
                  IF camera[c].serves /\ Due(c, task[w][c].done)
                  THEN [@ EXCEPT !.at = "leased", !.gen = camera[c].gen, !.started = now]
                  ELSE NoTask]
    /\ UNCHANGED <<dbVars, owner, events, now>>

PermittedUnlocked(w, c) ==
    /\ owner = w
    /\ profile[c].on /\ profile[c].rev = task[w][c].rev
    /\ camera[c].serves /\ camera[c].gen = task[w][c].gen

(* execution_permit: the rows are locked unless somebody has them, and all *)
(* that was read must still be so; otherwise the lease is cancelled.       *)
Permitted(w, c) ==
    /\ owner = w
    /\ lock[c] = Nobody
    /\ profile[c].on /\ profile[c].rev = task[w][c].rev
    /\ camera[c].serves /\ camera[c].gen = task[w][c].gen

execution_permit(w, c) ==
    /\ task[w][c].at = "leased"
    /\ IF Permitted(w, c)
       THEN /\ lock' = [lock EXCEPT ![c] = w]
            /\ task' = [task EXCEPT ![w][c].at = "executing"]
       ELSE /\ task' = [task EXCEPT ![w][c] = NoTask]
            /\ UNCHANGED lock
    /\ UNCHANGED <<camera, profile, owner, obs, health, streak, events, now>>

(* The broker answers, or the client gives up; then the locks are gone.    *)
execute(w, c) ==
    /\ task[w][c].at = "executing"
    /\ \E out \in Outcomes :
         /\ now > task[w][c].started + LeaseTime => out = "inconclusive"
         /\ task' = [task EXCEPT ![w][c].at = "result", ![w][c].out = out, ![w][c].done = now]
    /\ lock' = [lock EXCEPT ![c] = Nobody]
    /\ UNCHANGED <<camera, profile, owner, obs, health, streak, events, now>>

(* ProbeHealthRecord.observe_deep.                                         *)
observe_deep(h, out, at) ==
    LET gap == IF h.at = None \/ at - h.at >= Confirmation THEN 1 ELSE 0
        capped(n) == IF n > 2 THEN 2 ELSE n
        fails == capped(h.fails + gap)
        oks == capped(h.oks + gap)
        sick == h.state \in {"UNHEALTHY", "RECOVERING"}
    IN  IF out = "inconclusive" THEN h
        ELSE IF out = "unhealthy"
        THEN [h EXCEPT !.state = IF sick \/ fails >= 2 THEN "UNHEALTHY" ELSE "SUSPECT",
                       !.fails = fails, !.oks = 0, !.at = at]
        ELSE [h EXCEPT !.state = IF sick /\ ~(h.state = "RECOVERING" /\ oks >= 2)
                                 THEN "RECOVERING" ELSE "HEALTHY",
                       !.fails = 0, !.at = at,
                       !.oks = IF sick \/ oks > 1 THEN oks ELSE 1]

(* record_if_current: the fence of _UPSERT_OBSERVATION, the newer result   *)
(* wins, and the health row advances in the same transaction.              *)
CurrentGeneration(c, t) ==
    /\ camera[c].gen = t.gen /\ camera[c].serves
    /\ now - t.done <= FreshTime

Current(c, t) ==
    /\ camera[c].gen = t.gen /\ camera[c].serves
    /\ now - t.done <= FreshTime
    /\ obs[c].at < t.done

Streak(c, t) ==
    IF t.out = "inconclusive" THEN streak[c]
    ELSE IF streak[c].out = t.out /\ health[c].gen = t.gen THEN streak[c]
    ELSE [out |-> t.out, first |-> t.done]

_advance_health(c, t) == observe_deep(HealthOf(c, t.gen), t.out, t.done)

record_if_current(w, c) ==
    LET t == task[w][c] IN
    /\ t.at = "result"
    /\ task' = [task EXCEPT ![w][c].at = "mark"]
    /\ IF /\ t.done <= t.started + LeaseTime     \* else complete has raised
          /\ Current(c, t)
       THEN /\ obs' = [obs EXCEPT ![c] = [gen |-> t.gen, rev |-> t.rev, out |-> t.out,
                                          at |-> t.done]]
            /\ health' = [health EXCEPT ![c] = _advance_health(c, t)]
            /\ streak' = [streak EXCEPT ![c] = Streak(c, t)]
       ELSE UNCHANGED <<obs, health, streak>>
    /\ UNCHANGED <<camera, profile, lock, owner, events, now>>

(* mark_attempt: only the owner, and only the revision it worked for.      *)
mark_attempt(w, c) ==
    /\ task[w][c].at = "mark"
    /\ task' = [task EXCEPT ![w][c] = NoTask]
    /\ profile' = [profile EXCEPT ![c].last =
                     IF owner = w /\ profile[c].rev = task[w][c].rev THEN now ELSE @]
    /\ UNCHANGED <<camera, lock, owner, obs, health, streak, events, now>>

Tick ==
    /\ now < MaxTime
    /\ now' = now + 1
    /\ UNCHANGED <<dbVars, owner, task, events>>

MonitorNext ==
    \/ \E w \in Workers : Acquire(w)
    \/ \E c \in Cameras : UpdateCamera(c) \/ update_camera_probe_profile(c) \/ NodeChanges(c)
    \/ \E w \in Workers, c \in Cameras :
         \/ active_profiles(w, c) \/ load_candidate(w, c) \/ execution_permit(w, c)
         \/ execute(w, c) \/ record_if_current(w, c) \/ mark_attempt(w, c)
    \/ SessionLost
    \/ Tick

MonitorSpec == MonitorInit /\ [][MonitorNext]_monitorVars

-----------------------------------------------------------------------------
Executing(w, c) == task[w][c].at = "executing"

(* execution_permit's promise: while a probe of a camera is executed, the  *)
(* profile that allows it, the camera it was read from and its serving     *)
(* node stay as they were, even after the worker lost its ownership.       *)
ProbeStaysPermitted ==
    \A w \in Workers, c \in Cameras : Executing(w, c) =>
        /\ profile[c].on /\ profile[c].rev = task[w][c].rev
        /\ camera[c].serves /\ camera[c].gen = task[w][c].gen

(* Two workers never execute a probe of one camera at the same time, also  *)
(* when the first lost the advisory lock in the middle of its execution.   *)
OneProbePerCamera ==
    \A c \in Cameras, w, v \in Workers : (Executing(w, c) /\ Executing(v, c)) => w = v

(* latest_for shows the observation of the current generation: it was      *)
(* classified by the profile in force, never by an earlier one whose row   *)
(* was read before the profile changed.                                    *)
ShownByCurrentProfile ==
    \A c \in Cameras : obs[c].gen = camera[c].gen => obs[c].rev = profile[c].rev

(* The projection never falls behind the row it is derived from, so        *)
(* observe_deep accepts every observation that passed the fence.           *)
HealthFollowsObservation ==
    \A c \in Cameras : (health[c].gen = obs[c].gen) => health[c].at <= obs[c].at

OutageStep ==
    \A c \in Cameras :
      /\ (health'[c].state = "UNHEALTHY" /\ health'[c].gen = health[c].gen
            /\ health[c].state \notin {"UNHEALTHY", "RECOVERING"}) =>
           obs'[c].at - streak'[c].first >= Confirmation
      /\ (health'[c].state = "HEALTHY" /\ health'[c].gen = health[c].gen
            /\ health[c].state \in {"UNHEALTHY", "RECOVERING"}) =>
           /\ health[c].state = "RECOVERING"
           /\ obs'[c].at - streak'[c].first >= Confirmation

(* "Two time-separated deep failures are required for UNHEALTHY; recovery  *)
(* uses RECOVERING before the second time-separated success": a step into  *)
(* UNHEALTHY from outside an outage, or from RECOVERING to HEALTHY, ends   *)
(* an unbroken run of that outcome at least the confirmation spacing long. *)
OutageIsConfirmed == [][OutageStep]_monitorVars
=============================================================================
