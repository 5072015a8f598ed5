--------------------------- MODULE ProbeExecution ---------------------------
(***************************************************************************)
(* The privileged probe broker: ProbeBrokerService (admission, one thread  *)
(* per connection), ProbeExecutionBroker (the order in which a probe's     *)
(* unit, guard and channels are acquired and given back) and               *)
(* SystemdProbeManager (the unit's record).  The system manager, the       *)
(* kernel and the client are the environment: a call to them succeeds,     *)
(* fails, or fails after it took effect.  The steps inside one guard       *)
(* installation are in ProbeGuard; here a guard is absent, partial or      *)
(* enforced.                                                               *)
(*                                                                         *)
(* A thread is named after the request it serves.  The definitions no      *)
(* action refers to are wrong variants of the definition that follows      *)
(* them.                                                                   *)
(***************************************************************************)
EXTENDS FiniteSets, Naturals

CONSTANTS
    Requests,        \* request identifiers, each used once
    Target(_),       \* the destination of a request
    Nobody,          \* no thread, no record
    MaxFaults        \* bound: failed calls and crashes in a behaviour

VARIABLES
    conn,      \* the client of a request: has not come, waits, or left
    thr,       \* the thread that serves a request
    own,       \* _ExecutionOwnership: the record and its four slots
    unit,      \* the transient unit and the manager's record of it
    guard,     \* the connect guard and whether its record is pending
    service,   \* the broker process
    faults

execVars == <<conn, thr, own, unit, guard, service, faults>>

NoThread == [at |-> "idle", on |-> Nobody, todo |-> {}, open |-> FALSE, out |-> FALSE]
NoOwner == [state |-> "none", systemd |-> FALSE, guard |-> FALSE,
            channels |-> FALSE, input |-> FALSE]
NoUnit == [state |-> "none", record |-> "none"]
NoGuard == [state |-> "absent", record |-> "none"]
NewProcess == [up |-> TRUE, ready |-> FALSE, failed |-> FALSE, stopping |-> FALSE,
               targets |-> {}, sweeper |-> Nobody]

ExecInit ==
    /\ conn = [r \in Requests |-> "away"]
    /\ thr = [r \in Requests |-> NoThread]
    /\ own = [r \in Requests |-> NoOwner]
    /\ unit = [r \in Requests |-> NoUnit]
    /\ guard = [r \in Requests |-> NoGuard]
    /\ service = NewProcess
    /\ faults = 0

Goto(r, step) == thr' = [thr EXCEPT ![r].at = step]
Fault == faults < MaxFaults /\ faults' = faults + 1
AdmissionOpen == ~service.failed /\ ~service.stopping

-----------------------------------------------------------------------------
(* The client and the units run by themselves.                             *)

(* UnixProbeBrokerClient.execute: one connection, one request.             *)
ClientConnects(r) ==
    /\ conn[r] = "away" /\ service.up /\ service.ready /\ AdmissionOpen
    /\ conn' = [conn EXCEPT ![r] = "waiting"]
    /\ Goto(r, "admit")
    /\ UNCHANGED <<own, unit, guard, service, faults>>

ClientLeaves(r) ==
    /\ conn[r] = "waiting"
    /\ Fault
    /\ conn' = [conn EXCEPT ![r] = "left"]
    /\ UNCHANGED <<thr, own, unit, guard, service>>

(* The launcher leaves when its gate closes unopened, the probe when it is *)
(* done, and the unit's run time is limited.                               *)
UnitEnds(r) ==
    /\ unit[r].state # "none"
    /\ unit' = [unit EXCEPT ![r].state = "none"]
    /\ UNCHANGED <<conn, thr, own, guard, service, faults>>

-----------------------------------------------------------------------------
(* serve_connection and ProbeExecutionBroker.execute.                      *)

(* The admission lock: closed, stopping and busy destinations are refused. *)
Admit(r) ==
    /\ thr[r].at = "admit"
    /\ IF AdmissionOpen /\ Target(r) \notin service.targets
       THEN /\ service' = [service EXCEPT !.targets = @ \cup {Target(r)}]
            /\ thr' = [thr EXCEPT ![r].at = "claim"]
       ELSE thr' = [thr EXCEPT ![r].at = "refused"] /\ UNCHANGED service
    /\ UNCHANGED <<conn, own, unit, guard, faults>>

(* The answer to a request that was not admitted.                          *)
Refuse(r) ==
    /\ thr[r].at = "refused"
    /\ Goto(r, "done")
    /\ conn' = [conn EXCEPT ![r] = IF @ = "waiting" THEN "inconclusive" ELSE @]
    /\ UNCHANGED <<own, unit, guard, service, faults>>

Claim(r) ==
    /\ thr[r].at = "claim"
    /\ own' = [own EXCEPT ![r] = [NoOwner EXCEPT !.state = "executing", !.input = TRUE]]
    /\ Goto(r, "channels")
    /\ UNCHANGED <<conn, unit, guard, service, faults>>

(* _request_cancelled: the client left, or admission was closed.           *)
Cancelled(r) == ~AdmissionOpen \/ conn[r] # "waiting"

(* The end of the execution proper: the record turns to cleaning.          *)
Cleaning(r) ==
    /\ own' = [own EXCEPT ![r].state = "cleaning"]
    /\ thr' = [thr EXCEPT ![r].at = "collect", ![r].on = r]

(* A step that fails, runs out of time or finds the request cancelled.     *)
Abandon(r) ==
    /\ thr[r].at \in {"channels", "start", "cgroup", "guard", "gate"}
    /\ \/ Fault
       \/ /\ Cancelled(r) \/ (thr[r].at = "cgroup" /\ unit[r].state = "none")
          /\ faults' = faults
    /\ Cleaning(r)
    /\ UNCHANGED <<conn, unit, guard, service>>

OpenChannels(r) ==
    /\ thr[r].at = "channels" /\ ~Cancelled(r)
    /\ own' = [own EXCEPT ![r].channels = TRUE]
    /\ Goto(r, "start")
    /\ UNCHANGED <<conn, unit, guard, service, faults>>

(* SystemdProbeManager._start: the reservation, and the call's outcome.    *)
StartUnit(r) ==
    /\ thr[r].at = "start" /\ ~Cancelled(r)
    /\ unit' = [unit EXCEPT ![r] = [state |-> "gated", record |-> "active"]]
    /\ own' = [own EXCEPT ![r].systemd = TRUE]
    /\ Goto(r, "cgroup")
    /\ UNCHANGED <<conn, guard, service, faults>>

(* _recover_reserved_start: the reply was lost or refused, the unit may or *)
(* may not exist, and the recovery is tried once; the lease is never       *)
(* published.                                                              *)
StartFails(r) ==
    /\ thr[r].at = "start" /\ ~Cancelled(r)
    /\ Fault
    /\ \/ UNCHANGED unit
       \/ \E state \in {"none", "gated"} :
            unit' = [unit EXCEPT ![r] = [state |-> state, record |-> "cleanup_pending"]]
    /\ Cleaning(r)
    /\ UNCHANGED <<conn, guard, service>>

ResolveCgroup(r) ==
    /\ thr[r].at = "cgroup" /\ ~Cancelled(r) /\ unit[r].state # "none"
    /\ Goto(r, "guard")
    /\ UNCHANGED <<conn, own, unit, guard, service, faults>>

(* install_owned either publishes an enforced guard, or removes what it    *)
(* installed, or leaves a pending record nobody holds a lease of.          *)
InstallGuard(r) ==
    /\ thr[r].at = "guard" /\ ~Cancelled(r)
    /\ guard' = [guard EXCEPT ![r] = [state |-> "enforced", record |-> "active"]]
    /\ own' = [own EXCEPT ![r].guard = TRUE]
    /\ Goto(r, "gate")
    /\ UNCHANGED <<conn, unit, service, faults>>

InstallFails(r) ==
    /\ thr[r].at = "guard" /\ ~Cancelled(r)
    /\ Fault
    /\ guard' = [guard EXCEPT ![r] = [state |-> "partial", record |-> "cleanup_pending"]]
    /\ Cleaning(r)
    /\ UNCHANGED <<conn, unit, service>>

(* The unit may have ended while its guard was being installed.            *)
ReleaseGate(r) ==
    /\ thr[r].at = "gate" /\ ~Cancelled(r)
    /\ unit' = [unit EXCEPT ![r].state = IF @ = "gated" THEN "running" ELSE @]
    /\ Goto(r, "output")
    /\ UNCHANGED <<conn, own, guard, service, faults>>

(* SystemdProbeManager.read_output: the output, or the end of waiting for  *)
(* it, and the collection of the unit in the same call.                    *)
ReadOutput(r) ==
    /\ thr[r].at = "output"
    /\ \/ /\ unit[r].state = "none" /\ faults' = faults      \* the pipe closed
          /\ \E decoded \in BOOLEAN :
               thr' = [thr EXCEPT ![r].at = "collect", ![r].on = r, ![r].out = decoded]
          /\ unit' = [unit EXCEPT ![r] = NoUnit]
          /\ own' = [own EXCEPT ![r].systemd = FALSE, ![r].state = "cleaning"]
       \/ /\ (Cancelled(r) /\ faults' = faults) \/ Fault     \* stop waiting
          /\ unit' = [unit EXCEPT ![r] = NoUnit]
          /\ own' = [own EXCEPT ![r].systemd = FALSE, ![r].state = "cleaning"]
          /\ thr' = [thr EXCEPT ![r].at = "collect", ![r].on = r]
       \/ /\ Fault                                           \* not collected
          /\ unit' = [unit EXCEPT ![r].record = "cleanup_pending"]
          /\ Cleaning(r)
    /\ UNCHANGED <<conn, guard, service>>

-----------------------------------------------------------------------------
(* _cleanup_ownership, by the thread that executed or by one that sweeps:  *)
(* the unit before the guard, the guard before the channels, and nothing   *)
(* after a resource that is still held.                                    *)

CollectOrRelease(t) ==
    /\ thr[t].at = "collect"
    /\ LET q == thr[t].on IN
       \/ /\ unit' = [unit EXCEPT ![q] = IF own[q].systemd THEN NoUnit ELSE @]
          /\ own' = [own EXCEPT ![q].systemd = FALSE]
          /\ UNCHANGED faults
       \/ /\ own[q].systemd /\ Fault
          /\ unit' = [unit EXCEPT ![q].record = "cleanup_pending"]
          /\ UNCHANGED own
    /\ Goto(t, "release")
    /\ UNCHANGED <<conn, guard, service>>

(* SystemdProbeManager.ensure_collected.                                   *)
Collect(t) ==
    /\ thr[t].at = "collect"
    /\ LET q == thr[t].on IN
       \/ /\ ~own[q].systemd
          /\ Goto(t, "release")
          /\ UNCHANGED <<own, unit, faults>>
       \/ /\ own[q].systemd
          /\ unit' = [unit EXCEPT ![q] = NoUnit]
          /\ own' = [own EXCEPT ![q].systemd = FALSE]
          /\ Goto(t, "release")
          /\ UNCHANGED faults
       \/ /\ own[q].systemd /\ Fault
          /\ unit' = [unit EXCEPT ![q].record = "cleanup_pending"]
          /\ Goto(t, "finalize")
          /\ UNCHANGED own
    /\ UNCHANGED <<conn, guard, service>>

(* ProbeConnectGuardManager.ensure_released.                               *)
ReleaseGuard(t) ==
    /\ thr[t].at = "release"
    /\ LET q == thr[t].on IN
       \/ /\ ~own[q].guard
          /\ Goto(t, "close")
          /\ UNCHANGED <<own, guard, faults>>
       \/ /\ own[q].guard
          /\ guard' = [guard EXCEPT ![q] = NoGuard]
          /\ own' = [own EXCEPT ![q].guard = FALSE]
          /\ Goto(t, "close")
          /\ UNCHANGED faults
       \/ /\ own[q].guard /\ Fault
          /\ guard' = [guard EXCEPT ![q] = [state |-> "partial",
                                            record |-> "cleanup_pending"]]
          /\ Goto(t, "finalize")
          /\ UNCHANGED own
    /\ UNCHANGED <<conn, unit, service>>

CloseChannels(t) ==
    /\ thr[t].at = "close"
    /\ \/ own' = [own EXCEPT ![thr[t].on].channels = FALSE, ![thr[t].on].input = FALSE]
          /\ UNCHANGED faults
       \/ Fault /\ UNCHANGED own
    /\ Goto(t, "finalize")
    /\ UNCHANGED <<conn, unit, guard, service>>

Collected(o) == ~o.systemd /\ ~o.guard /\ ~o.channels /\ ~o.input

(* _finalize_ownership, under the active lock.                             *)
Finalized(o) == IF Collected(o) THEN NoOwner ELSE [o EXCEPT !.state = "cleanup_pending"]

Finalize(t) ==
    /\ thr[t].at = "finalize"
    /\ own' = [own EXCEPT ![thr[t].on] = Finalized(@)]
    /\ thr' = [thr EXCEPT ![t].on = Nobody,
                          ![t].at = IF service.sweeper = t THEN "sweep" ELSE "respond",
                          ![t].out = @ /\ Collected(own[thr[t].on])]
    /\ UNCHANGED <<conn, unit, guard, service, faults>>

(* The response, when the client still waits and the deadline allows it.   *)
Respond(t) ==
    /\ thr[t].at = "respond"
    /\ conn' = [conn EXCEPT ![t] = IF @ # "waiting" THEN @
                                   ELSE IF thr[t].out THEN "decoded" ELSE "inconclusive"]
    /\ Goto(t, "check")
    /\ UNCHANGED <<own, unit, guard, service, faults>>

Unresolved == {q \in Requests : own[q].state = "cleanup_pending"}

(* retry_pending_cleanup when another thread is sweeping: only the count.  *)
CountPending(t) ==
    /\ thr[t].at = "check" /\ service.sweeper # Nobody
    /\ thr' = [thr EXCEPT ![t].at = "publish", ![t].open = Unresolved # {}]
    /\ UNCHANGED <<conn, own, unit, guard, service, faults>>

(* Otherwise the sweep of the records that are not executing.              *)
BeginSweep(t) ==
    /\ thr[t].at = "check" /\ service.sweeper = Nobody
    /\ service' = [service EXCEPT !.sweeper = t]
    /\ thr' = [thr EXCEPT ![t].at = "sweep",
                          ![t].todo = {q \in Requests :
                                         own[q].state \in {"cleaning", "cleanup_pending"}}]
    /\ UNCHANGED <<conn, own, unit, guard, faults>>

(* The operation lock of a record, held by whoever works on it.            *)
Locked(q) == \E t \in Requests : thr[t].on = q

SweepOne(t) ==
    /\ thr[t].at = "sweep"
    /\ \E q \in thr[t].todo :
         IF ~Locked(q) /\ own[q].state \in {"cleaning", "cleanup_pending"}
         THEN /\ own' = [own EXCEPT ![q].state = "cleaning"]
              /\ thr' = [thr EXCEPT ![t].at = "collect", ![t].on = q,
                                    ![t].todo = @ \ {q}]
         ELSE /\ thr' = [thr EXCEPT ![t].todo = @ \ {q}]
              /\ UNCHANGED own
    /\ UNCHANGED <<conn, unit, guard, service, faults>>

EndSweep(t) ==
    /\ thr[t].at = "sweep" /\ thr[t].todo = {}
    /\ service' = [service EXCEPT !.sweeper = Nobody]
    /\ thr' = [thr EXCEPT ![t].at = "publish", ![t].open = Unresolved # {}]
    /\ UNCHANGED <<conn, own, unit, guard, faults>>

(* _publish_cleanup_failure, and only then the destination is given up.    *)
Publish(t) ==
    /\ thr[t].at = "publish"
    /\ service' = [service EXCEPT !.failed = @ \/ thr[t].open]
    /\ Goto(t, "discard")
    /\ UNCHANGED <<conn, own, unit, guard, faults>>

Discard(t) ==
    /\ thr[t].at = "discard"
    /\ service' = [service EXCEPT !.targets = @ \ {Target(t)}]
    /\ Goto(t, "done")
    /\ UNCHANGED <<conn, own, unit, guard, faults>>

-----------------------------------------------------------------------------
(* The process: shutdown, death, and startup recovery.                     *)

RequestShutdown ==
    /\ service.up /\ service.ready /\ ~service.stopping
    /\ service' = [service EXCEPT !.stopping = TRUE]
    /\ UNCHANGED <<conn, thr, own, unit, guard, faults>>

Lost == [r \in Requests |-> IF conn[r] = "waiting" THEN "inconclusive" ELSE conn[r]]

(* What a process takes with it.                                           *)
Gone ==
    /\ service' = [NewProcess EXCEPT !.up = FALSE]
    /\ conn' = Lost
    /\ thr' = [r \in Requests |-> NoThread]
    /\ own' = [r \in Requests |-> NoOwner]
    /\ unit' = [r \in Requests |-> [unit[r] EXCEPT !.record = "none"]]
    /\ guard' = [r \in Requests |-> [guard[r] EXCEPT !.record = "none"]]

Killed == service.up /\ Fault /\ Gone

(* serve_forever leaves its loop when admission closes, joins the workers  *)
(* and exits.                                                              *)
Exit ==
    /\ service.up /\ service.ready /\ ~AdmissionOpen
    /\ \A r \in Requests : thr[r].at \in {"idle", "done"}
    /\ Gone
    /\ UNCHANGED faults

Restart ==
    /\ ~service.up
    /\ service' = NewProcess
    /\ UNCHANGED <<conn, thr, own, unit, guard, faults>>

(* reconcile_startup: every unit is stopped and seen gone first.           *)
RecoverUnit(r) ==
    /\ service.up /\ ~service.ready /\ unit[r].state # "none"
    /\ unit' = [unit EXCEPT ![r] = NoUnit]
    /\ UNCHANGED <<conn, thr, own, guard, service, faults>>

RecoverGuards ==
    /\ service.up /\ ~service.ready
    /\ \A r \in Requests : unit[r].state = "none"
    /\ guard' = [r \in Requests |-> NoGuard]
    /\ service' = [service EXCEPT !.ready = TRUE]
    /\ UNCHANGED <<conn, thr, own, unit, faults>>

-----------------------------------------------------------------------------
Serve(r) ==
    \/ Admit(r) \/ Refuse(r) \/ Claim(r) \/ OpenChannels(r) \/ StartUnit(r)
    \/ ResolveCgroup(r) \/ InstallGuard(r) \/ ReleaseGate(r) \/ ReadOutput(r)
    \/ Abandon(r) \/ StartFails(r) \/ InstallFails(r)
    \/ Collect(r) \/ ReleaseGuard(r) \/ CloseChannels(r) \/ Finalize(r)
    \/ Respond(r) \/ CountPending(r) \/ BeginSweep(r) \/ SweepOne(r) \/ EndSweep(r)
    \/ Publish(r) \/ Discard(r)

Startup == Restart \/ RecoverGuards \/ \E r \in Requests : RecoverUnit(r)

ExecNext ==
    \/ \E r \in Requests : ClientConnects(r) \/ ClientLeaves(r) \/ UnitEnds(r) \/ Serve(r)
    \/ RequestShutdown \/ Exit \/ Killed \/ Startup

ExecSpec == ExecInit /\ [][ExecNext]_execVars

(* Threads run, calls return, the service manager restarts the broker, and *)
(* a unit ends within its run time.                                        *)
ExecFairness ==
    /\ \A r \in Requests : WF_execVars(Serve(r)) /\ WF_execVars(UnitEnds(r))
    /\ WF_execVars(Startup) /\ WF_execVars(Exit)

FairExecSpec == ExecSpec /\ ExecFairness

-----------------------------------------------------------------------------
(* Properties.                                                             *)

(* A probe that may connect is confined for as long as it lives, through   *)
(* failed cleanups, sweeps by other threads and a killed broker: the guard *)
(* is enforced before the gate opens and removed after the unit is gone.   *)
GuardOutlivesProbe ==
    \A r \in Requests : unit[r].state = "running" => guard[r].state = "enforced"

(* While the broker serves, every unit there is has a record: a unit of a  *)
(* dead process is collected before service, and none is forgotten.        *)
UnitsAreRecorded ==
    service.ready => \A r \in Requests : unit[r].state # "none" => unit[r].record # "none"

(* A decoded result is only answered for a probe whose unit, guard and     *)
(* descriptors were all given back.                                        *)
DecodedMeansCollected ==
    \A r \in Requests : conn[r] = "decoded" =>
        /\ unit[r] = NoUnit /\ guard[r] = NoGuard /\ own[r] = NoOwner

(* When no thread is at work, whatever the coordinator could not give back *)
(* has closed admission.                                                   *)
IdleMeansCollectedOrClosed ==
    (\A r \in Requests : thr[r].at \in {"idle", "done"}) =>
        service.failed \/ \A r \in Requests : own[r] = NoOwner

(* ADR 0004: the broker keeps the destination of a probe until the probe   *)
(* is gone, so a second one is not opened while the first is alive.        *)
OneProbePerDestination ==
    \A r, q \in Requests :
        (r # q /\ unit[r].state = "running" /\ unit[q].state = "running") =>
            Target(r) # Target(q)

(* A shutdown, which a stalled probe or a cleanup that fails may not hold  *)
(* up.                                                                     *)
Stopping == service.up /\ service.stopping
=============================================================================
