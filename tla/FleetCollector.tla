---------------------------- MODULE FleetCollector ----------------------------
(***************************************************************************)
(* FleetCollector of observability.py, run by the collector role: every    *)
(* cycle reads the node catalogue, lets a thread per node observe the      *)
(* runtime, report the incident and scrape the metrics, and publishes one  *)
(* snapshot of the fleet.  A thread that misses the deadline of its cycle  *)
(* runs on; the node is reported unavailable until the thread has ended.   *)
(*                                                                         *)
(* A thread reads the node's row, asks the root helper for the runtime     *)
(* state and writes the incident in three separate steps, while operators  *)
(* start and stop the node and its process fails.  The definitions no      *)
(* action refers to are wrong variants of the definition that follows them.*)
(***************************************************************************)
EXTENDS Incidents

CONSTANTS
    NoGen,      \* no process generation
    MaxGen,     \* bound: starts of a node's process
    MaxOutages  \* bound: failures of a node's process

VARIABLES
    desired,   \* media_nodes.state: should the node run?
    runtime,   \* what the helper observes of the process
    gen,       \* process generation: pid, start time, boot and release
    outages,   \* failures so far
    thread,    \* _collect_node of each node
    cycle,     \* run_once
    history,   \* _metric_history: generation of the last sample
    snapshot   \* fleet_snapshots, and what the running cycle has collected

fleetVars == <<desired, runtime, gen, outages>>
collectorVars == <<thread, cycle, history, snapshot>>
vars == <<incident, mail, accepted, worker, faults, desired, runtime, gen, outages,
          thread, cycle, history, snapshot>>

-----------------------------------------------------------------------------
(* late: the deadline of the thread's cycle has passed.  result: status, the *)
(* generation the sample belongs to and the generation it was compared with  *)
(* to compute a bit rate.                                                    *)
NoResult == [status |-> "none", gen |-> NoGen, base |-> NoGen]
Unavailable == [NoResult EXCEPT !.status = "unavailable"]
NoThread == [step |-> "none", want |-> "running", seen |-> "healthy", gen |-> NoGen,
             late |-> FALSE, result |-> NoResult]

Running(n) == thread[n].step \notin {"none", "done"}

CollectorInit ==
    /\ IncidentInit
    /\ desired = [n \in Nodes |-> "running"]
    /\ runtime = [n \in Nodes |-> "healthy"]
    /\ gen = [n \in Nodes |-> 1]
    /\ outages = 0
    /\ thread = [n \in Nodes |-> NoThread]
    /\ cycle = [active |-> FALSE, mine |-> {}]
    /\ history = [n \in Nodes |-> NoGen]
    /\ snapshot = [n \in Nodes |-> NoResult]

-----------------------------------------------------------------------------
(* run_once: a node whose earlier thread is still running gets none in this  *)
(* cycle.                                                                    *)
StartCycle ==
    /\ ~cycle.active
    /\ LET free == {n \in Nodes : ~Running(n)}
       IN  /\ cycle' = [active |-> TRUE, mine |-> free]
           /\ thread' = [n \in Nodes |-> IF n \in free THEN [NoThread EXCEPT !.step = "queued"]
                                                       ELSE thread[n]]
    /\ UNCHANGED <<incidentVars, fleetVars, history, snapshot>>

DeadlinePasses ==
    /\ cycle.active
    /\ \E n \in cycle.mine : ~thread[n].late
    /\ thread' = [n \in Nodes |-> IF n \in cycle.mine THEN [thread[n] EXCEPT !.late = TRUE]
                                                      ELSE thread[n]]
    /\ UNCHANGED <<incidentVars, fleetVars, cycle, history, snapshot>>

(* The cycle ends when its threads are done or its deadline has passed; an   *)
(* overdue thread that has not begun is cancelled.                           *)
EndCycle ==
    /\ cycle.active
    /\ \A n \in cycle.mine : thread[n].step = "done" \/ thread[n].late
    /\ cycle' = [active |-> FALSE, mine |-> {}]
    /\ thread' = [n \in Nodes |-> IF n \in cycle.mine /\ thread[n].step \in {"queued", "done"}
                                  THEN NoThread ELSE thread[n]]
    /\ snapshot' = [n \in Nodes |-> IF n \in cycle.mine /\ thread[n].step = "done"
                                    THEN thread[n].result ELSE Unavailable]
    /\ UNCHANGED <<incidentVars, fleetVars, history>>

-----------------------------------------------------------------------------
(* _collect_node                                                             *)
Done(n, result) ==
    thread' = [thread EXCEPT ![n] = [@ EXCEPT !.step = "done", !.result = result]]

ReadNode(n) ==
    /\ thread[n].step = "queued"
    /\ \/ thread[n].late /\ Done(n, Unavailable)
       \/ /\ ~thread[n].late
          /\ thread' = [thread EXCEPT ![n].step = "observe", ![n].want = desired[n]]
    /\ UNCHANGED <<incidentVars, fleetVars, cycle, history, snapshot>>

ObserveRuntime(n) ==
    /\ thread[n].step = "observe"
    /\ \/ Done(n, Unavailable)
       \/ thread' = [thread EXCEPT ![n].step = "report", ![n].seen = runtime[n],
                                   ![n].gen = gen[n]]
    /\ UNCHANGED <<incidentVars, fleetVars, cycle, history, snapshot>>

StoppedForIncident(t) == t.want = "running" /\ t.seen = "stopped"

(* _node_failed_for_incident and the recovery predicate of observe_incident  *)
FailedForIncident(t) == t.seen = "failed" \/ (t.want = "running" /\ t.seen = "stopped")

ReportIncident(n) ==
    /\ thread[n].step = "report"
    /\ \/ /\ thread[n].late
          /\ Done(n, Unavailable)
          /\ UNCHANGED <<incident, mail>>
       \/ /\ ~thread[n].late
          /\ collector_observe(n, FailedForIncident(thread[n]), thread[n].seen = "healthy")
          /\ thread' = [thread EXCEPT ![n].step = "scrape"]
    /\ UNCHANGED <<accepted, worker, faults, fleetVars, cycle, history, snapshot>>

(* The sample names the process it was taken from.  A failed scrape reports  *)
(* the last sample as stale.                                                 *)
Scrape(n) ==
    /\ thread[n].step = "scrape"
    /\ \/ /\ runtime[n] \in {"healthy", "degraded"}
          /\ IF gen[n] = thread[n].gen THEN thread' = [thread EXCEPT ![n].step = "record"]
                                       ELSE Done(n, Unavailable)
       \/ Done(n, IF history[n] = NoGen THEN Unavailable
                  ELSE [NoResult EXCEPT !.status = "stale", !.gen = history[n]])
    /\ UNCHANGED <<incidentVars, fleetVars, cycle, history, snapshot>>

(* reset: the process changed, or a path's counters shrank or the set of     *)
(* paths changed (_path_counters_reset).  gap: two intervals without sample. *)
RecordMetrics(n) ==
    /\ thread[n].step = "record"
    /\ \/ /\ thread[n].late
          /\ Done(n, Unavailable)
          /\ UNCHANGED history
       \/ /\ ~thread[n].late
          /\ history' = [history EXCEPT ![n] = thread[n].gen]
          /\ \E shrank, gap \in BOOLEAN :
                LET reset == history[n] # thread[n].gen \/ shrank
                IN  Done(n, [status |-> IF gap /\ history[n] # NoGen THEN "stale" ELSE "fresh",
                             gen |-> thread[n].gen,
                             base |-> IF history[n] = NoGen \/ reset \/ gap THEN NoGen
                                      ELSE history[n]])
    /\ UNCHANGED <<incidentVars, fleetVars, cycle, snapshot>>

Collect(n) == ReadNode(n) \/ ObserveRuntime(n) \/ ReportIncident(n) \/ Scrape(n)
                 \/ RecordMetrics(n)

-----------------------------------------------------------------------------
(* The fleet (external to the collector): NodeControl commits a request and  *)
(* then calls the helper; a process fails and its unit restarts it.          *)
RequestStop(n) ==
    /\ desired[n] = "running" /\ runtime[n] # "stopped"
    /\ desired' = [desired EXCEPT ![n] = "stopped"]
    /\ UNCHANGED <<incidentVars, collectorVars, runtime, gen, outages>>

HelperStops(n) ==
    /\ desired[n] = "stopped" /\ runtime[n] # "stopped"
    /\ runtime' = [runtime EXCEPT ![n] = "stopped"]
    /\ UNCHANGED <<incidentVars, collectorVars, desired, gen, outages>>

RequestStart(n) ==
    /\ desired[n] = "stopped" /\ runtime[n] = "stopped" /\ gen[n] < MaxGen
    /\ desired' = [desired EXCEPT ![n] = "running"]
    /\ UNCHANGED <<incidentVars, collectorVars, runtime, gen, outages>>

ProcessStarts(n) ==
    /\ desired[n] = "running" /\ runtime[n] \in {"failed", "stopped"} /\ gen[n] < MaxGen
    /\ runtime' = [runtime EXCEPT ![n] = "degraded"]
    /\ gen' = [gen EXCEPT ![n] = @ + 1]
    /\ UNCHANGED <<incidentVars, collectorVars, desired, outages>>

ProcessHealthy(n) ==
    /\ runtime[n] = "degraded"
    /\ runtime' = [runtime EXCEPT ![n] = "healthy"]
    /\ UNCHANGED <<incidentVars, collectorVars, desired, gen, outages>>

(* An exited unit is failed, or merely inactive.                             *)
ProcessExits(n) ==
    /\ runtime[n] \in {"healthy", "degraded"} /\ desired[n] = "running"
    /\ outages < MaxOutages
    /\ outages' = outages + 1
    /\ \E s \in {"failed", "stopped"} : runtime' = [runtime EXCEPT ![n] = s]
    /\ UNCHANGED <<incidentVars, collectorVars, desired, gen>>

Fleet(n) == RequestStop(n) \/ HelperStops(n) \/ RequestStart(n) \/ ProcessStarts(n)
               \/ ProcessHealthy(n) \/ ProcessExits(n)

-----------------------------------------------------------------------------
CollectorStep ==
    \/ StartCycle \/ DeadlinePasses \/ EndCycle
    \/ \E n \in Nodes : Collect(n) \/ Fleet(n)

CollectorNext == CollectorStep \/ (MailNext /\ UNCHANGED <<fleetVars, collectorVars>>)

CollectorSpec == CollectorInit /\ [][CollectorNext]_vars

CollectorFairness ==
    /\ WF_vars(StartCycle) /\ WF_vars(EndCycle \/ DeadlinePasses)
    /\ \A n \in Nodes : WF_vars(Collect(n))

-----------------------------------------------------------------------------
(* A bit rate is published only from two samples of one process: a restart   *)
(* between row, observation and scrape, or between two cycles, never gives   *)
(* a rate across processes (_collect_node, generation check and reset).      *)
RateOfOneProcess ==
    \A n \in Nodes : snapshot[n].base # NoGen => snapshot[n].base = snapshot[n].gen

Failed(n) == runtime[n] = "failed"
Observed(n) == thread[n].step = "scrape"
Reported(n) == Latest(n) = "open" \/ Len(incident[n]) = MaxIncidents

(* A failure that lasts is reported, however many cycles miss their deadline *)
(* before: as long as observations go on succeeding the node's incident is   *)
(* opened (up to the bound on incidents).                                    *)
OutageReported == \A n \in Nodes : (<>[]Failed(n) /\ []<>Observed(n)) => []<>Reported(n)
=============================================================================
