----------------------------- MODULE ProbeUnits -----------------------------
(***************************************************************************)
(* SystemdProbeManager: the records it keeps of the transient units it     *)
(* asked for, and the hand-over of a unit's lease to the caller's          *)
(* ownership ledger.  A call to the system manager or to the ledger        *)
(* succeeds, fails, or is interrupted after it took effect.                *)
(*                                                                         *)
(* A start is named after the request that makes it; the record it         *)
(* registers, the lease it publishes and the thread that later cleans up   *)
(* are named after the start.  ProbeExecution models the caller; here it   *)
(* only cleans up what it owns.  The definitions no action refers to are   *)
(* wrong variants of the definition that follows them.                     *)
(***************************************************************************)
EXTENDS FiniteSets, Naturals, SequencesExt

CONSTANTS
    Starts,          \* calls of start_owned
    UnitOf(_),       \* the unit name of a start, taken from its request
    Nobody,          \* no record, no thread
    Sweeper,         \* the thread inside retry_pending_cleanup
    RetryBatch,      \* _PROBE_CLEANUP_RETRY_MAX_UNITS
    MaxFaults        \* bound: failed and interrupted calls in a behaviour

VARIABLES
    table,     \* _units: the record registered under a unit name
    record,    \* _UnitRecord of a start
    order,     \* records by cleanup_attempt_order, the earliest first
    exists,    \* the unit is loaded in the system manager
    slot,      \* the caller's ownership ledger
    step,      \* where a start's thread is
    sweep,     \* the sweep: its step, its batch and the record it works on
    faults

unitVars == <<table, record, order, exists, slot, step, sweep, faults>>

Units == {UnitOf(s) : s \in Starts}
Threads == Starts \cup {Sweeper}

NewRecord == [state |-> "starting", may |-> FALSE, lease |-> FALSE,
              ledger |-> FALSE, lock |-> Nobody]

UnitsInit ==
    /\ table = [u \in Units |-> Nobody]
    /\ record = [s \in Starts |-> NewRecord]
    /\ order = <<>>
    /\ exists = [u \in Units |-> FALSE]
    /\ slot = [s \in Starts |-> "empty"]
    /\ step = [s \in Starts |-> "new"]
    /\ sweep = [at |-> "idle", batch |-> <<>>, on |-> Nobody]
    /\ faults = 0

Registered(s) == table[UnitOf(s)] = s
Fault == faults < MaxFaults /\ faults' = faults + 1
Goto(s, at) == step' = [step EXCEPT ![s] = at]

-----------------------------------------------------------------------------
(* _mark_cleanup_pending_locked: the record goes to the back of the order  *)
(* in which sweeps take pending units.                                     *)
_mark_cleanup_pending_locked(s) ==
    /\ record' = [record EXCEPT ![s].state = "cleanup_pending"]
    /\ order' = Append(Remove(order, s), s)

(* _remove_record and the deletions made under the units lock.             *)
_remove_record(s) ==
    /\ Registered(s)
    /\ table' = [table EXCEPT ![UnitOf(s)] = Nobody]
    /\ order' = Remove(order, s)

(* transport.recover stops the unit and waits until it is unloaded; a      *)
(* failed or interrupted recovery may have done so.                        *)
_attempt_recovery(u, collected) ==
    \/ /\ collected
       /\ exists' = [exists EXCEPT ![u] = FALSE]
       /\ UNCHANGED faults
    \/ /\ ~collected /\ Fault
       /\ \E e \in {exists[u], FALSE} : exists' = [exists EXCEPT ![u] = e]

FinishRemovesAlways(s, collected, retain) ==
    IF collected /\ retain
    THEN record' = [record EXCEPT ![s].state = "collected"] /\ UNCHANGED <<table, order>>
    ELSE _remove_record(s) /\ UNCHANGED record

(* _finish_recovery: a collected unit's record is kept while the caller's  *)
(* ledger still has to let go of the lease.                                *)
_finish_recovery(s, collected, retain) ==
    IF collected /\ retain
    THEN record' = [record EXCEPT ![s].state = "collected"] /\ UNCHANGED <<table, order>>
    ELSE IF collected
    THEN _remove_record(s) /\ UNCHANGED record
    ELSE _mark_cleanup_pending_locked(s) /\ UNCHANGED table

(* _release_operation: whatever way an operation ends, a registered record *)
(* it leaves behind is either settled or pending.                          *)
_release_operation(s, keep) ==
    LET state == record[s].state
        unsettled == state \in {"starting", "cleaning"} \/ (state = "active" /\ ~keep)
    IN  IF Registered(s) /\ state = "starting" /\ ~record[s].may
        THEN /\ _remove_record(s)
             /\ record' = [record EXCEPT ![s].lock = Nobody]
        ELSE IF Registered(s) /\ unsettled
        THEN /\ record' = [record EXCEPT ![s].lock = Nobody, ![s].state = "cleanup_pending"]
             /\ order' = Append(Remove(order, s), s)
             /\ UNCHANGED table
        ELSE record' = [record EXCEPT ![s].lock = Nobody] /\ UNCHANGED <<table, order>>

-----------------------------------------------------------------------------
(* Starting a unit.                                                        *)

(* _start: the record is locked before it is registered; a name that is    *)
(* already registered refuses the start.                                   *)
_start(s) ==
    /\ step[s] = "new"
    /\ record' = [record EXCEPT ![s].lock = s]
    /\ \/ /\ table[UnitOf(s)] = Nobody
          /\ table' = [table EXCEPT ![UnitOf(s)] = s] /\ Goto(s, "call")
       \/ /\ table[UnitOf(s)] # Nobody
          /\ Goto(s, "unwind") /\ UNCHANGED table
    /\ UNCHANGED <<order, exists, slot, sweep, faults>>

(* An interruption between the registration and the call.                  *)
InterruptedBeforeCall(s) ==
    /\ step[s] = "call"
    /\ Fault
    /\ Goto(s, "unwind")
    /\ UNCHANGED <<table, record, order, exists, slot, sweep>>

(* _start_reserved, the call accepted: a valid reply makes the record      *)
(* active and gives it its lease.                                          *)
CallAccepted(s) ==
    /\ step[s] = "call"
    /\ exists' = [exists EXCEPT ![UnitOf(s)] = TRUE]
    /\ record' = [record EXCEPT ![s].may = TRUE, ![s].lease = TRUE, ![s].ledger = TRUE,
                                ![s].state = "active"]
    /\ Goto(s, "publish")
    /\ UNCHANGED <<table, order, slot, sweep, faults>>

(* _start_reserved, a definite rejection: nothing was created.             *)
CallRejected(s) ==
    /\ step[s] = "call"
    /\ Fault
    /\ record' = [record EXCEPT ![s].may = TRUE]
    /\ _remove_record(s)
    /\ Goto(s, "unwind")
    /\ UNCHANGED <<exists, slot, sweep>>

(* _start_reserved, any other failure, an interruption or an invalid       *)
(* reply: the unit may exist, so it is recovered before the error leaves.  *)
CallFailed(s) ==
    /\ step[s] = "call"
    /\ Fault
    /\ \E e \in BOOLEAN : exists' = [exists EXCEPT ![UnitOf(s)] = e]
    /\ record' = [record EXCEPT ![s].may = TRUE, ![s].state = "cleaning"]
    /\ Goto(s, "recover")
    /\ UNCHANGED <<table, order, slot, sweep>>

(* ownership.publish: the caller takes the lease.  An error leaves the     *)
(* unit with the caller if its ledger has it; if the ledger cannot say,    *)
(* the record is left to be marked pending by the release.                 *)
Publish(s) ==
    /\ step[s] = "publish"
    /\ \/ /\ slot' = [slot EXCEPT ![s] = "held"] /\ Goto(s, "keep")
          /\ (UNCHANGED faults \/ Fault)
          /\ UNCHANGED record
       \/ /\ Fault
          /\ record' = [record EXCEPT ![s].state = "cleaning"]
          /\ Goto(s, "recover") /\ UNCHANGED slot
       \/ /\ Fault
          /\ \E h \in {"empty", "held"} : slot' = [slot EXCEPT ![s] = h]
          /\ Goto(s, "unwind") /\ UNCHANGED record
    /\ UNCHANGED <<table, order, exists, sweep>>

(* _recover_reserved_start.                                                *)
_recover_reserved_start(s) ==
    /\ step[s] = "recover"
    /\ \E collected \in BOOLEAN :
         /\ _attempt_recovery(UnitOf(s), collected)
         /\ _finish_recovery(s, collected, FALSE)
    /\ Goto(s, "unwind")
    /\ UNCHANGED <<slot, sweep>>

(* The finally of _start and of _cleanup_lease.                            *)
Unwind(s) ==
    /\ step[s] \in {"keep", "unwind"}
    /\ _release_operation(s, step[s] = "keep")
    /\ Goto(s, IF slot[s] = "held" THEN "own" ELSE "done")
    /\ UNCHANGED <<exists, slot, sweep, faults>>

-----------------------------------------------------------------------------
(* Cleaning up what the caller owns: read_output and ensure_collected.     *)

(* _cleanup_lease up to the recovery.  A record another thread works on    *)
(* refuses, and the caller comes again.                                    *)
_cleanup_lease(s) ==
    /\ step[s] = "own"
    /\ Registered(s) /\ record[s].lock = Nobody
    /\ \/ /\ record[s].state = "collected"
          /\ record' = [record EXCEPT ![s].lock = s]
          /\ Goto(s, "hand back")
       \/ /\ record[s].state \in {"active", "cleanup_pending"}
          /\ record' = [record EXCEPT ![s].lock = s, ![s].state = "cleaning"]
          /\ Goto(s, "collect")
    /\ UNCHANGED <<table, order, exists, slot, sweep, faults>>

(* The recovery of a cleanup.  Time may be up before it starts, and a      *)
(* failed read raises after the unit was collected.                        *)
CleanupRecovers(s) ==
    /\ step[s] = "collect"
    /\ \E collected, failed \in BOOLEAN :
         /\ _attempt_recovery(UnitOf(s), collected)
         /\ _finish_recovery(s, collected, TRUE)
         /\ Goto(s, IF collected /\ ~failed THEN "hand back" ELSE "unwind")
    /\ UNCHANGED <<slot, sweep>>

(* _release_collected_ownership: the record goes only when the ledger let  *)
(* go of the lease, also when it did so and then raised.                   *)
_release_collected_ownership(s) ==
    /\ step[s] = "hand back"
    /\ \/ /\ slot' = [slot EXCEPT ![s] = "released"]
          /\ (UNCHANGED faults \/ Fault)
          /\ _remove_record(s)
       \/ /\ Fault
          /\ UNCHANGED <<slot, table, order>>
    /\ Goto(s, "unwind")
    /\ UNCHANGED <<record, exists, sweep>>

-----------------------------------------------------------------------------
(* The sweep: retry_pending_cleanup.                                       *)

Pending(s) == Registered(s) /\ record[s].state \in {"cleanup_pending", "collected"}

(* The order of a batch: a record that was never marked pending sorts      *)
(* first, the others by their last attempt.                                *)
Batches ==
    LET fresh == {s \in Starts : Pending(s) /\ s \notin Range(order)}
        aged == SelectSeq(order, Pending)
    IN  {SubSeq(f \o aged, 1, IF Len(f \o aged) < RetryBatch THEN Len(f \o aged)
                              ELSE RetryBatch)
            : f \in SetToSeqs(fresh)}

retry_pending_cleanup ==
    /\ sweep.at = "idle"
    /\ \E b \in Batches : b # <<>> /\ sweep' = [at |-> "next", batch |-> b, on |-> Nobody]
    /\ UNCHANGED <<table, record, order, exists, slot, step, faults>>

(* _retry_pending_record: a record whose lock is taken, that was settled   *)
(* meanwhile, or whose lease the caller still owns, is left alone.         *)
_retry_pending_record ==
    /\ sweep.at = "next" /\ sweep.batch # <<>>
    /\ LET s == Head(sweep.batch)
           owned == record[s].ledger /\ record[s].lease /\ slot[s] = "held"
           mine == record[s].lock = Nobody /\ Pending(s) /\ ~owned
           rest == Tail(sweep.batch)
       IN  \/ /\ ~mine
              /\ sweep' = [sweep EXCEPT !.batch = rest]
              /\ UNCHANGED <<table, record, order>>
           \/ /\ mine /\ record[s].state = "collected"
              /\ _remove_record(s)
              /\ sweep' = [sweep EXCEPT !.batch = rest]
              /\ UNCHANGED record
           \/ /\ mine /\ record[s].state = "cleanup_pending"
              /\ record' = [record EXCEPT ![s].lock = Sweeper, ![s].state = "cleaning"]
              /\ sweep' = [at |-> "recover", batch |-> rest, on |-> s]
              /\ UNCHANGED <<table, order>>
    /\ UNCHANGED <<exists, slot, step, faults>>

(* _recover_cleaning_record for the sweep.                                 *)
SweepRecovers ==
    /\ sweep.at = "recover"
    /\ \E collected \in BOOLEAN :
         /\ _attempt_recovery(UnitOf(sweep.on), collected)
         /\ _finish_recovery(sweep.on, collected, FALSE)
    /\ sweep' = [sweep EXCEPT !.at = "release"]
    /\ UNCHANGED <<slot, step>>

SweepReleases ==
    /\ sweep.at = "release"
    /\ _release_operation(sweep.on, FALSE)
    /\ sweep' = [sweep EXCEPT !.at = "next", !.on = Nobody]
    /\ UNCHANGED <<exists, slot, step, faults>>

(* The batch is done, or its time is up.                                   *)
SweepEnds ==
    /\ sweep.at = "next"
    /\ \/ sweep.batch = <<>> /\ UNCHANGED faults
       \/ sweep.batch # <<>> /\ Fault
    /\ sweep' = [at |-> "idle", batch |-> <<>>, on |-> Nobody]
    /\ UNCHANGED <<table, record, order, exists, slot, step>>

UnitsNext ==
    \/ \E s \in Starts :
         \/ _start(s) \/ InterruptedBeforeCall(s)
         \/ CallAccepted(s) \/ CallRejected(s) \/ CallFailed(s)
         \/ Publish(s) \/ _recover_reserved_start(s) \/ Unwind(s)
         \/ _cleanup_lease(s) \/ CleanupRecovers(s) \/ _release_collected_ownership(s)
    \/ retry_pending_cleanup \/ _retry_pending_record
    \/ SweepRecovers \/ SweepReleases \/ SweepEnds

UnitsSpec == UnitsInit /\ [][UnitsNext]_unitVars

-----------------------------------------------------------------------------
Steps == {"new", "call", "publish", "keep", "recover", "unwind", "own", "collect",
          "hand back", "done"}

(* The state's types.  A record is registered under its own name, and a    *)
(* thread that left the manager holds no operation lock.                   *)
UnitsTypeOK ==
    /\ table \in [Units -> Starts \cup {Nobody}]
    /\ \A u \in Units : table[u] # Nobody => UnitOf(table[u]) = u
    /\ record \in [Starts -> [state : {"starting", "active", "cleaning", "cleanup_pending",
                                      "collected"},
                              may : BOOLEAN, lease : BOOLEAN, ledger : BOOLEAN,
                              lock : Threads \cup {Nobody}]]
    /\ Range(order) \subseteq Starts /\ IsInjective(order)
    /\ exists \in [Units -> BOOLEAN]
    /\ slot \in [Starts -> {"empty", "held", "released"}]
    /\ step \in [Starts -> Steps]
    /\ \A s \in Starts : step[s] \in {"new", "own", "done"} => record[s].lock # s
    /\ sweep.at \in {"idle", "next", "recover", "release"}
    /\ faults \in 0..MaxFaults

(* A unit that is loaded has a record: whatever call failed or was         *)
(* interrupted, the manager can still name every unit it has to stop.      *)
UnitIsRecorded == \A u \in Units : exists[u] => table[u] # Nobody

(* While the caller's ledger holds a lease the manager knows it: the       *)
(* caller's cleanup is never answered with an unknown lease, and a sweep   *)
(* does not settle the record behind the caller's back.                    *)
LeaseIsKnown == \A s \in Starts : slot[s] = "held" => Registered(s)

(* A registered record nobody is working on is pending, collected, or      *)
(* active in the hands of a caller: no unit is left running with nobody    *)
(* who will come back for it.                                              *)
NothingIsStranded ==
    \A s \in Starts :
        Registered(s) /\ record[s].lock = Nobody =>
            \/ record[s].state \in {"cleanup_pending", "collected"}
            \/ record[s].state = "active" /\ slot[s] = "held"

(* One thread at a time stops a unit and decides what becomes of its       *)
(* record.                                                                 *)
OneHandAtATime ==
    \A s \in Starts :
        /\ sweep.on = s => record[s].lock = Sweeper
        /\ step[s] \in {"recover", "collect", "hand back"} =>
             record[s].lock = s /\ Registered(s)

ReleaseStep ==
    \A s \in Starts :
      slot[s] = "held" /\ slot'[s] = "released" => ~exists[UnitOf(s)]

(* The caller gives a lease back only when the unit is not loaded any      *)
(* more: the guard and the descriptors it frees next are not in use.       *)
ReleasedMeansCollected == [][ReleaseStep]_unitVars
=============================================================================
