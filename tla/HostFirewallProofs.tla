------------------------- MODULE HostFirewallProofs -------------------------
(***************************************************************************)
(* Proofs about HostFirewall for any number of runs and faults.            *)
(* FirewallInv is inductive; ReconcileEndsKnown is one of its conjuncts    *)
(* and ForeignTableKept follows from it for every step.                    *)
(***************************************************************************)
EXTENDS HostFirewall, TLAPS

RunRow == [pc : RunPcs, attempt : {0, 1}, seen : Tables, outcome : Outcomes]

(* The four tables the run tells apart are different ones.                   *)
LEMMA TablesDiffer ==
    /\ Absent # Foreign /\ Policy # Foreign /\ Drifted # Foreign /\ Absent # Policy
    /\ \A t \in Tables : /\ t.present /\ ~t.owned <=> t = Foreign
                         /\ ~t.present <=> t = Absent
                         /\ ~t.owned <=> t \in {Absent, Foreign}
BY DEF Tables, Absent, Policy, Drifted, Foreign

(* A run that goes on, or ends, stays a well-formed row.                     *)
LEMMA RunFacts ==
    ASSUME run \in RunRow
    PROVE  /\ \A pc \in RunPcs : Proceed(pc) => run' \in RunRow /\ run'.pc = pc
           /\ \A o \in Outcomes : End(o) => run' \in RunRow /\ run'.pc = "idle" /\ run'.outcome = o
           /\ NoRun \in RunRow /\ NoRun.pc = "idle" /\ NoRun.outcome = "none"
<1>1. \A pc \in RunPcs : Proceed(pc) => run' \in RunRow /\ run'.pc = pc
    BY DEF Proceed, RunRow
<1>2. \A o \in Outcomes : End(o) => run' \in RunRow /\ run'.pc = "idle" /\ run'.outcome = o
    BY DEF End, RunRow, RunPcs
<1>3. NoRun \in RunRow /\ NoRun.pc = "idle" /\ NoRun.outcome = "none"
    BY DEF NoRun, RunRow, RunPcs, Outcomes, Tables
<1> QED
    BY <1>1, <1>2, <1>3

(* What a step has to show about the run's row and the table.                *)
LEMMA FirewallKept ==
    ASSUME FirewallInv, UNCHANGED file, run' \in RunRow, table' \in Tables,
           run'.pc \notin {"idle", "look"} => table' # Foreign,
           run'.pc = "idle" => /\ run'.outcome = "installed" => table' = Policy
                               /\ run'.outcome = "failed" => table' \in {Absent, Foreign}
    PROVE  FirewallInv'
BY DEF FirewallInv, RunRow, ReconcileEndsKnown

\* A step of the oneshot (nft_reconcile.py) keeps FirewallInv, and only a flush
\* of the whole ruleset takes a foreign table away while it runs.
LEMMA FirewallStep ==
    ASSUME FirewallInv, [FirewallNext]_firewallVars
    PROVE  FirewallInv' /\ (run.pc # "idle" /\ table = Foreign => table' = table \/ Flush)
<1>1. /\ run \in RunRow /\ table \in Tables /\ file \in {Policy, Drifted}
      /\ run.pc \notin {"idle", "look"} => table # Foreign
    BY DEF FirewallInv, RunRow
<1>2. {Policy, Drifted, Absent} \subseteq Tables
    BY DEF Tables
<1>3. /\ {"idle", "look", "check", "apply", "failed", "remove", "verify"} = RunPcs
      /\ {"none", "installed", "failed", "unclean", "crashed"} = Outcomes
    BY DEF RunPcs, Outcomes
<1>4. CASE Begin /\ UNCHANGED file
    <2>1. run' \in RunRow /\ run'.pc = "look" /\ table' = table
        BY <1>4, RunFacts, <1>1 DEF Begin, RunRow, RunPcs
    <2> QED
        BY <1>1, <1>4, <2>1, FirewallKept
<1>5. CASE _inventory /\ UNCHANGED file
    <2>1. table' = table
        BY <1>5 DEF _inventory
    <2>2. CASE End("unclean")
        BY <1>1, <1>3, <1>5, <2>1, <2>2, RunFacts, FirewallKept
    <2>3. CASE table = Foreign /\ run' = [run EXCEPT !.pc = "idle", !.outcome = "failed"]
        <3>1. run' \in RunRow /\ run'.pc = "idle" /\ run'.outcome = "failed"
            BY <1>1, <2>3 DEF RunRow, RunPcs, Outcomes
        <3> QED
            BY <1>1, <1>5, <2>1, <2>3, <3>1, FirewallKept
    <2>4. CASE table # Foreign /\ run' = [run EXCEPT !.pc = "check", !.seen = table]
        <3>1. run' \in RunRow /\ run'.pc = "check"
            BY <1>1, <2>4 DEF RunRow, RunPcs
        <3> QED
            BY <1>1, <1>5, <2>1, <2>4, <3>1, FirewallKept
    <2> QED
        BY <1>1, <1>5, <2>2, <2>3, <2>4, TablesDiffer DEF _inventory
<1>6. CASE CheckTransaction /\ UNCHANGED file
    <2>1. table' = table /\ run.pc = "check" /\ (Proceed("apply") \/ End("unclean"))
        BY <1>6 DEF CheckTransaction
    <2> QED
        BY <1>1, <1>3, <1>6, <2>1, RunFacts, FirewallKept
<1>7. CASE Apply /\ UNCHANGED file
    <2>1. /\ run.pc = "apply" /\ (Proceed("verify") \/ Proceed("failed"))
          /\ table' \in {table, file}
        BY <1>7 DEF Apply
    <2>2. table # Foreign /\ file # Foreign /\ table' \in Tables
        BY <1>1, <1>2, <2>1, TablesDiffer
    <2> QED
        BY <1>1, <1>3, <1>7, <2>1, <2>2, RunFacts, FirewallKept
<1>8. CASE Observe /\ UNCHANGED file
    <2>1. table' = table /\ run.pc = "failed" /\ table # Foreign
        BY <1>1, <1>8 DEF Observe
    <2>2. CASE Proceed("remove") \/ End("unclean") \/ (table = Absent /\ End("failed"))
        BY <1>1, <1>3, <1>8, <2>1, <2>2, RunFacts, FirewallKept
    <2>3. CASE run' = [run EXCEPT !.pc = "look", !.attempt = 1]
        <3>1. run' \in RunRow /\ run'.pc = "look"
            BY <1>1, <2>3 DEF RunRow, RunPcs
        <3> QED
            BY <1>1, <1>8, <2>1, <3>1, FirewallKept
    <2> QED
        BY <1>1, <1>8, <2>1, <2>2, <2>3, TablesDiffer DEF Observe
<1>9. CASE Remove /\ UNCHANGED file
    <2>1. /\ run.pc = "remove" /\ table' \in {table, Absent}
          /\ End("unclean") \/ (End("failed") /\ table' = Absent)
        BY <1>9 DEF Remove
    <2> QED
        BY <1>1, <1>2, <1>3, <1>9, <2>1, RunFacts, FirewallKept
<1>10. CASE validate_owned_table /\ UNCHANGED file
    <2>1. /\ run.pc = "verify" /\ table' = table
          /\ \/ End("unclean") \/ Proceed("remove")
             \/ End("installed") /\ table = Policy
             \/ End("failed") /\ ~table.owned
        BY <1>10 DEF validate_owned_table
    <2> QED
        BY <1>1, <1>3, <1>10, <2>1, RunFacts, FirewallKept, TablesDiffer
<1>11. CASE Crash /\ UNCHANGED file
    <2>1. table' = table /\ End("crashed")
        BY <1>11 DEF Crash
    <2> QED
        BY <1>1, <1>3, <1>11, <2>1, RunFacts, FirewallKept
<1>12. CASE Administer /\ UNCHANGED file
    <2>1. run.pc = "idle" /\ table' \in Tables /\ run' = NoRun
        BY <1>12 DEF Administer
    <2> QED
        BY <1>1, <1>12, <2>1, RunFacts, FirewallKept
<1>13. CASE Flush /\ UNCHANGED file
    <2>1. table' = Absent /\ run' = IF run.pc = "idle" THEN NoRun ELSE run
        BY <1>13 DEF Flush
    <2>2. FirewallInv'
        BY <1>1, <1>2, <1>13, <2>1, RunFacts, FirewallKept, TablesDiffer
    <2> QED
        BY <1>13, <2>2
<1>14. CASE UNCHANGED firewallVars
    BY <1>14 DEF firewallVars, FirewallInv, ReconcileEndsKnown
<1> QED
    BY <1>4, <1>5, <1>6, <1>7, <1>8, <1>9, <1>10, <1>11, <1>12, <1>13, <1>14 DEF FirewallNext

(* FirewallInv holds in every state of nft_reconcile.py's oneshot, whichever *)
(* nft commands fail with or without effect and wherever a run dies.         *)
THEOREM FirewallInvariant == FirewallSpec => []FirewallInv
<1>1. FirewallInit => FirewallInv
    BY DEF FirewallInit, FirewallInv, NoRun, RunPcs, Outcomes, Tables, ReconcileEndsKnown
<1>2. FirewallInv /\ [FirewallNext]_firewallVars => FirewallInv'
    BY FirewallStep
<1> QED
    BY <1>1, <1>2, PTL DEF FirewallSpec

(* A run that reports success left the policy, and one that gave up left no  *)
(* owned table.                                                              *)
THEOREM RunsEndKnown == FirewallSpec => []ReconcileEndsKnown
<1>1. FirewallInv => ReconcileEndsKnown
    BY DEF FirewallInv
<1> QED
    BY <1>1, FirewallInvariant, PTL

(* No step of a run changes a table without the ownership marker.            *)
THEOREM ForeignTablesKept == FirewallSpec => ForeignTableKept
<1>1. FirewallInv /\ [FirewallNext]_firewallVars => [ForeignTableStep]_firewallVars
    BY FirewallStep DEF ForeignTableStep
<1> QED
    BY <1>1, FirewallInvariant, PTL DEF FirewallSpec, ForeignTableKept
=============================================================================
