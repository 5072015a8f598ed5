----------------------------- MODULE HostFirewall -----------------------------
(***************************************************************************)
(* rtsp-proxy-nft-reconcile (nft_reconcile.py): the oneshot that installs  *)
(* the owned nftables table.  A run holds the mutation lock; it looks at   *)
(* the table, replaces it in one nft transaction, tries that twice, and    *)
(* checks what was installed.  An nft command can fail with its effect     *)
(* done (a timeout) or not done, and the run can die at any step.  The     *)
(* administrator changes the table between runs, and a reload of the       *)
(* host's ruleset can flush it at any time.                                *)
(*                                                                         *)
(* The definitions no action refers to are wrong variants of the           *)
(* definition that follows them.                                           *)
(***************************************************************************)
EXTENDS Naturals

CONSTANTS
    Runs,           \* bound: how many times the oneshot is started
    MaxFaults       \* bound: failing commands and crashes

VARIABLES
    table,          \* the table inet rtsp_proxy in the kernel
    file,           \* what the policy file installs: the contract, or an edited table
    run,            \* the run that holds the lock
    left            \* runs and faults left

firewallVars == <<table, file, run, left>>

Absent == [present |-> FALSE, owned |-> FALSE, content |-> "none"]
Policy == [present |-> TRUE, owned |-> TRUE, content |-> "policy"]
Drifted == [present |-> TRUE, owned |-> TRUE, content |-> "drift"]
Foreign == [present |-> TRUE, owned |-> FALSE, content |-> "foreign"]
Tables == {Absent, Policy, Drifted, Foreign}
NoRun == [pc |-> "idle", attempt |-> 0, seen |-> Absent, outcome |-> "none"]

FirewallInit ==
    /\ table \in Tables
    /\ file \in {Policy, Drifted}
    /\ run = NoRun
    /\ left = [runs |-> Runs, faults |-> MaxFaults]

Proceed(pc) == run' = [run EXCEPT !.pc = pc]
End(outcome) == run' = [run EXCEPT !.pc = "idle", !.outcome = outcome]
Fault == left.faults > 0 /\ left' = [left EXCEPT !.faults = @ - 1]

\* _mutation_lock is taken and the first attempt starts.
Begin ==
    /\ run.pc = "idle" /\ left.runs > 0
    /\ run' = [NoRun EXCEPT !.pc = "look"]
    /\ left' = [left EXCEPT !.runs = @ - 1]
    /\ UNCHANGED table

InventoryUnmarked ==
    /\ run.pc = "look"
    /\ \/ run' = [run EXCEPT !.pc = "check", !.seen = table] /\ UNCHANGED left
       \/ Fault /\ End("unclean")
    /\ UNCHANGED table

\* _inventory and _require_ownership_marker: a table without the ownership
\* marker ends the run.
_inventory ==
    /\ run.pc = "look"
    /\ \/ /\ run' = IF table.present /\ ~table.owned
                    THEN [run EXCEPT !.pc = "idle", !.outcome = "failed"]
                    ELSE [run EXCEPT !.pc = "check", !.seen = table]
          /\ UNCHANGED left
       \/ Fault /\ End("unclean")
    /\ UNCHANGED table

\* _canonical_transaction, _write_transaction and nft --check: the policy file
\* or the check can be refused, and nothing was changed.
CheckTransaction ==
    /\ run.pc = "check"
    /\ \/ Proceed("apply") /\ UNCHANGED left
       \/ Fault /\ End("unclean")
    /\ UNCHANGED table

\* nft --file: the transaction deletes the table first when one was seen, so
\* it fails as a whole when that table is gone; a command that failed may
\* still have been applied.
Apply ==
    /\ run.pc = "apply"
    /\ \/ /\ run.seen.present = table.present
          /\ table' = file /\ Proceed("verify") /\ UNCHANGED left
       \/ /\ Fault /\ Proceed("failed")
          /\ table' \in {table, IF run.seen.present = table.present THEN file ELSE table}
       \/ /\ run.seen.present # table.present
          /\ Proceed("failed") /\ UNCHANGED <<table, left>>

\* The handler of a failed mutation: look again; a foreign table ends the run;
\* after the second attempt an owned table is removed and the error stands.
Observe ==
    /\ run.pc = "failed"
    /\ \/ /\ IF table.present /\ ~table.owned THEN End("failed")
             ELSE IF run.attempt = 0 THEN run' = [run EXCEPT !.pc = "look", !.attempt = 1]
             ELSE IF table.present THEN Proceed("remove")
             ELSE End("failed")
          /\ UNCHANGED left
       \/ Fault /\ End("unclean")
    /\ UNCHANGED table

\* nft delete table, after which the run fails.
Remove ==
    /\ run.pc = "remove"
    /\ \/ table' = Absent /\ End("failed") /\ UNCHANGED left
       \/ Fault /\ End("unclean") /\ table' \in {table, Absent}

ValidateOnly ==
    /\ run.pc = "verify"
    /\ \/ End(IF table = Policy THEN "installed" ELSE "failed") /\ UNCHANGED left
       \/ Fault /\ End("unclean")
    /\ UNCHANGED table

\* The final inventory and validate_owned_table: anything but the contract is
\* refused, and removed when it carries the marker.
validate_owned_table ==
    /\ run.pc = "verify"
    /\ \/ /\ IF table = Policy THEN End("installed")
             ELSE IF table.owned THEN Proceed("remove")
             ELSE End("failed")
          /\ UNCHANGED left
       \/ Fault /\ End("unclean")
    /\ UNCHANGED table

Crash ==
    /\ run.pc # "idle" /\ Fault /\ End("crashed")
    /\ UNCHANGED table

\* The administrator, between runs: drift, removal, a table of the same name.
Administer ==
    /\ run.pc = "idle" /\ run.outcome # "none" /\ left.runs > 0
    /\ table' \in Tables
    /\ run' = NoRun
    /\ UNCHANGED left

\* The host's ruleset is reloaded, which drops the table.
Flush ==
    /\ table.present
    /\ table' = Absent
    /\ run' = IF run.pc = "idle" THEN NoRun ELSE run
    /\ Fault

FirewallNext ==
    /\ \/ Begin \/ _inventory \/ CheckTransaction \/ Apply \/ Observe \/ Remove
       \/ validate_owned_table \/ Crash \/ Administer \/ Flush
    /\ UNCHANGED file

FirewallSpec == FirewallInit /\ [][FirewallNext]_firewallVars

-----------------------------------------------------------------------------
ForeignTableStep ==
    run.pc # "idle" /\ table = Foreign => table' = table \/ Flush

\* A table without the ownership marker is never changed by a run, on any
\* path through the retry and the clean-up.
ForeignTableKept == [][ForeignTableStep]_firewallVars

\* A run that reports success left the policy.  A run that gave up without a
\* command failing in its clean-up left no owned table at all: neither the
\* one it could not replace nor one that does not match the contract.
ReconcileEndsKnown ==
    run.pc = "idle" =>
        /\ run.outcome = "installed" => table = Policy
        /\ run.outcome = "failed" => table \in {Absent, Foreign}

-----------------------------------------------------------------------------
\* What both rest on: a run goes past its first look only while the table is
\* not a foreign one, and no step of it installs one.
RunPcs == {"idle", "look", "check", "apply", "failed", "remove", "verify"}
Outcomes == {"none", "installed", "failed", "unclean", "crashed"}

FirewallInv ==
    /\ table \in Tables /\ file \in {Policy, Drifted}
    /\ run \in [pc : RunPcs, attempt : {0, 1}, seen : Tables, outcome : Outcomes]
    /\ run.pc \notin {"idle", "look"} => table # Foreign
    /\ ReconcileEndsKnown
=============================================================================
