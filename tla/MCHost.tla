-------------------------------- MODULE MCHost -------------------------------
(*****************************************************************************)
(* The host of the proxy and what its services keep in memory or publish:    *)
(* the releases that are installed and activated on it, its firewall         *)
(* table, the ports its media nodes reserve, the probe scheduler, and the    *)
(* logins through the identity provider. One component moves in each         *)
(* behaviour while the others rest.                                          *)
(*****************************************************************************)
EXTENDS NodeStore, HostFirewall, OidcLogin, TLC

CONSTANTS None, NoRequest, b1, b2, web, control, n1, n2, x1, x2, c1, c2, c3, c4   \* model values

VARIABLES
    focus,    \* the component that moves; the others rest
    slot1, slot2, slot3, slot4, slot5, slot6, slot7, slot8, slot9, slot10    \* its variables

(* Three releases: the first and the last differ in the media binary, and no
   schema revision suits both. *)
Bundles == {"r1", "r2", "r3"}
MediaOf == [r \in Bundles |-> "m1"]
DigestOf == [r \in Bundles |-> IF r = "r3" THEN "d2" ELSE "d1"]
Window == ("r1" :> <<1, 1>>) @@ ("r2" :> <<1, 2>>) @@ ("r3" :> <<2, 2>>)

Host == INSTANCE Deployment WITH
    Releases <- Bundles, Builds <- {b1, b2}, Units <- {web, control},
    Environments <- {"node"}, Assets <- {"unit"}, MaxRevision <- 2,
    MaxCommands <- 2, MaxUnitChanges <- 1, installed <- slot1, media <-
    slot2, env <- slot3, assets <- slot4, link <- slot5, receipt <- slot6,
    units <- slot7, db <- slot8, job <- slot9, budget <- slot10

(* The workloads of ProbeScheduler: four cameras on two nodes and sites, and a
   camera asked for in three ways while its target changes. *)
Probed == {c1, c2, c3, c4}
MethodBudget == [source |-> 3, path |-> 2]
Ask(m, p, w) == [method |-> m, priority |-> p, window |-> w]
At(ns) == {p \in {<<n1, x1>>, <<n2, x2>>} : p[1] \in ns}
Workloads ==
    {[asks |-> (c1 :> {Ask("source", "manual", 1)}) @@ (c2 :> {Ask("source", "manual", 1)})
          @@ (c3 :> {Ask("path", "confirmation", 2)}) @@ (c4 :> {Ask("path", "routine", 3)}),
      places |-> (c1 :> At({n1})) @@ (c2 :> At({n1, n2})) @@ (c3 :> At({n1, n2}))
          @@ (c4 :> At({n2})),
      moves |-> {}, pages |-> {Probed}, requests |-> 4, gens |-> 1, time |-> 2],
     [asks |-> (c1 :> {Ask("source", "manual", 2), Ask("source", "routine", 3),
                       Ask("path", "manual", 2)})
          @@ (c2 :> {Ask("source", "routine", 3), Ask("path", "routine", 3)})
          @@ (c3 :> {}) @@ (c4 :> {}),
      places |-> [c \in Probed |-> At({n1})],
      moves |-> {c1}, pages |-> {{c1, c2}}, requests |-> 3, gens |-> 2, time |-> 3]}

Sched == INSTANCE ProbeScheduler WITH
    Cameras <- Probed, Nodes <- {n1, n2}, Sites <- {x1, x2}, GlobalLimit <-
    3, NodeLimit <- 2, SiteLimit <- 2, MethodLimit <- MethodBudget,
    QueueLimit <- 4, LeaseTime <- 1, RetryDelay <- 1, MaxAttempts <- 2,
    Loads <- Workloads, sched <- slot1, target <- slot2, load <- slot3, now
    <- slot4

nodesState == <<row, change>>
deployState == <<slot1, slot2, slot3, slot4, slot5, slot6, slot7, slot8, slot9, slot10>>
firewallState == <<table, file, run, left>>
oidcState == <<now, part, flow, callback, attempts, account, made, issued, contract,
      probe, alerts, bg>>
schedulerState == <<slot1, slot2, slot3, slot4>>
slots == <<slot1, slot2, slot3, slot4, slot5, slot6, slot7, slot8, slot9, slot10>>
mcVars == <<focus, nodesState, firewallState, oidcState, slots>>

MCInit ==
    \/ /\ focus = "nodes"
       /\ NodeStoreInit
       /\ slot1 = 0 /\ slot2 = 0 /\ slot3 = 0 /\ slot4 = 0 /\ slot5 = 0
       /\ slot6 = 0 /\ slot7 = 0 /\ slot8 = 0 /\ slot9 = 0 /\ slot10 = 0
       /\ FirewallInit
       /\ table = Absent /\ file = Policy
       /\ OidcInit
       /\ part = "login"
    \/ /\ focus = "deploy"
       /\ Host!DeploymentInit
       /\ NodeStoreInit
       /\ FirewallInit
       /\ table = Absent /\ file = Policy
       /\ OidcInit
       /\ part = "login"
    \/ /\ focus = "firewall"
       /\ FirewallInit
       /\ slot1 = 0 /\ slot2 = 0 /\ slot3 = 0 /\ slot4 = 0 /\ slot5 = 0
       /\ slot6 = 0 /\ slot7 = 0 /\ slot8 = 0 /\ slot9 = 0 /\ slot10 = 0
       /\ NodeStoreInit
       /\ OidcInit
       /\ part = "login"
    \/ /\ focus = "oidc"
       /\ OidcInit
       /\ slot1 = 0 /\ slot2 = 0 /\ slot3 = 0 /\ slot4 = 0 /\ slot5 = 0
       /\ slot6 = 0 /\ slot7 = 0 /\ slot8 = 0 /\ slot9 = 0 /\ slot10 = 0
       /\ NodeStoreInit
       /\ FirewallInit
       /\ table = Absent /\ file = Policy
    \/ /\ focus = "scheduler"
       /\ Sched!SchedulerInit
       /\ slot5 = 0 /\ slot6 = 0 /\ slot7 = 0 /\ slot8 = 0 /\ slot9 = 0
       /\ slot10 = 0
       /\ NodeStoreInit
       /\ FirewallInit
       /\ table = Absent /\ file = Policy
       /\ OidcInit
       /\ part = "login"

MCNext ==
    \/ /\ focus = "nodes"
       /\ NodeStoreNext
       /\ UNCHANGED <<focus, slots, firewallState, oidcState>>
    \/ /\ focus = "deploy"
       /\ Host!DeploymentNext
       /\ UNCHANGED <<focus, nodesState, firewallState, oidcState>>
    \/ /\ focus = "firewall"
       /\ FirewallNext
       /\ UNCHANGED <<focus, slots, nodesState, oidcState>>
    \/ /\ focus = "oidc"
       /\ OidcNext
       /\ UNCHANGED <<focus, slots, nodesState, firewallState>>
    \/ /\ focus = "scheduler"
       /\ Sched!SchedulerNext
       /\ UNCHANGED <<focus, slot5, slot6, slot7, slot8, slot9, slot10,
                      nodesState, firewallState, oidcState>>
    \/ /\ focus \in {"deploy", "firewall", "oidc", "scheduler"}    \* these may stop
       /\ UNCHANGED mcVars

MCSpec == MCInit /\ [][MCNext]_mcVars

-----------------------------------------------------------------------------
(* Deployment: whatever fails or dies between two steps, the services run
   a complete release, the release that is reported is the one that runs
   and the one that was asked for, the link stays within the window of
   the schema, and the media binary in use is not replaced. *)
ReleaseIsWhole ==
    /\ [](focus = "deploy" => /\ Host!RunsCompleteRelease
                              /\ Host!ReportedReleaseRuns
                              /\ Host!UpdateActivatesItsBundle)
    /\ [][focus = "deploy" => /\ Host!MediaBinaryStep
                              /\ Host!LinkStep]_deployState

(* ProbeScheduler: the probes in flight keep every budget, a camera has
   one probe in flight whatever leases expire, and a reserved place is
   taken before one is borrowed. *)
ProbesAreBudgeted ==
    /\ [](focus = "scheduler" => /\ Sched!BudgetsHold
                                 /\ Sched!OneFlightPerCamera)
    /\ [][focus = "scheduler" => Sched!BorrowStep]_schedulerState

=============================================================================
