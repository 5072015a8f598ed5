------------------------------- MODULE OidcLogin -------------------------------
(***************************************************************************)
(* Login with the identity provider (operator_identity.py, the callback of *)
(* app.py): login flows, the callbacks that consume them, the account a    *)
(* subject is mapped to, the attempt limits of source and identity, and    *)
(* the alerts about the provider's claim contract.                         *)
(*                                                                         *)
(* A callback is six transactions and two calls of the provider; browsers  *)
(* repeat callbacks, and a failure in the middle leaves the flow consumed. *)
(* One subject from one source address is modelled.                        *)
(*                                                                         *)
(* The definitions no action refers to are wrong variants of the           *)
(* definition that follows them.                                           *)
(***************************************************************************)
EXTENDS Integers, Sequences, FiniteSets

CONSTANTS Callbacks,     \* concurrent callbacks, at most the admission semaphore
          Flows,         \* bound: login flows begun
          FlowLimit,     \* active flows per source (10)
          FlowTime,      \* flow_lifetime
          FailureLimit,  \* failures that lock an attempt key (5)
          LockTime,      \* 15 minutes
          Probes,        \* health probes of the provider in flight
          MaxTime,       \* bound: clock ticks
          MaxAlerts,     \* bound: alerts
          Parts          \* what is explored: "login", "contract"

ASSUME OidcAssumption == Flows \in Nat /\ FlowLimit \in Nat /\ FlowTime \in Nat

VARIABLES now, part,
          flow,       \* oidc_login_flows
          callback,   \* callbacks in flight
          attempts,   \* operator_login_attempts, for "source" and "identity"
          account,    \* operator_accounts row of the subject
          made,       \* history: accounts created for the subject
          issued,     \* history: sessions issued from each flow
          contract,   \* oidc_claim_contract_state: "none", "healthy", "failed"
          probe,      \* what each health probe found
          alerts,     \* operator_security_alerts about the contract
          bg          \* whether an enabled break-glass account exists

oidcVars == <<now, part, flow, callback, attempts, account, made, issued,
              contract, probe, alerts, bg>>
loginVars == <<flow, callback, attempts, account, made, issued>>
contractVars == <<contract, probe, alerts, bg>>

-----------------------------------------------------------------------------
NoFlow == [status |-> "none", expires |-> 0]
NoAttempt == [count |-> 0, last |-> -1, until |-> 0]
Idle == [pc |-> "idle", flow |-> 0, roles |-> "none"]

OidcInit ==
    /\ now = 0
    /\ part \in Parts
    /\ flow = [f \in 1 .. Flows |-> NoFlow]
    /\ callback = [c \in Callbacks |-> Idle]
    /\ attempts = [k \in {"source", "identity"} |-> NoAttempt]
    /\ account = [exists |-> FALSE, enabled |-> TRUE, roles |-> "none"]
    /\ made = 0
    /\ issued = [f \in 1 .. Flows |-> 0]
    /\ contract = "none"
    /\ probe = [p \in Probes |-> "idle"]
    /\ alerts = <<>>
    /\ bg = TRUE

Locked(k) == attempts[k].until > now

Failed(k) ==
    LET a == attempts[k]
    IN [count |-> IF a.last < now - LockTime THEN 1 ELSE a.count + 1,
        last |-> now,
        until |-> IF Locked(k) THEN a.until
                  ELSE IF a.count + 1 >= FailureLimit THEN now + LockTime ELSE 0]

Goto(c, pc) == callback' = [callback EXCEPT ![c].pc = pc]

-----------------------------------------------------------------------------
(* Flows.                                                                  *)

\* begin: expired flows go, the active ones of the source are counted under the
\* advisory locks, and the new one is inserted.
create(f) ==
    LET kept == {g \in 1 .. Flows : flow[g].status # "none" /\ flow[g].expires > now}
        active == {g \in kept : flow[g].status = "open"}
    IN /\ flow[f].status = "none"
       /\ \A g \in 1 .. Flows : g < f => flow[g].status # "none"
       /\ Cardinality(active) < FlowLimit
       /\ flow' = [g \in 1 .. Flows |->
             IF g = f THEN [status |-> "open", expires |-> now + FlowTime]
             ELSE IF g \in kept \/ flow[g].status = "none" THEN flow[g]
             ELSE [flow[g] EXCEPT !.status = "deleted"]]
       /\ UNCHANGED <<now, part, callback, attempts, account, made, issued, contractVars>>

ConsumeUnlessExpired(c, f) ==
    /\ callback[c].pc = "idle" /\ flow[f].status # "none"
    /\ IF ~Locked("source") /\ now < flow[f].expires
       THEN /\ flow' = [flow EXCEPT ![f].status = "consumed"]
            /\ callback' = [callback EXCEPT ![c] = [Idle EXCEPT !.pc = "claims", !.flow = f]]
       ELSE Goto(c, "reject") /\ UNCHANGED flow
    /\ UNCHANGED <<now, part, attempts, account, made, issued, contractVars>>

\* A callback with the state and the browser token of a flow, repeated at will.
consume(c, f) ==
    /\ callback[c].pc = "idle" /\ flow[f].status # "none"
    /\ IF flow[f].status = "open" /\ ~Locked("source") /\ now < flow[f].expires
       THEN /\ flow' = [flow EXCEPT ![f].status = "consumed"]
            /\ callback' = [callback EXCEPT ![c] = [Idle EXCEPT !.pc = "claims", !.flow = f]]
       ELSE Goto(c, "reject") /\ UNCHANGED flow
    /\ UNCHANGED <<now, part, attempts, account, made, issued, contractVars>>

\* Token exchange and verification of the claims, with the roles they carry; any
\* failure, and a missing second factor, rejects.
Verify(c) ==
    /\ callback[c].pc = "claims"
    /\ \/ \E roles \in {"viewer", "admin"} :
            callback' = [callback EXCEPT ![c].pc = "allowed", ![c].roles = roles]
       \/ Goto(c, "reject")
    /\ UNCHANGED <<now, part, flow, attempts, account, made, issued, contractVars>>

assert_identity_allowed(c) ==
    /\ callback[c].pc = "allowed"
    /\ Goto(c, IF Locked("identity") THEN "reject" ELSE "lookup")
    /\ UNCHANGED <<now, part, flow, attempts, account, made, issued, contractVars>>

\* resolve, first statement: the row of the subject, locked if there is one.  A
\* disabled account, and roles other than the account's, reject the identity.
FindAccount(c) ==
    /\ callback[c].pc = "lookup"
    /\ Goto(c, IF ~account.exists THEN "insert"
               ELSE IF account.enabled /\ account.roles = callback[c].roles THEN "success"
               ELSE "rejectIdentity")
    /\ UNCHANGED <<now, part, flow, attempts, account, made, issued, contractVars>>

\* resolve, insert: a subject inserted in the meantime is a conflict.
InsertAccount(c) ==
    /\ callback[c].pc = "insert"
    /\ IF account.exists
       THEN Goto(c, "rejectIdentity") /\ UNCHANGED <<account, made>>
       ELSE /\ account' = [exists |-> TRUE, enabled |-> TRUE, roles |-> callback[c].roles]
            /\ made' = made + 1
            /\ Goto(c, "success")
    /\ UNCHANGED <<now, part, flow, attempts, issued, contractVars>>

record_success(c) ==
    /\ callback[c].pc = "success"
    /\ attempts' = [k \in DOMAIN attempts |-> NoAttempt]
    /\ Goto(c, "issue")
    /\ UNCHANGED <<now, part, flow, account, made, issued, contractVars>>

\* The session is issued for the account as it is now; a disabled one rejects.
IssueSession(c) ==
    /\ callback[c].pc = "issue"
    /\ IF account.enabled
       THEN /\ issued' = [issued EXCEPT ![callback[c].flow] = @ + 1]
            /\ callback' = [callback EXCEPT ![c] = Idle]
       ELSE Goto(c, "reject") /\ UNCHANGED issued
    /\ UNCHANGED <<now, part, flow, attempts, account, made, contractVars>>

record_identity_rejection(c) ==
    /\ callback[c].pc = "rejectIdentity"
    /\ attempts' = [attempts EXCEPT !["identity"] = Failed("identity")]
    /\ Goto(c, "reject")
    /\ UNCHANGED <<now, part, flow, account, made, issued, contractVars>>

\* The callback's handler records the refusal of the source unless it is locked.
record_rejection(c) ==
    /\ callback[c].pc = "reject"
    /\ attempts' = IF Locked("source") THEN attempts
                   ELSE [attempts EXCEPT !["source"] = Failed("source")]
    /\ callback' = [callback EXCEPT ![c] = Idle]
    /\ UNCHANGED <<now, part, flow, account, made, issued, contractVars>>

update_authorization ==
    /\ account.exists
    /\ account' \in [exists : {TRUE}, enabled : BOOLEAN, roles : {"viewer", "admin"}]
    /\ UNCHANGED <<now, part, flow, callback, attempts, made, issued, contractVars>>

Tick == /\ now < MaxTime
        /\ now' = now + 1
        /\ UNCHANGED <<part, loginVars, contractVars>>

-----------------------------------------------------------------------------
(* Claim contract.                                                         *)

\* A readiness probe of one of the management processes asks the provider.
Discover(p) ==
    /\ probe[p] = "idle"
    /\ \E found \in {"healthy", "failed"} : probe' = [probe EXCEPT ![p] = found]
    /\ UNCHANGED <<now, part, loginVars, contract, alerts, bg>>

\* The state row is inserted or locked; a first failure and every transition
\* append an alert, and without a break-glass account the whole is rolled back.
record_claim_contract_health(p) ==
    LET healthy == probe[p]
        changed == IF contract = "none" THEN healthy = "failed" ELSE contract # healthy
    IN /\ probe[p] # "idle"
       /\ probe' = [probe EXCEPT ![p] = "idle"]
       /\ IF changed /\ ~bg THEN UNCHANGED <<contract, alerts>>
          ELSE /\ contract' = healthy
               /\ changed => Len(alerts) < MaxAlerts
               /\ alerts' = IF changed THEN Append(alerts, healthy) ELSE alerts
       /\ UNCHANGED <<now, part, loginVars, bg>>

BreakGlassChanges ==
    /\ bg' = ~bg
    /\ UNCHANGED <<now, part, loginVars, contract, probe, alerts>>

-----------------------------------------------------------------------------
CallbackStep(c) ==
    \/ \E f \in 1 .. Flows : consume(c, f)
    \/ Verify(c) \/ assert_identity_allowed(c) \/ FindAccount(c) \/ InsertAccount(c)
    \/ record_success(c) \/ IssueSession(c)
    \/ record_identity_rejection(c) \/ record_rejection(c)

OidcNext ==
    \/ /\ part = "login"
       /\ \/ \E f \in 1 .. Flows : create(f)
          \/ \E c \in Callbacks : CallbackStep(c)
          \/ update_authorization
          \/ Tick
    \/ /\ part = "contract"
       /\ \/ \E p \in Probes : Discover(p) \/ record_claim_contract_health(p)
          \/ BreakGlassChanges

OidcSpec == OidcInit /\ [][OidcNext]_oidcVars

-----------------------------------------------------------------------------
(* Properties.                                                             *)

\* A flow yields one session at most, however often and from however many
\* requests at once its callback arrives.
FlowIssuesOnce == \A f \in 1 .. Flows : issued[f] <= 1

\* Two first logins of a subject create one account between them.
OneAccountPerSubject == made <= 1

\* A source never has more than FlowLimit flows a callback could still consume.
FlowsBounded ==
    Cardinality({f \in 1 .. Flows : flow[f].status = "open" /\ flow[f].expires > now}) <= FlowLimit

\* Alerts about the contract alternate, begin with a failure and end with what
\* the state row says, whichever probes interleave and whichever roll back.
AlertsAlternate ==
    /\ alerts # <<>> => alerts[1] = "failed"
    /\ \A i \in 2 .. Len(alerts) : alerts[i] # alerts[i - 1]
    /\ contract = "failed" => alerts # <<>> /\ alerts[Len(alerts)] = "failed"
    /\ alerts # <<>> => contract = alerts[Len(alerts)]

\* What the login through the provider promises, whichever callbacks and
\* health probes race.
LoginsSafe == FlowIssuesOnce /\ OneAccountPerSubject /\ FlowsBounded /\ AlertsAlternate

-----------------------------------------------------------------------------
\* What LoginsSafe rests on.  A callback on its way to a session owns its flow:
\* the flow was consumed for it, no other callback has it, and no session was
\* issued from it yet.  An account row exists once one was created.
CallbackPcs == {"idle", "claims", "allowed", "lookup", "insert", "success", "issue",
                "rejectIdentity", "reject"}
Statuses == {"none", "open", "consumed", "deleted"}

OidcTypeOK ==
    /\ now \in Nat
    /\ flow \in [1 .. Flows -> [status : Statuses, expires : Nat]]
    /\ callback \in [Callbacks -> [pc : CallbackPcs, flow : 0 .. Flows,
                                   roles : {"none", "viewer", "admin"}]]
    /\ account \in [exists : BOOLEAN, enabled : BOOLEAN, roles : {"none", "viewer", "admin"}]
    /\ issued \in [1 .. Flows -> Nat]
    /\ contract \in {"none", "healthy", "failed"}
    /\ probe \in [Probes -> {"idle", "healthy", "failed"}]
    /\ alerts \in Seq({"healthy", "failed"})
    /\ bg \in BOOLEAN

Owns(c) == callback[c].pc \in {"claims", "allowed", "lookup", "insert", "success", "issue"}

FlowsOwned ==
    /\ \A c \in Callbacks : Owns(c) =>
          /\ callback[c].flow \in 1 .. Flows
          /\ flow[callback[c].flow].status \notin {"none", "open"}
          /\ issued[callback[c].flow] = 0
    /\ \A c, d \in Callbacks : Owns(c) /\ Owns(d) /\ callback[c].flow = callback[d].flow => c = d
    /\ \A f \in 1 .. Flows : flow[f].status \in {"none", "open"} => issued[f] = 0

AccountCounted == made = IF account.exists THEN 1 ELSE 0

OidcInv == OidcTypeOK /\ FlowsOwned /\ AccountCounted /\ LoginsSafe
=============================================================================
