------------------------------ MODULE Incidents ------------------------------
(***************************************************************************)
(* Node incidents, the mail they cause and its delivery: the database      *)
(* functions of migration 0011 and 0013 (rtsp_proxy_collector_observe,     *)
(* rtsp_proxy_notifier_claim/complete, rtsp_proxy_security_alert_claim/    *)
(* complete), the two dispatchers of observability.py and the loop of the  *)
(* notifier role that runs them in turn.                                   *)
(*                                                                         *)
(* Each database function is one transaction.  Sending is a step of its    *)
(* own between the claim and the completion, so a worker may die, stall    *)
(* past its lease, or lose the database anywhere in between.  Time is not  *)
(* counted: a pending message becomes due, and a claim becomes older than  *)
(* the lease, at any moment after the write.  The definitions no action    *)
(* refers to are wrong variants of the definition that follows them.       *)
(***************************************************************************)
EXTENDS Naturals, Sequences

CONSTANTS
    Nodes,
    Workers,       \* processes that run the notification loop
    Alerts,        \* operator security alerts the identity store may insert
    NoMail,
    MaxIncidents,  \* bound: incidents of one node
    MaxAttempts,   \* settings.notification_max_attempts
    MaxFaults      \* bound: crashes and database errors of the workers

ASSUME AttemptsAssumption == MaxAttempts \in 1..10
ASSUME BoundsAssumption == MaxIncidents \in Nat /\ MaxFaults \in Nat
ASSUME AlertsAssumption ==
    \A m \in Nodes \X (1..MaxIncidents) \X {"failure", "recovery"} : m \notin Alerts

VARIABLES
    incident,  \* notification_incidents, oldest first, by node
    mail,      \* notification_messages and operator_security_alerts
    accepted,  \* how often the relay took each message (history)
    worker,    \* the notification loops
    faults

incidentVars == <<incident, mail, accepted, worker, faults>>

-----------------------------------------------------------------------------
(* A message is named by what dedupe_key is made of.  due: available_at has  *)
(* passed; stale: claimed_at is older than the lease.  The claim token is    *)
(* the attempt number: every claim increments attempts, so no two claims of  *)
(* a message share it.                                                       *)
IncidentMail == Nodes \X (1..MaxIncidents) \X {"failure", "recovery"}
Mail == IncidentMail \cup Alerts
NoMessage == [status |-> "none", attempts |-> 0, due |-> FALSE, stale |-> FALSE]
Pending == [NoMessage EXCEPT !.status = "pending", !.due = TRUE]
MessageRow == [status : {"none", "pending", "processing", "sent", "failed_final"},
               attempts : 0..MaxAttempts, due : BOOLEAN, stale : BOOLEAN]
Settled(r) == r.status \in {"sent", "failed_final"}
FailureOf(m) == <<m[1], m[2], "failure">>

Idle == [step |-> "idle", mail |-> NoMail, token |-> 0, outcome |-> "none",
         security |-> TRUE]
LoopState == [step : {"idle", "second", "send", "complete"},
              mail : Mail \cup {NoMail}, token : 0..MaxAttempts,
              outcome : {"none", "sent", "failed", "ambiguous"}, security : BOOLEAN]

IncidentInit ==
    /\ incident = [n \in Nodes |-> <<>>]
    /\ mail = [m \in Mail |-> NoMessage]
    /\ accepted = [m \in Mail |-> 0]
    /\ worker = [w \in Workers |-> Idle]
    /\ faults = 0

-----------------------------------------------------------------------------
(* rtsp_proxy_collector_observe                                              *)
Latest(n) == IF incident[n] = <<>> THEN "none" ELSE incident[n][Len(incident[n])]

collector_observe(n, failed, recovered) ==
    LET last == Len(incident[n])
    IN  \/ /\ failed /\ Latest(n) # "open"
           /\ last < MaxIncidents
           /\ incident' = [incident EXCEPT ![n] = Append(@, "open")]
           /\ mail' = [mail EXCEPT ![<<n, last + 1, "failure">>] = Pending]
        \/ /\ recovered /\ Latest(n) = "open"
           /\ incident' = [incident EXCEPT ![n][last] = "recovered"]
           /\ mail' = [mail EXCEPT ![<<n, last, "recovery">>] = Pending]
        \/ /\ ~(failed /\ Latest(n) # "open" /\ last < MaxIncidents)
           /\ ~(recovered /\ Latest(n) = "open")
           /\ UNCHANGED <<incident, mail>>

(* A break-glass login or a changed OIDC claim contract inserts an alert.    *)
InsertAlert(a) ==
    /\ mail[a] = NoMessage
    /\ mail' = [mail EXCEPT ![a] = Pending]
    /\ UNCHANGED <<incident, accepted, worker, faults>>

-----------------------------------------------------------------------------
FinalRetried(r) == [r EXCEPT !.status = "pending", !.stale = FALSE]

(* A claim first makes every message of its queue with an expired lease      *)
(* final, then closes what is complete, then takes one due message.          *)
Final(r) == [r EXCEPT !.status = "failed_final", !.stale = FALSE]

Expired(queue) ==
    [m \in Mail |-> IF m \in queue /\ mail[m].status = "processing" /\ mail[m].stale
                    THEN Final(mail[m]) ELSE mail[m]]

CloseAfterFailure(ml) ==
    [n \in Nodes |-> [i \in DOMAIN incident[n] |->
        IF incident[n][i] = "recovered" /\ Settled(ml[<<n, i, "failure">>])
        THEN "closed" ELSE incident[n][i]]]

CloseComplete(ml) ==
    [n \in Nodes |-> [i \in DOMAIN incident[n] |->
        IF incident[n][i] = "recovered" /\ \A k \in {"failure", "recovery"} :
                                              Settled(ml[<<n, i, k>>])
        THEN "closed" ELSE incident[n][i]]]

ClaimableUnordered(m, ml) == ml[m].status = "pending" /\ ml[m].due

Claimable(m, ml) ==
    /\ ml[m].status = "pending" /\ ml[m].due
    /\ m \in IncidentMail => m[3] = "failure" \/ Settled(ml[FailureOf(m)])

Claimed(r) == [r EXCEPT !.status = "processing", !.attempts = @ + 1, !.stale = FALSE]

(* The claim of worker w on one queue; empty says where the worker goes when *)
(* the queue has nothing for it.                                             *)
Take(w, queue, ml, empty) ==
    \/ \E m \in queue :
          /\ Claimable(m, ml)
          /\ mail' = [ml EXCEPT ![m] = Claimed(ml[m])]
          /\ worker' = [worker EXCEPT ![w] = [@ EXCEPT !.step = "send", !.mail = m,
                                                       !.token = ml[m].attempts + 1]]
    \/ /\ \A m \in queue : ~Claimable(m, ml)
       /\ mail' = ml
       /\ worker' = [worker EXCEPT ![w] = empty]

ClaimWithoutClosing(w, empty) ==
    Take(w, IncidentMail, Expired(IncidentMail), empty) /\ UNCHANGED incident

notifier_claim(w, empty) ==
    LET ml == Expired(IncidentMail)
    IN  /\ Take(w, IncidentMail, ml, empty)
        /\ incident' = CloseComplete(ml)

security_alert_claim(w, empty) ==
    /\ Take(w, Alerts, Expired(Alerts), empty)
    /\ UNCHANGED incident

(* _dispatch_notification_fairly: one queue first, the other if it is empty, *)
(* and the preference alternates with every round.                           *)
NextRound(w) == [Idle EXCEPT !.security = ~worker[w].security]

DispatchFirst(w) ==
    LET second == [worker[w] EXCEPT !.step = "second"]
    IN  /\ worker[w].step = "idle"
        /\ IF worker[w].security THEN security_alert_claim(w, second)
                                 ELSE notifier_claim(w, second)
        /\ UNCHANGED <<accepted, faults>>

DispatchSecond(w) ==
    /\ worker[w].step = "second"
    /\ IF worker[w].security THEN notifier_claim(w, NextRound(w))
                             ELSE security_alert_claim(w, NextRound(w))
    /\ UNCHANGED <<accepted, faults>>

(* SmtpNotificationTransport.send.  Before DATA, and on an explicit refusal, *)
(* the relay has not taken the message; when sending the text or reading the *)
(* reply fails it may have; once it has accepted, an error while the         *)
(* connection closes is ignored.                                             *)
Send(w) ==
    /\ worker[w].step = "send"
    /\ \E outcome \in {"sent", "failed", "ambiguous"}, taken \in {0, 1} :
          /\ outcome = "sent" => taken = 1
          /\ outcome = "failed" => taken = 0
          /\ accepted' = [accepted EXCEPT ![worker[w].mail] = @ + taken]
          /\ worker' = [worker EXCEPT ![w].step = "complete", ![w].outcome = outcome]
    /\ UNCHANGED <<incident, mail, faults>>

(* rtsp_proxy_notifier_complete and rtsp_proxy_security_alert_complete.  The *)
(* statement that would close the incident reads the snapshot taken before   *)
(* the message's own update, and so sees the message still in processing.    *)
Owned(w) == LET r == mail[worker[w].mail]
            IN  r.status = "processing" /\ r.attempts = worker[w].token

Completed(r, outcome) ==
    [r EXCEPT !.stale = FALSE,
              !.status = IF outcome = "sent" THEN "sent"
                         ELSE IF outcome = "ambiguous" \/ r.attempts >= MaxAttempts
                              THEN "failed_final" ELSE "pending",
              !.due = outcome # "failed" \/ r.attempts >= MaxAttempts]

Complete(w) ==
    LET m == worker[w].mail
    IN  /\ worker[w].step = "complete"
        /\ IF Owned(w)
           THEN /\ mail' = [mail EXCEPT ![m] = Completed(mail[m], worker[w].outcome)]
                /\ incident' = IF m \in IncidentMail
                               THEN [incident EXCEPT ![m[1]] = CloseComplete(mail)[m[1]]]
                               ELSE incident
           ELSE UNCHANGED <<mail, incident>>  \* notification_not_claimed
        /\ worker' = [worker EXCEPT ![w] = NextRound(w)]
        /\ UNCHANGED <<accepted, faults>>

-----------------------------------------------------------------------------
(* A database call of the loop raises before its transaction: the round is   *)
(* over and the preference changes sides.                                    *)
DatabaseError(w) ==
    /\ worker[w].step \in {"idle", "second", "complete"}
    /\ faults < MaxFaults
    /\ faults' = faults + 1
    /\ worker' = [worker EXCEPT ![w] = NextRound(w)]
    /\ UNCHANGED <<incident, mail, accepted>>

(* The process dies, or is stopped while it sends and outlives the join      *)
(* timeout; systemd starts it again.                                         *)
WorkerDies(w) ==
    /\ worker[w].step \in {"send", "complete"}
    /\ faults < MaxFaults
    /\ faults' = faults + 1
    /\ worker' = [worker EXCEPT ![w] = Idle]
    /\ UNCHANGED <<incident, mail, accepted>>

RetryDelayPasses(m) ==
    /\ mail[m].status = "pending" /\ ~mail[m].due
    /\ mail' = [mail EXCEPT ![m].due = TRUE]
    /\ UNCHANGED <<incident, accepted, worker, faults>>

LeasePasses(m) ==
    /\ mail[m].status = "processing" /\ ~mail[m].stale
    /\ mail' = [mail EXCEPT ![m].stale = TRUE]
    /\ UNCHANGED <<incident, accepted, worker, faults>>

Work(w) == DispatchFirst(w) \/ DispatchSecond(w) \/ Send(w) \/ Complete(w)

(* What any observer may report of a node: it failed, it is healthy again,   *)
(* or neither (rtsp_proxy_collector_observe refuses both at once).           *)
Observation(n) ==
    /\ \E failed, recovered \in BOOLEAN :
          ~(failed /\ recovered) /\ collector_observe(n, failed, recovered)
    /\ UNCHANGED <<accepted, worker, faults>>

MailNext ==
    \/ \E w \in Workers : Work(w) \/ DatabaseError(w) \/ WorkerDies(w)
    \/ \E m \in Mail : RetryDelayPasses(m) \/ LeasePasses(m)
    \/ \E a \in Alerts : InsertAlert(a)

MailSpec == IncidentInit /\ [][MailNext \/ \E n \in Nodes : Observation(n)]_incidentVars

(* Some notification loop goes on (systemd restarts the unit), and time      *)
(* passes.                                                                   *)
MailFairness ==
    /\ WF_incidentVars(\E w \in Workers : Work(w))
    /\ WF_incidentVars(\E m \in Mail : RetryDelayPasses(m) \/ LeasePasses(m))

FairMailSpec == MailSpec /\ MailFairness

-----------------------------------------------------------------------------
(* The tables and the loops hold what their columns and variables may hold.  *)
IncidentTypeOK ==
    /\ incident \in [Nodes -> Seq({"open", "recovered", "closed"})]
    /\ mail \in [Mail -> MessageRow]
    /\ accepted \in [Mail -> Nat]
    /\ worker \in [Workers -> LoopState]
    /\ faults \in 0..MaxFaults

(* At-most-once submission: whatever the interleaving of workers, expired    *)
(* leases, crashes and lost answers, the relay never takes one message twice *)
(* (claim and complete make an uncertain delivery final, never pending).     *)
MailedAtMostOnce == \A m \in Mail : accepted[m] <= 1

(* A message recorded as sent was taken by the relay, and one that waits for *)
(* another attempt was not: complete_notification records what send saw.     *)
RecordedOutcomeTrue ==
    \A m \in Mail : /\ mail[m].status = "sent" => accepted[m] = 1
                    /\ mail[m].status \in {"none", "pending"} => accepted[m] = 0

(* The recovery of an outage is mailed only when the outcome of its failure  *)
(* mail is known (the claim's ordering predicate), so never before it.       *)
FailureBeforeRecovery ==
    \A m \in IncidentMail :
        m[3] = "recovery" /\ (accepted[m] > 0 \/ mail[m].status \notin {"none", "pending"})
            => Settled(mail[FailureOf(m)])

(* One node has at most one open incident, and an incident that is over has  *)
(* its two messages: the partial unique index and the observe function.      *)
IncidentHasItsMail ==
    \A n \in Nodes : \A i \in DOMAIN incident[n] :
        /\ incident[n][i] = "open" => i = Len(incident[n])
        /\ mail[<<n, i, "failure">>].status # "none"
        /\ incident[n][i] # "open" <=> mail[<<n, i, "recovery">>].status # "none"
        /\ incident[n][i] = "closed" => \A k \in {"failure", "recovery"} :
                                           Settled(mail[<<n, i, k>>])

(* What these rest on.  A loop that sends or completes holds its message     *)
(* alone, and the message is still the attempt it claimed, or final: only    *)
(* its holder can make it pending again, so the claim's token needs no more  *)
(* than the attempt number.  What the holder saw of the relay is true, and a *)
(* message waits only while attempts are left.                               *)
Holds(w) == worker[w].step \in {"send", "complete"}

DeliveryInv ==
    /\ \A w \in Workers : Holds(w) =>
          LET m == worker[w].mail
          IN  /\ m \in Mail
              /\ mail[m].status \in {"processing", "failed_final"}
              /\ mail[m].attempts = worker[w].token
              /\ worker[w].step = "send" => accepted[m] = 0
              /\ worker[w].step = "complete" =>
                    /\ worker[w].outcome # "none"
                    /\ worker[w].outcome = "sent" => accepted[m] = 1
                    /\ worker[w].outcome = "failed" => accepted[m] = 0
    /\ \A v, w \in Workers :
          Holds(v) /\ Holds(w) /\ worker[v].mail = worker[w].mail => v = w
    /\ \A m \in Mail : mail[m].status = "pending" => mail[m].attempts < MaxAttempts

(* The messages of a node are those of its incidents, so an observation      *)
(* never finds the message it inserts already there.                         *)
MailOfIncidents ==
    \A n \in Nodes : \A i \in 1..MaxIncidents :
        /\ mail[<<n, i, "failure">>].status # "none" => i \in DOMAIN incident[n]
        /\ mail[<<n, i, "recovery">>].status # "none" => i \in DOMAIN incident[n]

IncidentsBounded == \A n \in Nodes : Len(incident[n]) <= MaxIncidents

MailInv ==
    /\ IncidentTypeOK /\ DeliveryInv
    /\ MailedAtMostOnce /\ RecordedOutcomeTrue
    /\ IncidentsBounded /\ MailOfIncidents /\ IncidentHasItsMail
    /\ FailureBeforeRecovery

IncidentIs(n, i, s) == i \in DOMAIN incident[n] /\ incident[n][i] = s

(* An incident that is over is closed in the end, although the completion    *)
(* of its last message never closes it: the sweep of a later claim does.     *)
IncidentCloses ==
    \A n \in Nodes : \A i \in 1..MaxIncidents : []<>~IncidentIs(n, i, "recovered")
=============================================================================
