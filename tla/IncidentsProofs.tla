-------------------------- MODULE IncidentsProofs --------------------------
(***************************************************************************)
(* Proofs about Incidents and FleetCollector for any sets of nodes,        *)
(* workers and alerts, any number of attempts and any bounds.  MailInv is  *)
(* inductive for the delivery of the mail next to any observer; the        *)
(* collector is such an observer, so what is proved of MailSpec holds in   *)
(* every behaviour of CollectorSpec.                                       *)
(***************************************************************************)
EXTENDS FleetCollector, TLAPS

(* Rows of the message table: what each transaction does to one row.         *)
LEMMA RowFacts ==
    /\ NoMessage \in MessageRow /\ NoMessage.status = "none"
    /\ Pending \in MessageRow /\ Pending.status = "pending" /\ Pending.attempts = 0
    /\ ~Settled(NoMessage) /\ ~Settled(Pending)
<1>1. 0 \in 0..MaxAttempts
    BY AttemptsAssumption DEF AttemptsAssumption
<1> QED
    BY <1>1 DEF NoMessage, Pending, MessageRow, Settled

(* A message that is given up is a row with as many attempts as before.      *)
LEMMA FinalFacts ==
    ASSUME NEW r \in MessageRow
    PROVE  /\ Final(r) \in MessageRow
           /\ Final(r).status = "failed_final" /\ Final(r).attempts = r.attempts
BY DEF Final, MessageRow

(* A claimed message is a row in delivery with one attempt more.             *)
LEMMA ClaimedFacts ==
    ASSUME NEW r \in MessageRow, r.attempts < MaxAttempts
    PROVE  /\ Claimed(r) \in MessageRow
           /\ Claimed(r).status = "processing" /\ Claimed(r).attempts = r.attempts + 1
<1>1. r.attempts + 1 \in 0..MaxAttempts
    BY AttemptsAssumption DEF AttemptsAssumption, MessageRow
<1> QED
    BY <1>1 DEF Claimed, MessageRow

(* What a completion records of an outcome: a failed attempt waits again     *)
(* only while attempts are left, an ambiguous one never.                     *)
LEMMA CompletedFacts ==
    ASSUME NEW r \in MessageRow, NEW o \in {"sent", "failed", "ambiguous"}
    PROVE  /\ Completed(r, o) \in MessageRow
           /\ Completed(r, o).attempts = r.attempts
           /\ Completed(r, o).status \in {"sent", "failed_final", "pending"}
           /\ Completed(r, o).status = "sent" => o = "sent"
           /\ Completed(r, o).status = "pending" => o = "failed" /\ r.attempts < MaxAttempts
<1>1. r.attempts >= MaxAttempts \/ r.attempts < MaxAttempts
    BY AttemptsAssumption DEF AttemptsAssumption, MessageRow
<1> QED
    BY <1>1, AttemptsAssumption DEF AttemptsAssumption, Completed, MessageRow

(* A claim first makes the messages with an expired lease final and leaves   *)
(* the others as they are.                                                   *)
LEMMA ExpiredFacts ==
    ASSUME mail \in [Mail -> MessageRow], NEW queue
    PROVE  /\ Expired(queue) \in [Mail -> MessageRow]
           /\ \A m \in Mail : /\ Expired(queue)[m].attempts = mail[m].attempts
                              /\ \/ Expired(queue)[m].status = mail[m].status
                                 \/ /\ mail[m].status = "processing"
                                    /\ Expired(queue)[m].status = "failed_final"
BY FinalFacts DEF Expired

(* Closing incidents changes no more than recovered ones whose two messages  *)
(* are settled.                                                              *)
LEMMA CloseFacts ==
    ASSUME incident \in [Nodes -> Seq({"open", "recovered", "closed"})], NEW ml
    PROVE  /\ CloseComplete(ml) \in [Nodes -> Seq({"open", "recovered", "closed"})]
           /\ \A n \in Nodes :
                 /\ DOMAIN CloseComplete(ml)[n] = DOMAIN incident[n]
                 /\ Len(CloseComplete(ml)[n]) = Len(incident[n])
                 /\ \A i \in DOMAIN incident[n] :
                       \/ CloseComplete(ml)[n][i] = incident[n][i]
                       \/ /\ incident[n][i] = "recovered" /\ CloseComplete(ml)[n][i] = "closed"
                          /\ \A k \in {"failure", "recovery"} : Settled(ml[<<n, i, k>>])
<1> DEFINE S == {"open", "recovered", "closed"}
<1>1. ASSUME NEW n \in Nodes
      PROVE  /\ CloseComplete(ml)[n] \in Seq(S)
             /\ DOMAIN CloseComplete(ml)[n] = DOMAIN incident[n]
             /\ Len(CloseComplete(ml)[n]) = Len(incident[n])
             /\ \A i \in DOMAIN incident[n] :
                   \/ CloseComplete(ml)[n][i] = incident[n][i]
                   \/ /\ incident[n][i] = "recovered" /\ CloseComplete(ml)[n][i] = "closed"
                      /\ \A k \in {"failure", "recovery"} : Settled(ml[<<n, i, k>>])
    <2> DEFINE v(i) == IF incident[n][i] = "recovered" /\ \A k \in {"failure", "recovery"} :
                                              Settled(ml[<<n, i, k>>])
                       THEN "closed" ELSE incident[n][i]
    <2>1. CloseComplete(ml)[n] = [i \in DOMAIN incident[n] |-> v(i)]
        BY DEF CloseComplete
    <2>2. incident[n] \in Seq(S)
        OBVIOUS
    <2>3. /\ Len(incident[n]) \in Nat
          /\ DOMAIN incident[n] = 1..Len(incident[n])
          /\ \A i \in 1..Len(incident[n]) : incident[n][i] \in S
        BY <2>2
    <2>4. \A i \in 1..Len(incident[n]) : v(i) \in S
        BY <2>3
    <2> HIDE DEF v
    <2>5. /\ [i \in 1..Len(incident[n]) |-> v(i)] \in Seq(S)
          /\ Len([i \in 1..Len(incident[n]) |-> v(i)]) = Len(incident[n])
        BY <2>3, <2>4
    <2>6. CloseComplete(ml)[n] = [i \in 1..Len(incident[n]) |-> v(i)]
        BY <2>1, <2>3
    <2>7. \A i \in DOMAIN incident[n] :
             \/ v(i) = incident[n][i]
             \/ /\ incident[n][i] = "recovered" /\ v(i) = "closed"
                /\ \A k \in {"failure", "recovery"} : Settled(ml[<<n, i, k>>])
        BY DEF v
    <2> QED
        BY <2>3, <2>5, <2>6, <2>7
<1>2. CloseComplete(ml) = [n \in Nodes |-> CloseComplete(ml)[n]]
    BY DEF CloseComplete
<1> QED
    BY <1>1, <1>2

-----------------------------------------------------------------------------
(* The messages and the loops: the part of MailInv that claims, submissions  *)
(* and completions disturb.                                                  *)
DeliveryPart ==
    /\ mail \in [Mail -> MessageRow] /\ accepted \in [Mail -> Nat]
    /\ worker \in [Workers -> LoopState] /\ faults \in 0..MaxFaults
    /\ DeliveryInv /\ MailedAtMostOnce /\ RecordedOutcomeTrue

(* No row is deleted or inserted, and a settled one stays settled.           *)
RowsKept ==
    \A m \in Mail : /\ mail'[m].status = "none" <=> mail[m].status = "none"
                    /\ Settled(mail[m]) => Settled(mail'[m])

(* Whatever becomes of a recovery message that was still waiting, its        *)
(* failure message is settled.                                               *)
OrderKept ==
    \A m \in IncidentMail :
        /\ m[3] = "recovery"
        /\ accepted'[m] > 0 \/ mail'[m].status \notin {"none", "pending"}
        => \/ accepted[m] > 0 \/ mail[m].status \notin {"none", "pending"}
           \/ Settled(mail'[FailureOf(m)])

(* The incidents: they keep their number and only those whose messages are   *)
(* settled are closed.                                                       *)
IncidentsKept ==
    /\ incident' \in [Nodes -> Seq({"open", "recovered", "closed"})]
    /\ \A n \in Nodes :
          /\ DOMAIN incident'[n] = DOMAIN incident[n]
          /\ Len(incident'[n]) = Len(incident[n])
          /\ \A i \in DOMAIN incident[n] :
                \/ incident'[n][i] = incident[n][i]
                \/ /\ incident[n][i] = "recovered" /\ incident'[n][i] = "closed"
                   /\ \A k \in {"failure", "recovery"} : Settled(mail'[<<n, i, k>>])

(* The delivery part is a part of MailInv.                                   *)
LEMMA InvParts ==
    ASSUME MailInv
    PROVE  DeliveryPart
BY DEF MailInv, DeliveryPart, IncidentTypeOK

(* A step that keeps the rows, the order and the incidents keeps MailInv as  *)
(* soon as it keeps its delivery part.                                       *)
LEMMA KeptParts ==
    ASSUME MailInv, DeliveryPart', RowsKept, OrderKept, IncidentsKept
    PROVE  MailInv'
<1>1. IncidentTypeOK'
    BY DEF DeliveryPart, IncidentsKept, IncidentTypeOK
<1>2. IncidentsBounded'
    BY DEF MailInv, IncidentsBounded, IncidentsKept
<1>3. \A n \in Nodes : \A i \in DOMAIN incident[n] : i \in 1..MaxIncidents
    <2> SUFFICES ASSUME NEW n \in Nodes, NEW i \in DOMAIN incident[n]
                 PROVE  i \in 1..MaxIncidents
        OBVIOUS
    <2>1. incident[n] \in Seq({"open", "recovered", "closed"})
        BY DEF MailInv, IncidentTypeOK
    <2> QED
        BY <2>1, BoundsAssumption DEF BoundsAssumption, MailInv, IncidentsBounded
<1>4. \A n \in Nodes : \A i \in 1..MaxIncidents : \A k \in {"failure", "recovery"} :
         <<n, i, k>> \in Mail
    BY DEF Mail, IncidentMail
<1>5. MailOfIncidents'
    <2> SUFFICES ASSUME NEW n \in Nodes, NEW i \in 1..MaxIncidents
                 PROVE  /\ mail'[<<n, i, "failure">>].status # "none" => i \in DOMAIN incident'[n]
                        /\ mail'[<<n, i, "recovery">>].status # "none" => i \in DOMAIN incident'[n]
        BY DEF MailOfIncidents
    <2>1. DOMAIN incident'[n] = DOMAIN incident[n]
        BY DEF IncidentsKept
    <2>2. \A k \in {"failure", "recovery"} :
             mail'[<<n, i, k>>].status # "none" => mail[<<n, i, k>>].status # "none"
        BY <1>4 DEF RowsKept
    <2> QED
        BY <2>1, <2>2 DEF MailInv, MailOfIncidents
<1>6. IncidentHasItsMail'
    <2> SUFFICES ASSUME NEW n \in Nodes, NEW i \in DOMAIN incident'[n]
                 PROVE  /\ incident'[n][i] = "open" => i = Len(incident'[n])
                        /\ mail'[<<n, i, "failure">>].status # "none"
                        /\ incident'[n][i] # "open" <=> mail'[<<n, i, "recovery">>].status # "none"
                        /\ incident'[n][i] = "closed" =>
                              \A k \in {"failure", "recovery"} : Settled(mail'[<<n, i, k>>])
        BY DEF IncidentHasItsMail
    <2>1. i \in DOMAIN incident[n] /\ Len(incident'[n]) = Len(incident[n])
        BY DEF IncidentsKept
    <2>2. /\ incident[n][i] = "open" => i = Len(incident[n])
          /\ mail[<<n, i, "failure">>].status # "none"
          /\ incident[n][i] # "open" <=> mail[<<n, i, "recovery">>].status # "none"
          /\ incident[n][i] = "closed" =>
                \A k \in {"failure", "recovery"} : Settled(mail[<<n, i, k>>])
        BY <2>1 DEF MailInv, IncidentHasItsMail
    <2>3. \A k \in {"failure", "recovery"} :
             /\ mail'[<<n, i, k>>].status = "none" <=> mail[<<n, i, k>>].status = "none"
             /\ Settled(mail[<<n, i, k>>]) => Settled(mail'[<<n, i, k>>])
        BY <1>3, <1>4, <2>1 DEF RowsKept
    <2>4. \/ incident'[n][i] = incident[n][i]
          \/ /\ incident[n][i] = "recovered" /\ incident'[n][i] = "closed"
             /\ \A k \in {"failure", "recovery"} : Settled(mail'[<<n, i, k>>])
        BY <2>1 DEF IncidentsKept
    <2> QED
        BY <2>1, <2>2, <2>3, <2>4
<1>7. FailureBeforeRecovery'
    <2> SUFFICES ASSUME NEW m \in IncidentMail, m[3] = "recovery",
                        accepted'[m] > 0 \/ mail'[m].status \notin {"none", "pending"}
                 PROVE  Settled(mail'[FailureOf(m)])
        BY DEF FailureBeforeRecovery
    <2>1. FailureOf(m) \in Mail
        BY DEF FailureOf, Mail, IncidentMail
    <2>2. Settled(mail[FailureOf(m)]) \/ Settled(mail'[FailureOf(m)])
        BY DEF OrderKept, MailInv, FailureBeforeRecovery
    <2> QED
        BY <2>1, <2>2 DEF RowsKept
<1> QED
    BY <1>1, <1>2, <1>5, <1>6, <1>7 DEF MailInv, DeliveryPart

-----------------------------------------------------------------------------
(* The messages of a queue are messages.                                     *)
LEMMA Queues == IncidentMail \subseteq Mail /\ Alerts \subseteq Mail
BY DEF Mail

(* The tables are empty at first.                                            *)
LEMMA InitMail == IncidentInit => MailInv
<1> SUFFICES ASSUME IncidentInit PROVE MailInv
    OBVIOUS
<1>1. 0 \in 0..MaxAttempts /\ 0 \in 0..MaxFaults
    BY AttemptsAssumption, BoundsAssumption DEF AttemptsAssumption, BoundsAssumption
<1>2. Idle \in LoopState /\ Idle.step = "idle"
    BY <1>1 DEF Idle, LoopState
<1>3. /\ \A m \in Mail : mail[m] = NoMessage /\ accepted[m] = 0
      /\ \A w \in Workers : worker[w] = Idle
      /\ \A n \in Nodes : incident[n] = <<>>
    BY DEF IncidentInit
<1>4. IncidentTypeOK
    BY <1>1, <1>2, RowFacts DEF IncidentInit, IncidentTypeOK
<1>5. DeliveryInv /\ MailedAtMostOnce /\ RecordedOutcomeTrue
    BY <1>2, <1>3, RowFacts DEF DeliveryInv, Holds, MailedAtMostOnce, RecordedOutcomeTrue
<1>6. IncidentsBounded /\ IncidentHasItsMail
    BY <1>3, BoundsAssumption DEF BoundsAssumption, IncidentsBounded, IncidentHasItsMail
<1>7. MailOfIncidents
    BY <1>3, RowFacts DEF MailOfIncidents, Mail, IncidentMail
<1>8. FailureBeforeRecovery
    BY <1>3, RowFacts, Queues DEF FailureBeforeRecovery
<1> QED
    BY <1>4, <1>5, <1>6, <1>7, <1>8 DEF MailInv

(* A claim: expired messages become final, and at most one message goes from *)
(* pending to the hands of the worker, which nobody else held.               *)
LEMMA TakeFacts ==
    ASSUME MailInv, NEW w \in Workers, ~Holds(w), NEW queue \in SUBSET Mail,
           NEW empty \in LoopState, empty.step \in {"idle", "second"},
           Take(w, queue, Expired(queue), empty), accepted' = accepted, faults' = faults
    PROVE  /\ DeliveryPart' /\ RowsKept /\ OrderKept
           /\ \A m \in Mail : Settled(Expired(queue)[m]) => Settled(mail'[m])
<1> DEFINE ml == Expired(queue)
<1>t. DeliveryPart
    BY InvParts
<1>1. /\ ml \in [Mail -> MessageRow]
      /\ \A m \in Mail : /\ ml[m].attempts = mail[m].attempts
                         /\ \/ ml[m].status = mail[m].status
                            \/ mail[m].status = "processing" /\ ml[m].status = "failed_final"
    BY <1>t, ExpiredFacts DEF DeliveryPart
<1>2. Take(w, queue, ml, empty)
    OBVIOUS
<1> HIDE DEF ml
<1>3. ASSUME NEW m \in queue, Claimable(m, ml),
             mail' = [ml EXCEPT ![m] = Claimed(ml[m])],
             worker' = [worker EXCEPT ![w] = [@ EXCEPT !.step = "send", !.mail = m,
                                                       !.token = ml[m].attempts + 1]]
      PROVE  /\ DeliveryPart' /\ RowsKept /\ OrderKept
             /\ \A x \in Mail : Settled(ml[x]) => Settled(mail'[x])
    <2>1. m \in Mail /\ ml[m].status = "pending" /\ mail[m].status = "pending"
        BY <1>1, <1>3 DEF Claimable
    <2>2. ml[m].attempts < MaxAttempts /\ ml[m] \in MessageRow
        BY <1>1, <1>t, <2>1 DEF DeliveryPart, DeliveryInv
    <2>3. /\ mail' \in [Mail -> MessageRow]
          /\ mail'[m].status = "processing" /\ mail'[m].attempts = ml[m].attempts + 1
          /\ \A x \in Mail : x # m => mail'[x] = ml[x]
        BY <1>1, <1>3, <2>1, <2>2, ClaimedFacts
    <2>4. ml[m].attempts + 1 \in 0..MaxAttempts
        BY <2>2, AttemptsAssumption DEF AttemptsAssumption, MessageRow
    <2> DEFINE ws == [worker[w] EXCEPT !.step = "send", !.mail = m, !.token = ml[m].attempts + 1]
    <2>5. worker[w] \in LoopState
        BY <1>t DEF DeliveryPart
    <2>6. /\ ws \in LoopState /\ ws.step = "send" /\ ws.mail = m
          /\ ws.token = ml[m].attempts + 1
        BY <2>1, <2>4, <2>5 DEF LoopState
    <2>7. worker' = [worker EXCEPT ![w] = ws]
        BY <1>3
    <2> HIDE DEF ws
    <2>8. /\ worker' \in [Workers -> LoopState]
          /\ worker'[w] = ws
          /\ \A v \in Workers : v # w => worker'[v] = worker[v]
        BY <1>t, <2>6, <2>7 DEF DeliveryPart
    <2>9. \A v \in Workers : Holds(v) => worker[v].mail # m
        BY <1>t, <2>1 DEF DeliveryPart, DeliveryInv
    <2>10. accepted[m] = 0
        BY <1>t, <2>1 DEF DeliveryPart, RecordedOutcomeTrue
    <2>11. DeliveryInv'
        <3>1. ASSUME NEW v \in Workers, Holds(v)'
              PROVE  LET x == worker'[v].mail
                     IN  /\ x \in Mail
                         /\ mail'[x].status \in {"processing", "failed_final"}
                         /\ mail'[x].attempts = worker'[v].token
                         /\ worker'[v].step = "send" => accepted'[x] = 0
                         /\ worker'[v].step = "complete" =>
                               /\ worker'[v].outcome # "none"
                               /\ worker'[v].outcome = "sent" => accepted'[x] = 1
                               /\ worker'[v].outcome = "failed" => accepted'[x] = 0
            <4>1. CASE v = w
                BY <4>1, <2>1, <2>3, <2>6, <2>8, <2>10
            <4>2. CASE v # w
                <5>1. worker'[v] = worker[v] /\ Holds(v)
                    BY <3>1, <4>2, <2>8 DEF Holds
                <5>2. worker[v].mail \in Mail /\ worker[v].mail # m
                    BY <5>1, <2>9, <1>t DEF DeliveryPart, DeliveryInv
                <5>3. mail'[worker[v].mail] = ml[worker[v].mail]
                    BY <5>2, <2>3
                <5> QED
                    BY <5>1, <5>2, <5>3, <1>1, <1>t DEF DeliveryPart, DeliveryInv
            <4> QED
                BY <4>1, <4>2
        <3>2. ASSUME NEW u \in Workers, NEW v \in Workers, Holds(u)', Holds(v)',
                     worker'[u].mail = worker'[v].mail
              PROVE  u = v
            BY <3>2, <1>t, <2>6, <2>8, <2>9 DEF DeliveryPart, DeliveryInv, Holds
        <3>3. \A x \in Mail : mail'[x].status = "pending" => mail'[x].attempts < MaxAttempts
            BY <1>1, <1>t, <2>3 DEF DeliveryPart, DeliveryInv
        <3> QED
            BY <3>1, <3>2, <3>3 DEF DeliveryInv
    <2>12. MailedAtMostOnce' /\ RecordedOutcomeTrue'
        BY <1>1, <1>t, <2>3, <2>10 DEF DeliveryPart, MailedAtMostOnce, RecordedOutcomeTrue
    <2>13. DeliveryPart'
        BY <1>t, <2>3, <2>8, <2>11, <2>12 DEF DeliveryPart
    <2>14. RowsKept
        BY <1>1, <2>1, <2>3 DEF RowsKept, Settled
    <2>15. OrderKept
        <3> SUFFICES ASSUME NEW x \in IncidentMail, x[3] = "recovery",
                            accepted[x] > 0 \/ mail'[x].status \notin {"none", "pending"}
                     PROVE  \/ accepted[x] > 0 \/ mail[x].status \notin {"none", "pending"}
                            \/ Settled(mail'[FailureOf(x)])
            BY DEF OrderKept
        <3>1. CASE x = m
            <4>1. Settled(ml[FailureOf(m)])
                BY <1>3, <3>1 DEF Claimable
            <4>2. FailureOf(m) \in Mail
                BY <3>1 DEF FailureOf, Mail, IncidentMail
            <4>3. FailureOf(m) # m
                BY <2>1, <4>1 DEF Settled
            <4> QED
                BY <2>3, <3>1, <4>1, <4>2, <4>3
        <3>2. CASE x # m
            BY <1>1, <2>3, <3>2, Queues
        <3> QED
            BY <3>1, <3>2
    <2> QED
        BY <2>1, <2>3, <2>13, <2>14, <2>15 DEF Settled
<1>4. ASSUME mail' = ml, worker' = [worker EXCEPT ![w] = empty]
      PROVE  /\ DeliveryPart' /\ RowsKept /\ OrderKept
             /\ \A x \in Mail : Settled(ml[x]) => Settled(mail'[x])
    <2>1. /\ worker' \in [Workers -> LoopState]
          /\ worker'[w].step \in {"idle", "second"}
          /\ \A v \in Workers : v # w => worker'[v] = worker[v]
        BY <1>t, <1>4 DEF DeliveryPart
    <2>2. \A v \in Workers : Holds(v)' => worker'[v] = worker[v] /\ Holds(v)
        BY <2>1 DEF Holds
    <2>3. DeliveryInv'
        <3>1. ASSUME NEW v \in Workers, Holds(v)'
              PROVE  LET x == worker'[v].mail
                     IN  /\ x \in Mail
                         /\ mail'[x].status \in {"processing", "failed_final"}
                         /\ mail'[x].attempts = worker'[v].token
                         /\ worker'[v].step = "send" => accepted'[x] = 0
                         /\ worker'[v].step = "complete" =>
                               /\ worker'[v].outcome # "none"
                               /\ worker'[v].outcome = "sent" => accepted'[x] = 1
                               /\ worker'[v].outcome = "failed" => accepted'[x] = 0
            BY <3>1, <1>1, <1>4, <1>t, <2>2 DEF DeliveryPart, DeliveryInv
        <3>2. ASSUME NEW u \in Workers, NEW v \in Workers, Holds(u)', Holds(v)',
                     worker'[u].mail = worker'[v].mail
              PROVE  u = v
            BY <3>2, <1>t, <2>2 DEF DeliveryPart, DeliveryInv
        <3>3. \A x \in Mail : mail'[x].status = "pending" => mail'[x].attempts < MaxAttempts
            BY <1>1, <1>t, <1>4 DEF DeliveryPart, DeliveryInv
        <3> QED
            BY <3>1, <3>2, <3>3 DEF DeliveryInv
    <2>4. MailedAtMostOnce' /\ RecordedOutcomeTrue'
        BY <1>1, <1>t, <1>4 DEF DeliveryPart, MailedAtMostOnce, RecordedOutcomeTrue
    <2>5. DeliveryPart'
        BY <1>1, <1>t, <1>4, <2>1, <2>3, <2>4 DEF DeliveryPart
    <2>6. RowsKept
        BY <1>1, <1>4 DEF RowsKept, Settled
    <2>7. OrderKept
        BY <1>1, <1>4, Queues DEF OrderKept
    <2> QED
        BY <1>4, <2>5, <2>6, <2>7
<1> QED
    BY <1>2, <1>3, <1>4 DEF Take, ml

(* The two claims.  The sweep of notifier_claim closes what the expiry just  *)
(* settled, and the message it takes was not settled.                        *)
LEMMA ClaimKeepsInv ==
    ASSUME MailInv, NEW w \in Workers, ~Holds(w),
           NEW empty \in LoopState, empty.step \in {"idle", "second"},
           notifier_claim(w, empty) \/ security_alert_claim(w, empty),
           accepted' = accepted, faults' = faults
    PROVE  MailInv'
<1>1. incident \in [Nodes -> Seq({"open", "recovered", "closed"})]
    BY DEF MailInv, IncidentTypeOK
<1>2. CASE notifier_claim(w, empty)
    <2> DEFINE ml == Expired(IncidentMail)
    <2>1. Take(w, IncidentMail, ml, empty) /\ incident' = CloseComplete(ml)
        BY <1>2 DEF notifier_claim
    <2>2. /\ DeliveryPart' /\ RowsKept /\ OrderKept
          /\ \A m \in Mail : Settled(ml[m]) => Settled(mail'[m])
        BY <2>1, TakeFacts, Queues
    <2> HIDE DEF ml
    <2>3. \A n \in Nodes : \A i \in DOMAIN incident[n] : \A k \in {"failure", "recovery"} :
             <<n, i, k>> \in Mail
        <3> SUFFICES ASSUME NEW n \in Nodes, NEW i \in DOMAIN incident[n]
                     PROVE  i \in 1..MaxIncidents
            BY DEF Mail, IncidentMail
        <3>1. incident[n] \in Seq({"open", "recovered", "closed"})
            BY <1>1
        <3> QED
            BY <3>1, BoundsAssumption DEF BoundsAssumption, MailInv, IncidentsBounded
    <2>4. IncidentsKept
        BY <1>1, <2>1, <2>2, <2>3, CloseFacts DEF IncidentsKept
    <2> QED
        BY <2>2, <2>4, KeptParts
<1>3. CASE security_alert_claim(w, empty)
    <2>1. Take(w, Alerts, Expired(Alerts), empty) /\ incident' = incident
        BY <1>3 DEF security_alert_claim
    <2>2. DeliveryPart' /\ RowsKept /\ OrderKept
        BY <2>1, TakeFacts, Queues
    <2>3. IncidentsKept
        BY <1>1, <2>1 DEF IncidentsKept
    <2> QED
        BY <2>2, <2>3, KeptParts
<1> QED
    BY <1>2, <1>3

(* The round of a loop that is over starts again with the other queue.       *)
LEMMA LoopFacts ==
    ASSUME worker \in [Workers -> LoopState], NEW w \in Workers
    PROVE  /\ Idle \in LoopState /\ Idle.step = "idle"
           /\ NextRound(w) \in LoopState /\ NextRound(w).step = "idle"
           /\ [worker[w] EXCEPT !.step = "second"] \in LoopState
           /\ [worker[w] EXCEPT !.step = "second"].step = "second"
<1>1. 0 \in 0..MaxAttempts
    BY AttemptsAssumption DEF AttemptsAssumption
<1>2. worker[w] \in LoopState
    OBVIOUS
<1> QED
    BY <1>1, <1>2 DEF Idle, NextRound, LoopState

(* A round that claims from one queue, or from the other when the first is   *)
(* empty, keeps MailInv.                                                     *)
LEMMA DispatchKeepsInv ==
    ASSUME MailInv, NEW w \in Workers, DispatchFirst(w) \/ DispatchSecond(w)
    PROVE  MailInv'
<1>1. worker \in [Workers -> LoopState]
    BY DEF MailInv, IncidentTypeOK
<1>2. CASE DispatchFirst(w)
    <2> DEFINE second == [worker[w] EXCEPT !.step = "second"]
    <2>1. second \in LoopState /\ second.step = "second"
        BY <1>1, LoopFacts
    <2>2. /\ ~Holds(w) /\ accepted' = accepted /\ faults' = faults
          /\ notifier_claim(w, second) \/ security_alert_claim(w, second)
        BY <1>2 DEF DispatchFirst, Holds
    <2> HIDE DEF second
    <2> QED
        BY <2>1, <2>2, ClaimKeepsInv
<1>3. CASE DispatchSecond(w)
    <2>1. NextRound(w) \in LoopState /\ NextRound(w).step = "idle"
        BY <1>1, LoopFacts
    <2>2. /\ ~Holds(w) /\ accepted' = accepted /\ faults' = faults
          /\ notifier_claim(w, NextRound(w)) \/ security_alert_claim(w, NextRound(w))
        BY <1>3 DEF DispatchSecond, Holds
    <2> QED
        BY <2>1, <2>2, ClaimKeepsInv
<1> QED
    BY <1>2, <1>3

(* The relay takes the message of the holder once.                           *)
LEMMA SendKeepsInv ==
    ASSUME MailInv, NEW w \in Workers, Send(w)
    PROVE  MailInv'
<1>t. DeliveryPart
    BY InvParts
<1> DEFINE m == worker[w].mail
<1>1. PICK o \in {"sent", "failed", "ambiguous"}, taken \in {0, 1} :
         /\ o = "sent" => taken = 1
         /\ o = "failed" => taken = 0
         /\ accepted' = [accepted EXCEPT ![m] = @ + taken]
         /\ worker' = [worker EXCEPT ![w].step = "complete", ![w].outcome = o]
    BY DEF Send
<1>2. worker[w].step = "send" /\ Holds(w) /\ incident' = incident /\ mail' = mail /\ faults' = faults
    BY DEF Send, Holds
<1>3. m \in Mail /\ accepted[m] = 0 /\ mail[m].status \in {"processing", "failed_final"}
    BY <1>t, <1>2 DEF DeliveryPart, DeliveryInv
<1> HIDE DEF m
<1>4. /\ accepted' \in [Mail -> Nat] /\ accepted'[m] = taken
      /\ \A x \in Mail : x # m => accepted'[x] = accepted[x]
    BY <1>t, <1>1, <1>3 DEF DeliveryPart
<1> DEFINE ws == [worker[w] EXCEPT !.step = "complete", !.outcome = o]
<1>5. worker[w] \in LoopState
    BY <1>t DEF DeliveryPart
<1>6. /\ ws \in LoopState /\ ws.step = "complete" /\ ws.outcome = o
      /\ ws.mail = m /\ ws.token = worker[w].token
    BY <1>5 DEF LoopState, m
<1>7. worker' = [worker EXCEPT ![w] = ws]
    BY <1>1, <1>t DEF DeliveryPart
<1> HIDE DEF ws
<1>8. /\ worker' \in [Workers -> LoopState] /\ worker'[w] = ws
      /\ \A v \in Workers : v # w => worker'[v] = worker[v]
    BY <1>t, <1>6, <1>7 DEF DeliveryPart
<1>9. \A v \in Workers : Holds(v)' <=> Holds(v)
    BY <1>2, <1>6, <1>8 DEF Holds
<1>10. \A v \in Workers : worker'[v].mail = worker[v].mail
    BY <1>6, <1>8 DEF m
<1>11. \A v \in Workers : Holds(v) /\ v # w => worker[v].mail # m
    BY <1>t, <1>2 DEF DeliveryPart, DeliveryInv, m
<1>12. DeliveryInv'
    <2>1. ASSUME NEW v \in Workers, Holds(v)'
          PROVE  LET x == worker'[v].mail
                 IN  /\ x \in Mail
                     /\ mail'[x].status \in {"processing", "failed_final"}
                     /\ mail'[x].attempts = worker'[v].token
                     /\ worker'[v].step = "send" => accepted'[x] = 0
                     /\ worker'[v].step = "complete" =>
                           /\ worker'[v].outcome # "none"
                           /\ worker'[v].outcome = "sent" => accepted'[x] = 1
                           /\ worker'[v].outcome = "failed" => accepted'[x] = 0
        <3>1. CASE v = w
            <4>1. mail[m].attempts = worker[w].token
                BY <1>t, <1>2 DEF DeliveryPart, DeliveryInv, m
            <4> QED
                BY <3>1, <4>1, <1>1, <1>2, <1>3, <1>4, <1>6, <1>8
        <3>2. CASE v # w
            <4>1. worker'[v] = worker[v] /\ Holds(v) /\ worker[v].mail # m
                BY <2>1, <3>2, <1>8, <1>9, <1>11
            <4>2. worker[v].mail \in Mail
                BY <4>1, <1>t DEF DeliveryPart, DeliveryInv
            <4> QED
                BY <4>1, <4>2, <1>2, <1>4, <1>t DEF DeliveryPart, DeliveryInv
        <3> QED
            BY <3>1, <3>2
    <2>2. \A u, v \in Workers : Holds(u)' /\ Holds(v)' /\ worker'[u].mail = worker'[v].mail => u = v
        BY <1>9, <1>10, <1>t DEF DeliveryPart, DeliveryInv
    <2> QED
        BY <2>1, <2>2, <1>2, <1>t DEF DeliveryPart, DeliveryInv
<1>13. MailedAtMostOnce' /\ RecordedOutcomeTrue'
    BY <1>t, <1>2, <1>3, <1>4 DEF DeliveryPart, MailedAtMostOnce, RecordedOutcomeTrue
<1>14. DeliveryPart'
    BY <1>t, <1>2, <1>4, <1>8, <1>12, <1>13 DEF DeliveryPart
<1>15. RowsKept /\ IncidentsKept
    BY <1>2 DEF RowsKept, IncidentsKept, MailInv, IncidentTypeOK
<1>16. OrderKept
    BY <1>2, <1>3, <1>4, Queues DEF OrderKept
<1> QED
    BY <1>14, <1>15, <1>16, KeptParts

(* A loop gives up what it holds, and the row of one message it held alone   *)
(* may become what its completion records.                                   *)
LEMMA ReleaseKeepsDelivery ==
    ASSUME DeliveryPart, NEW w \in Workers, NEW e \in LoopState, e.step = "idle",
           worker' = [worker EXCEPT ![w] = e], accepted' = accepted,
           faults' \in 0..MaxFaults,
           \/ mail' = mail
           \/ /\ worker[w].step = "complete" /\ Owned(w)
              /\ mail' = [mail EXCEPT ![worker[w].mail] =
                                          Completed(mail[worker[w].mail], worker[w].outcome)]
    PROVE  /\ DeliveryPart' /\ RowsKept
           /\ \A m \in Mail : mail'[m].status \notin {"none", "pending"} =>
                                  mail[m].status \notin {"none", "pending"}
<1> DEFINE m == worker[w].mail
<1>1. /\ worker' \in [Workers -> LoopState] /\ worker'[w].step = "idle"
      /\ \A v \in Workers : v # w => worker'[v] = worker[v]
    BY DEF DeliveryPart
<1>2. \A v \in Workers : Holds(v)' => v # w /\ worker'[v] = worker[v] /\ Holds(v)
    BY <1>1 DEF Holds
<1>3. \/ mail' = mail
      \/ /\ Holds(w) /\ m \in Mail /\ mail[m].status = "processing"
         /\ mail' \in [Mail -> MessageRow]
         /\ \A x \in Mail : x # m => mail'[x] = mail[x]
         /\ mail'[m].status \in {"sent", "failed_final", "pending"}
         /\ mail'[m].status = "sent" => accepted[m] = 1
         /\ mail'[m].status = "pending" => accepted[m] = 0 /\ mail'[m].attempts < MaxAttempts
    <2> SUFFICES ASSUME worker[w].step = "complete", Owned(w),
                        mail' = [mail EXCEPT ![m] = Completed(mail[m], worker[w].outcome)]
                 PROVE  /\ Holds(w) /\ m \in Mail /\ mail[m].status = "processing"
                        /\ mail' \in [Mail -> MessageRow]
                        /\ \A x \in Mail : x # m => mail'[x] = mail[x]
                        /\ mail'[m].status \in {"sent", "failed_final", "pending"}
                        /\ mail'[m].status = "sent" => accepted[m] = 1
                        /\ mail'[m].status = "pending" =>
                               accepted[m] = 0 /\ mail'[m].attempts < MaxAttempts
        OBVIOUS
    <2>1. Holds(w) /\ mail[m].status = "processing"
        BY DEF Holds, Owned
    <2>2. /\ m \in Mail /\ worker[w].outcome # "none"
          /\ worker[w].outcome = "sent" => accepted[m] = 1
          /\ worker[w].outcome = "failed" => accepted[m] = 0
        BY <2>1 DEF DeliveryPart, DeliveryInv
    <2>3. worker[w].outcome \in {"sent", "failed", "ambiguous"} /\ mail[m] \in MessageRow
        BY <2>2 DEF DeliveryPart, LoopState
    <2> HIDE DEF m
    <2> DEFINE r == Completed(mail[m], worker[w].outcome)
    <2>4. /\ r \in MessageRow /\ r.attempts = mail[m].attempts
          /\ r.status \in {"sent", "failed_final", "pending"}
          /\ r.status = "sent" => worker[w].outcome = "sent"
          /\ r.status = "pending" => worker[w].outcome = "failed" /\ mail[m].attempts < MaxAttempts
        BY <2>3, CompletedFacts
    <2> HIDE DEF r
    <2>5. mail' = [mail EXCEPT ![m] = r]
        BY DEF r
    <2>6. /\ mail' \in [Mail -> MessageRow] /\ mail'[m] = r
          /\ \A x \in Mail : x # m => mail'[x] = mail[x]
        BY <2>2, <2>4, <2>5 DEF DeliveryPart
    <2> QED
        BY <2>1, <2>2, <2>4, <2>6
<1>4. \A v \in Workers : Holds(v)' /\ mail' # mail => worker[v].mail # m
    BY <1>2, <1>3 DEF DeliveryPart, DeliveryInv
<1> HIDE DEF m
<1>5. DeliveryInv'
    <2>1. ASSUME NEW v \in Workers, Holds(v)'
          PROVE  LET x == worker'[v].mail
                 IN  /\ x \in Mail
                     /\ mail'[x].status \in {"processing", "failed_final"}
                     /\ mail'[x].attempts = worker'[v].token
                     /\ worker'[v].step = "send" => accepted'[x] = 0
                     /\ worker'[v].step = "complete" =>
                           /\ worker'[v].outcome # "none"
                           /\ worker'[v].outcome = "sent" => accepted'[x] = 1
                           /\ worker'[v].outcome = "failed" => accepted'[x] = 0
        <3>1. worker'[v] = worker[v] /\ Holds(v) /\ worker[v].mail \in Mail
            BY <2>1, <1>2 DEF DeliveryPart, DeliveryInv
        <3>2. mail'[worker[v].mail] = mail[worker[v].mail]
            BY <2>1, <3>1, <1>3, <1>4
        <3> QED
            BY <3>1, <3>2 DEF DeliveryPart, DeliveryInv
    <2>2. \A u, v \in Workers : Holds(u)' /\ Holds(v)' /\ worker'[u].mail = worker'[v].mail => u = v
        BY <1>2 DEF DeliveryPart, DeliveryInv
    <2>3. \A x \in Mail : mail'[x].status = "pending" => mail'[x].attempts < MaxAttempts
        BY <1>3 DEF DeliveryPart, DeliveryInv
    <2> QED
        BY <2>1, <2>2, <2>3 DEF DeliveryInv
<1>6. RecordedOutcomeTrue' /\ MailedAtMostOnce'
    BY <1>3 DEF DeliveryPart, RecordedOutcomeTrue, MailedAtMostOnce
<1>7. DeliveryPart'
    BY <1>1, <1>3, <1>5, <1>6 DEF DeliveryPart
<1>8. RowsKept
    BY <1>3 DEF RowsKept, Settled
<1> QED
    BY <1>3, <1>7, <1>8

(* Recording the outcome of an attempt, with the close of the incident it    *)
(* may settle, keeps MailInv.                                                *)
LEMMA CompleteKeepsInv ==
    ASSUME MailInv, NEW w \in Workers, Complete(w)
    PROVE  MailInv'
<1>t. DeliveryPart
    BY InvParts
<1> DEFINE m == worker[w].mail
<1>1. incident \in [Nodes -> Seq({"open", "recovered", "closed"})]
    BY DEF MailInv, IncidentTypeOK
<1>2. NextRound(w) \in LoopState /\ NextRound(w).step = "idle"
    BY <1>t, LoopFacts DEF DeliveryPart
<1>3. /\ worker[w].step = "complete" /\ accepted' = accepted /\ faults' = faults
      /\ worker' = [worker EXCEPT ![w] = NextRound(w)]
      /\ \/ mail' = mail
         \/ Owned(w) /\ mail' = [mail EXCEPT ![m] = Completed(mail[m], worker[w].outcome)]
      /\ \/ incident' = incident
         \/ /\ m \in IncidentMail
            /\ incident' = [incident EXCEPT ![m[1]] = CloseComplete(mail)[m[1]]]
    BY DEF Complete
<1>4. /\ DeliveryPart' /\ RowsKept
      /\ \A x \in Mail : mail'[x].status \notin {"none", "pending"} =>
                             mail[x].status \notin {"none", "pending"}
    <2>1. faults' \in 0..MaxFaults
        BY <1>t, <1>3 DEF DeliveryPart
    <2> QED
        BY <1>t, <1>2, <1>3, <2>1, ReleaseKeepsDelivery
<1>5. OrderKept
    BY <1>3, <1>4, Queues DEF OrderKept
<1>6. \A n \in Nodes : \A i \in DOMAIN incident[n] : \A k \in {"failure", "recovery"} :
         <<n, i, k>> \in Mail
    <2> SUFFICES ASSUME NEW n \in Nodes, NEW i \in DOMAIN incident[n]
                 PROVE  i \in 1..MaxIncidents
        BY DEF Mail, IncidentMail
    <2>1. incident[n] \in Seq({"open", "recovered", "closed"})
        BY <1>1
    <2> QED
        BY <2>1, BoundsAssumption DEF BoundsAssumption, MailInv, IncidentsBounded
<1>7. IncidentsKept
    <2>1. CASE incident' = incident
        BY <1>1, <2>1 DEF IncidentsKept
    <2>2. CASE m \in IncidentMail /\ incident' = [incident EXCEPT ![m[1]] = CloseComplete(mail)[m[1]]]
        <3>1. m[1] \in Nodes
            BY <2>2 DEF IncidentMail
        <3> HIDE DEF m
        <3>2. /\ incident' \in [Nodes -> Seq({"open", "recovered", "closed"})]
              /\ \A n \in Nodes : incident'[n] = incident[n] \/ incident'[n] = CloseComplete(mail)[n]
            BY <1>1, <2>2, <3>1, CloseFacts
        <3>3. \A n \in Nodes : \A i \in DOMAIN incident[n] : \A k \in {"failure", "recovery"} :
                 Settled(mail[<<n, i, k>>]) => Settled(mail'[<<n, i, k>>])
            BY <1>4, <1>6 DEF RowsKept
        <3> QED
            BY <1>1, <3>2, <3>3, CloseFacts DEF IncidentsKept
    <2> QED
        BY <1>3, <2>1, <2>2
<1> QED
    BY <1>4, <1>5, <1>7, KeptParts

(* A loop that fails or dies leaves its message as it is.                    *)
LEMMA FaultKeepsInv ==
    ASSUME MailInv, NEW w \in Workers, DatabaseError(w) \/ WorkerDies(w)
    PROVE  MailInv'
<1>t. DeliveryPart
    BY InvParts
<1>1. /\ mail' = mail /\ accepted' = accepted /\ incident' = incident
      /\ faults < MaxFaults /\ faults' = faults + 1
      /\ \/ worker' = [worker EXCEPT ![w] = NextRound(w)]
         \/ worker' = [worker EXCEPT ![w] = Idle]
    BY DEF DatabaseError, WorkerDies
<1>2. faults' \in 0..MaxFaults
    BY <1>t, <1>1, BoundsAssumption DEF BoundsAssumption, DeliveryPart
<1>3. /\ NextRound(w) \in LoopState /\ NextRound(w).step = "idle"
      /\ Idle \in LoopState /\ Idle.step = "idle"
    BY <1>t, LoopFacts DEF DeliveryPart
<1>4. DeliveryPart' /\ RowsKept
    BY <1>t, <1>1, <1>2, <1>3, ReleaseKeepsDelivery
<1>5. OrderKept
    BY <1>1 DEF OrderKept
<1>6. IncidentsKept
    BY <1>1 DEF IncidentsKept, MailInv, IncidentTypeOK
<1> QED
    BY <1>4, <1>5, <1>6, KeptParts

(* Time passing changes the due and stale marks of a row and nothing else.   *)
LEMMA TimeKeepsInv ==
    ASSUME MailInv, NEW m \in Mail, RetryDelayPasses(m) \/ LeasePasses(m)
    PROVE  MailInv'
<1>t. DeliveryPart
    BY InvParts
<1>1. accepted' = accepted /\ incident' = incident /\ worker' = worker /\ faults' = faults
    BY DEF RetryDelayPasses, LeasePasses
<1>2. /\ mail' \in [Mail -> MessageRow]
      /\ \A x \in Mail : mail'[x].status = mail[x].status /\ mail'[x].attempts = mail[x].attempts
    <2> DEFINE d == [mail[m] EXCEPT !.due = TRUE]
    <2> DEFINE l == [mail[m] EXCEPT !.stale = TRUE]
    <2>1. mail \in [Mail -> MessageRow] /\ mail[m] \in MessageRow
        BY <1>t DEF DeliveryPart
    <2>2. /\ d \in MessageRow /\ d.status = mail[m].status /\ d.attempts = mail[m].attempts
          /\ l \in MessageRow /\ l.status = mail[m].status /\ l.attempts = mail[m].attempts
        BY <2>1 DEF MessageRow
    <2>3. mail' = [mail EXCEPT ![m] = d] \/ mail' = [mail EXCEPT ![m] = l]
        BY DEF RetryDelayPasses, LeasePasses
    <2> HIDE DEF d, l
    <2> QED
        BY <2>1, <2>2, <2>3
<1>3. DeliveryInv'
    BY <1>t, <1>1, <1>2 DEF DeliveryPart, DeliveryInv, Holds
<1>4. MailedAtMostOnce' /\ RecordedOutcomeTrue'
    BY <1>t, <1>1, <1>2 DEF DeliveryPart, MailedAtMostOnce, RecordedOutcomeTrue
<1>5. DeliveryPart'
    BY <1>t, <1>1, <1>2, <1>3, <1>4 DEF DeliveryPart
<1>6. RowsKept /\ OrderKept
    BY <1>1, <1>2, Queues DEF RowsKept, OrderKept, Settled
<1>7. IncidentsKept
    BY <1>1 DEF IncidentsKept, MailInv, IncidentTypeOK
<1> QED
    BY <1>5, <1>6, <1>7, KeptParts

(* Inserting a message that was not there keeps the delivery part.           *)
LEMMA InsertKeepsDelivery ==
    ASSUME DeliveryPart, NEW m \in Mail, mail[m].status = "none",
           mail' = [mail EXCEPT ![m] = Pending],
           accepted' = accepted, worker' = worker, faults' = faults
    PROVE  DeliveryPart'
<1>1. /\ mail' \in [Mail -> MessageRow] /\ mail'[m] = Pending
      /\ \A x \in Mail : x # m => mail'[x] = mail[x]
    BY RowFacts DEF DeliveryPart
<1>2. accepted[m] = 0
    BY DEF DeliveryPart, RecordedOutcomeTrue
<1>3. \A v \in Workers : Holds(v) => worker[v].mail \in Mail /\ worker[v].mail # m
    BY DEF DeliveryPart, DeliveryInv
<1>4. DeliveryInv'
    <2>1. \A v \in Workers : Holds(v)' <=> Holds(v)
        BY DEF Holds
    <2>2. \A v \in Workers : Holds(v) => mail'[worker[v].mail] = mail[worker[v].mail]
        BY <1>1, <1>3
    <2>3. \A x \in Mail : mail'[x].status = "pending" => mail'[x].attempts < MaxAttempts
        BY <1>1, RowFacts, AttemptsAssumption DEF AttemptsAssumption, DeliveryPart, DeliveryInv
    <2> QED
        BY <2>1, <2>2, <2>3 DEF DeliveryPart, DeliveryInv
<1>5. MailedAtMostOnce' /\ RecordedOutcomeTrue'
    BY <1>1, <1>2, RowFacts DEF DeliveryPart, MailedAtMostOnce, RecordedOutcomeTrue
<1> QED
    BY <1>1, <1>4, <1>5 DEF DeliveryPart

(* An alert belongs to no incident.                                          *)
LEMMA AlertKeepsInv ==
    ASSUME MailInv, NEW a \in Alerts, InsertAlert(a)
    PROVE  MailInv'
<1>t. DeliveryPart
    BY InvParts
<1>1. /\ mail[a] = NoMessage /\ mail' = [mail EXCEPT ![a] = Pending]
      /\ incident' = incident /\ accepted' = accepted /\ worker' = worker /\ faults' = faults
      /\ a \in Mail
    BY Queues DEF InsertAlert
<1>2. DeliveryPart'
    BY <1>t, <1>1, RowFacts, InsertKeepsDelivery
<1>3. \A x \in IncidentMail : mail'[x] = mail[x]
    <2>1. a \notin IncidentMail
        BY AlertsAssumption DEF AlertsAssumption, IncidentMail
    <2> QED
        BY <1>t, <1>1, <2>1, Queues DEF DeliveryPart
<1>4. \A n \in Nodes : \A i \in 1..MaxIncidents : \A k \in {"failure", "recovery"} :
         <<n, i, k>> \in IncidentMail
    BY DEF IncidentMail
<1>5. MailOfIncidents'
    BY <1>1, <1>3, <1>4 DEF MailInv, MailOfIncidents
<1>6. IncidentHasItsMail'
    <2> SUFFICES ASSUME NEW n \in Nodes, NEW i \in DOMAIN incident[n]
                 PROVE  /\ incident[n][i] = "open" => i = Len(incident[n])
                        /\ mail'[<<n, i, "failure">>].status # "none"
                        /\ incident[n][i] # "open" <=> mail'[<<n, i, "recovery">>].status # "none"
                        /\ incident[n][i] = "closed" =>
                              \A k \in {"failure", "recovery"} : Settled(mail'[<<n, i, k>>])
        BY <1>1 DEF IncidentHasItsMail
    <2>1. incident[n] \in Seq({"open", "recovered", "closed"})
        BY DEF MailInv, IncidentTypeOK
    <2>2. i \in 1..MaxIncidents
        BY <2>1, BoundsAssumption DEF BoundsAssumption, MailInv, IncidentsBounded
    <2>3. /\ mail'[<<n, i, "failure">>] = mail[<<n, i, "failure">>]
          /\ mail'[<<n, i, "recovery">>] = mail[<<n, i, "recovery">>]
        BY <1>3, <1>4, <2>2
    <2>4. /\ incident[n][i] = "open" => i = Len(incident[n])
          /\ mail[<<n, i, "failure">>].status # "none"
          /\ incident[n][i] # "open" <=> mail[<<n, i, "recovery">>].status # "none"
          /\ incident[n][i] = "closed" =>
                \A k \in {"failure", "recovery"} : Settled(mail[<<n, i, k>>])
        BY DEF MailInv, IncidentHasItsMail
    <2> QED
        BY <2>3, <2>4
<1>7. FailureBeforeRecovery'
    <2>1. \A x \in IncidentMail : FailureOf(x) \in IncidentMail
        BY DEF IncidentMail, FailureOf
    <2> QED
        BY <1>1, <1>3, <2>1 DEF MailInv, FailureBeforeRecovery
<1>8. IncidentTypeOK' /\ IncidentsBounded'
    BY <1>1, <1>2 DEF MailInv, IncidentTypeOK, IncidentsBounded, DeliveryPart
<1> QED
    BY <1>2, <1>5, <1>6, <1>7, <1>8 DEF MailInv, DeliveryPart

(* An observation opens the next incident of its node or ends the one that   *)
(* is open, and finds the message it inserts not yet there.                  *)
LEMMA ObservationKeepsInv ==
    ASSUME MailInv, NEW n \in Nodes, NEW failed, NEW recovered,
           collector_observe(n, failed, recovered),
           accepted' = accepted, worker' = worker, faults' = faults
    PROVE  MailInv'
<1>t. DeliveryPart
    BY InvParts
<1> DEFINE S == {"open", "recovered", "closed"}
<1> DEFINE last == Len(incident[n])
<1>1. incident \in [Nodes -> Seq(S)] /\ incident[n] \in Seq(S)
    BY DEF MailInv, IncidentTypeOK
<1>2. last \in Nat /\ DOMAIN incident[n] = 1..last /\ last <= MaxIncidents
    BY <1>1 DEF MailInv, IncidentsBounded
<1>3. \A x \in Nodes : \A i \in 1..MaxIncidents : \A k \in {"failure", "recovery"} :
         <<x, i, k>> \in Mail
    BY DEF Mail, IncidentMail
<1>4. \A x \in Nodes : \A i \in DOMAIN incident[x] : i \in 1..MaxIncidents
    <2> SUFFICES ASSUME NEW x \in Nodes, NEW i \in DOMAIN incident[x]
                 PROVE  i \in 1..MaxIncidents
        OBVIOUS
    <2>1. incident[x] \in Seq(S)
        BY <1>1
    <2> QED
        BY <2>1, BoundsAssumption DEF BoundsAssumption, MailInv, IncidentsBounded
<1>5. CASE /\ Latest(n) # "open" /\ last < MaxIncidents
           /\ incident' = [incident EXCEPT ![n] = Append(@, "open")]
           /\ mail' = [mail EXCEPT ![<<n, last + 1, "failure">>] = Pending]
    <2> DEFINE new == <<n, last + 1, "failure">>
    <2>1. last + 1 \in 1..MaxIncidents /\ last + 1 \notin DOMAIN incident[n]
        BY <1>2, <1>5, BoundsAssumption DEF BoundsAssumption
    <2>2. /\ new \in Mail /\ mail[new].status = "none"
          /\ mail[<<n, last + 1, "recovery">>].status = "none"
        BY <1>3, <2>1 DEF MailInv, MailOfIncidents
    <2>3. DeliveryPart'
        BY <1>t, <1>5, <2>2, InsertKeepsDelivery
    <2>4. mail'[new] = Pending /\ \A x \in Mail : x # new => mail'[x] = mail[x]
        BY <1>t, <1>5, <2>2 DEF DeliveryPart
    <2>5. /\ incident' \in [Nodes -> Seq(S)]
          /\ \A x \in Nodes : x # n => incident'[x] = incident[x]
          /\ Len(incident'[n]) = last + 1 /\ DOMAIN incident'[n] = 1..(last + 1)
          /\ incident'[n][last + 1] = "open"
          /\ \A i \in 1..last : incident'[n][i] = incident[n][i]
        BY <1>1, <1>2, <1>5
    <2>6. \A i \in 1..last : incident[n][i] # "open"
        <3> SUFFICES ASSUME NEW i \in 1..last, incident[n][i] = "open" PROVE FALSE
            OBVIOUS
        <3>1. i = last
            BY <1>2 DEF MailInv, IncidentHasItsMail
        <3> QED
            BY <1>1, <1>2, <1>5, <3>1 DEF Latest
    <2> HIDE DEF S, last, new
    <2>7. IncidentTypeOK' /\ IncidentsBounded'
        <3>1. IncidentTypeOK'
            BY <2>3, <2>5 DEF IncidentTypeOK, DeliveryPart, S
        <3>2. \A x \in Nodes : Len(incident'[x]) <= MaxIncidents
            BY <2>1, <2>5 DEF MailInv, IncidentsBounded
        <3> QED
            BY <3>1, <3>2 DEF IncidentsBounded
    <2>8. MailOfIncidents'
        <3> SUFFICES ASSUME NEW x \in Nodes, NEW i \in 1..MaxIncidents, NEW k \in {"failure", "recovery"},
                            mail'[<<x, i, k>>].status # "none"
                     PROVE  i \in DOMAIN incident'[x]
            BY DEF MailOfIncidents
        <3>1. CASE <<x, i, k>> = new
            BY <1>2, <3>1, <2>5 DEF new
        <3>2. CASE <<x, i, k>> # new
            <4>1. i \in DOMAIN incident[x]
                BY <3>2, <1>3, <2>4 DEF MailInv, MailOfIncidents
            <4> QED
                BY <4>1, <1>2, <2>5
        <3> QED
            BY <3>1, <3>2
    <2>9. IncidentHasItsMail'
        <3> SUFFICES ASSUME NEW x \in Nodes, NEW i \in DOMAIN incident'[x]
                     PROVE  /\ incident'[x][i] = "open" => i = Len(incident'[x])
                            /\ mail'[<<x, i, "failure">>].status # "none"
                            /\ incident'[x][i] # "open" <=> mail'[<<x, i, "recovery">>].status # "none"
                            /\ incident'[x][i] = "closed" =>
                                  \A k \in {"failure", "recovery"} : Settled(mail'[<<x, i, k>>])
            BY DEF IncidentHasItsMail
        <3>1. CASE x = n /\ i = last + 1
            <4>1. <<x, i, "recovery">> # new /\ <<x, i, "recovery">> \in Mail
                BY <3>1, <2>1, <1>3 DEF new
            <4> QED
                BY <3>1, <4>1, <2>2, <2>4, <2>5, RowFacts DEF new
        <3>2. CASE ~(x = n /\ i = last + 1)
            <4>1. i \in DOMAIN incident[x] /\ incident'[x][i] = incident[x][i]
                BY <3>2, <1>2, <2>5
            <4>2. \A k \in {"failure", "recovery"} : <<x, i, k>> \in Mail /\ <<x, i, k>> # new
                BY <3>2, <4>1, <1>3, <1>4 DEF new
            <4>3. incident'[x][i] = "open" => i = Len(incident'[x])
                <5>1. incident[x][i] = "open" => i = Len(incident[x])
                    BY <4>1 DEF MailInv, IncidentHasItsMail
                <5>2. CASE x = n
                    BY <5>2, <4>1, <1>2, <2>6
                <5>3. CASE x # n
                    BY <5>1, <5>3, <4>1, <2>5
                <5> QED
                    BY <5>2, <5>3
            <4>4. /\ mail[<<x, i, "failure">>].status # "none"
                  /\ incident[x][i] # "open" <=> mail[<<x, i, "recovery">>].status # "none"
                  /\ incident[x][i] = "closed" =>
                        \A k \in {"failure", "recovery"} : Settled(mail[<<x, i, k>>])
                BY <4>1 DEF MailInv, IncidentHasItsMail
            <4>5. /\ mail'[<<x, i, "failure">>] = mail[<<x, i, "failure">>]
                  /\ mail'[<<x, i, "recovery">>] = mail[<<x, i, "recovery">>]
                BY <4>2, <2>4
            <4> QED
                BY <4>1, <4>3, <4>4, <4>5
        <3> QED
            BY <3>1, <3>2
    <2>10. FailureBeforeRecovery'
        <3> SUFFICES ASSUME NEW x \in IncidentMail, x[3] = "recovery",
                            accepted[x] > 0 \/ mail'[x].status \notin {"none", "pending"}
                     PROVE  Settled(mail'[FailureOf(x)])
            BY DEF FailureBeforeRecovery
        <3>1. x \in Mail /\ x # new /\ FailureOf(x) \in Mail
            BY DEF new, Mail, IncidentMail, FailureOf
        <3>2. Settled(mail[FailureOf(x)])
            BY <3>1, <2>4 DEF MailInv, FailureBeforeRecovery
        <3>3. FailureOf(x) # new
            BY <2>2, <3>2 DEF Settled
        <3> QED
            BY <3>1, <3>2, <3>3, <2>4
    <2> QED
        BY <2>3, <2>7, <2>8, <2>9, <2>10 DEF MailInv, DeliveryPart
<1>6. CASE /\ Latest(n) = "open"
           /\ incident' = [incident EXCEPT ![n][last] = "recovered"]
           /\ mail' = [mail EXCEPT ![<<n, last, "recovery">>] = Pending]
    <2> DEFINE new == <<n, last, "recovery">>
    <2>1. last \in DOMAIN incident[n] /\ incident[n][last] = "open"
        BY <1>1, <1>2, <1>6 DEF Latest
    <2>2. last \in 1..MaxIncidents
        BY <1>4, <2>1
    <2>3. new \in Mail /\ mail[new].status = "none"
        BY <1>3, <2>1, <2>2 DEF MailInv, IncidentHasItsMail
    <2>4. DeliveryPart'
        BY <1>t, <1>6, <2>3, InsertKeepsDelivery
    <2>5. mail'[new] = Pending /\ \A x \in Mail : x # new => mail'[x] = mail[x]
        BY <1>t, <1>6, <2>3 DEF DeliveryPart
    <2>6. /\ incident' \in [Nodes -> Seq(S)]
          /\ \A x \in Nodes : x # n => incident'[x] = incident[x]
          /\ Len(incident'[n]) = last /\ DOMAIN incident'[n] = 1..last
          /\ incident'[n][last] = "recovered"
          /\ \A i \in 1..last : i # last => incident'[n][i] = incident[n][i]
        <3>1. [incident[n] EXCEPT ![last] = "recovered"] \in Seq(S)
            <4> DEFINE q == [i \in 1..last |-> IF i = last THEN "recovered" ELSE incident[n][i]]
            <4>1. [incident[n] EXCEPT ![last] = "recovered"] = q
                BY <1>1, <1>2, <2>1
            <4>0. \A i \in 1..Len(incident[n]) : incident[n][i] \in S
                <5> HIDE DEF S
                <5> QED
                    BY <1>1
            <4>2. \A i \in 1..last : (IF i = last THEN "recovered" ELSE incident[n][i]) \in S
                BY <4>0
            <4>3. q \in Seq(S)
                BY <1>2, <4>2
            <4> QED
                BY <4>1, <4>3
        <3>2. incident' = [incident EXCEPT ![n] = [incident[n] EXCEPT ![last] = "recovered"]]
            BY <1>6
        <3>3. incident'[n] = [incident[n] EXCEPT ![last] = "recovered"]
            BY <1>1, <3>2
        <3>4. Len([incident[n] EXCEPT ![last] = "recovered"]) = last
            BY <1>1
        <3> QED
            BY <1>1, <1>2, <2>1, <3>1, <3>2, <3>3, <3>4
    <2> HIDE DEF S, last, new
    <2>7. IncidentTypeOK' /\ IncidentsBounded'
        <3>1. IncidentTypeOK'
            BY <2>4, <2>6 DEF IncidentTypeOK, DeliveryPart, S
        <3>2. \A x \in Nodes : Len(incident'[x]) <= MaxIncidents
            BY <1>2, <2>6 DEF MailInv, IncidentsBounded
        <3> QED
            BY <3>1, <3>2 DEF IncidentsBounded
    <2>8. \A x \in Nodes : DOMAIN incident'[x] = DOMAIN incident[x]
        BY <1>2, <2>6
    <2>9. MailOfIncidents'
        <3> SUFFICES ASSUME NEW x \in Nodes, NEW i \in 1..MaxIncidents, NEW k \in {"failure", "recovery"},
                            mail'[<<x, i, k>>].status # "none"
                     PROVE  i \in DOMAIN incident[x]
            BY <2>8 DEF MailOfIncidents
        <3>1. CASE <<x, i, k>> = new
            BY <2>1, <3>1 DEF new
        <3>2. CASE <<x, i, k>> # new
            BY <3>2, <1>3, <2>5 DEF MailInv, MailOfIncidents
        <3> QED
            BY <3>1, <3>2
    <2>10. IncidentHasItsMail'
        <3> SUFFICES ASSUME NEW x \in Nodes, NEW i \in DOMAIN incident[x]
                     PROVE  /\ incident'[x][i] = "open" => i = Len(incident'[x])
                            /\ mail'[<<x, i, "failure">>].status # "none"
                            /\ incident'[x][i] # "open" <=> mail'[<<x, i, "recovery">>].status # "none"
                            /\ incident'[x][i] = "closed" =>
                                  \A k \in {"failure", "recovery"} : Settled(mail'[<<x, i, k>>])
            BY <2>8 DEF IncidentHasItsMail
        <3>0. \A k \in {"failure", "recovery"} : <<x, i, k>> \in Mail
            BY <1>3, <1>4
        <3>1. CASE x = n /\ i = last
            <4>1. <<x, i, "failure">> # new /\ <<x, i, "recovery">> = new
                BY <3>1 DEF new
            <4>2. mail'[<<x, i, "failure">>].status # "none"
                BY <3>0, <4>1, <2>5 DEF MailInv, IncidentHasItsMail
            <4> QED
                BY <3>1, <4>1, <4>2, <2>5, <2>6, RowFacts
        <3>2. CASE ~(x = n /\ i = last)
            <4>1. incident'[x][i] = incident[x][i] /\ Len(incident'[x]) = Len(incident[x])
                BY <3>2, <1>2, <2>6 DEF last
            <4>2. \A k \in {"failure", "recovery"} : <<x, i, k>> # new
                BY <3>2 DEF new
            <4> QED
                BY <3>0, <4>1, <4>2, <2>5 DEF MailInv, IncidentHasItsMail
        <3> QED
            BY <3>1, <3>2
    <2>11. FailureBeforeRecovery'
        <3> SUFFICES ASSUME NEW x \in IncidentMail, x[3] = "recovery",
                            accepted[x] > 0 \/ mail'[x].status \notin {"none", "pending"}
                     PROVE  Settled(mail'[FailureOf(x)])
            BY DEF FailureBeforeRecovery
        <3>1. x \in Mail /\ FailureOf(x) \in Mail /\ FailureOf(x) # new
            BY DEF new, Mail, IncidentMail, FailureOf
        <3>2. accepted[x] > 0 \/ mail[x].status \notin {"none", "pending"}
            BY <3>1, <2>5, RowFacts
        <3> QED
            BY <3>1, <3>2, <2>5 DEF MailInv, FailureBeforeRecovery
    <2> QED
        BY <2>4, <2>7, <2>9, <2>10, <2>11 DEF MailInv, DeliveryPart
<1>7. CASE UNCHANGED <<incident, mail>>
    <2>1. DeliveryPart'
        BY <1>t, <1>7 DEF DeliveryPart, DeliveryInv, Holds, MailedAtMostOnce, RecordedOutcomeTrue
    <2>2. RowsKept /\ OrderKept /\ IncidentsKept
        BY <1>1, <1>7 DEF RowsKept, OrderKept, IncidentsKept
    <2> QED
        BY <2>1, <2>2, KeptParts
<1> QED
    BY <1>5, <1>6, <1>7 DEF collector_observe

(* Every step of the mail and of any observer keeps MailInv.                 *)
LEMMA NextKeepsMailInv ==
    ASSUME MailInv, [MailNext \/ \E n \in Nodes : Observation(n)]_incidentVars
    PROVE  MailInv'
<1>1. ASSUME NEW w \in Workers, Work(w) \/ DatabaseError(w) \/ WorkerDies(w) PROVE MailInv'
    BY <1>1, DispatchKeepsInv, SendKeepsInv, CompleteKeepsInv, FaultKeepsInv DEF Work
<1>2. ASSUME NEW m \in Mail, RetryDelayPasses(m) \/ LeasePasses(m) PROVE MailInv'
    BY <1>2, TimeKeepsInv
<1>3. ASSUME NEW a \in Alerts, InsertAlert(a) PROVE MailInv'
    BY <1>3, AlertKeepsInv
<1>4. ASSUME NEW n \in Nodes, Observation(n) PROVE MailInv'
    BY <1>4, ObservationKeepsInv DEF Observation
<1>5. CASE UNCHANGED incidentVars
    BY <1>5 DEF incidentVars, MailInv, IncidentTypeOK, DeliveryInv, Holds, MailedAtMostOnce,
           RecordedOutcomeTrue, IncidentsBounded, MailOfIncidents, IncidentHasItsMail,
           FailureBeforeRecovery
<1> QED
    BY <1>1, <1>2, <1>3, <1>4, <1>5 DEF MailNext

-----------------------------------------------------------------------------
(* The inductive invariant of the mail holds under every interleaving of the *)
(* notification loops, their faults and any observations.                    *)
THEOREM MailInvariant == MailSpec => []MailInv
<1>1. MailInv /\ [MailNext \/ \E n \in Nodes : Observation(n)]_incidentVars => MailInv'
    BY NextKeepsMailInv
<1> QED
    BY <1>1, InitMail, PTL DEF MailSpec

(* A message is submitted to the relay at most once, whatever answer is lost *)
(* and whichever worker dies (claim and complete of migration 0011).         *)
THEOREM SubmittedOnce == MailSpec => []MailedAtMostOnce
<1>1. MailInv => MailedAtMostOnce
    BY DEF MailInv
<1> QED
    BY <1>1, MailInvariant, PTL

(* What the table records of a message is what the relay did with it.        *)
THEOREM OutcomesTrue == MailSpec => []RecordedOutcomeTrue
<1>1. MailInv => RecordedOutcomeTrue
    BY DEF MailInv
<1> QED
    BY <1>1, MailInvariant, PTL

(* No recovery is mailed before the outcome of its failure is known.         *)
THEOREM RecoveryFollowsFailure == MailSpec => []FailureBeforeRecovery
<1>1. MailInv => FailureBeforeRecovery
    BY DEF MailInv
<1> QED
    BY <1>1, MailInvariant, PTL

(* Every incident has the messages its state calls for.                      *)
THEOREM IncidentsHaveMail == MailSpec => []IncidentHasItsMail
<1>1. MailInv => IncidentHasItsMail
    BY DEF MailInv
<1> QED
    BY <1>1, MailInvariant, PTL

-----------------------------------------------------------------------------
(* The collector is one of the observers MailSpec admits: a thread reports   *)
(* an incident in one transaction, never a failure and a recovery at once,   *)
(* and no other step of it touches the mail.  So the mail's guarantees hold  *)
(* while the collector runs.                                                 *)
THEOREM CollectorKeepsMail == CollectorSpec => MailSpec
<1>1. CollectorInit => IncidentInit
    BY DEF CollectorInit
<1>2. ASSUME [CollectorNext]_vars
      PROVE  [MailNext \/ \E n \in Nodes : Observation(n)]_incidentVars
    <2>1. CASE StartCycle \/ DeadlinePasses \/ EndCycle
        BY <2>1 DEF StartCycle, DeadlinePasses, EndCycle
    <2>2. ASSUME NEW n \in Nodes, Collect(n)
          PROVE  [MailNext \/ \E x \in Nodes : Observation(x)]_incidentVars
        <3>1. CASE ReadNode(n) \/ ObserveRuntime(n) \/ Scrape(n) \/ RecordMetrics(n)
            BY <3>1 DEF ReadNode, ObserveRuntime, Scrape, RecordMetrics
        <3>2. CASE ReportIncident(n)
            <4>1. CASE collector_observe(n, FailedForIncident(thread[n]), thread[n].seen = "healthy")
                <5>1. ~(FailedForIncident(thread[n]) /\ thread[n].seen = "healthy")
                    BY DEF FailedForIncident
                <5>2. /\ FailedForIncident(thread[n]) \in BOOLEAN
                      /\ (thread[n].seen = "healthy") \in BOOLEAN
                    BY DEF FailedForIncident
                <5>3. UNCHANGED <<accepted, worker, faults>>
                    BY <3>2 DEF ReportIncident
                <5>4. Observation(n)
                    BY <4>1, <5>1, <5>2, <5>3 DEF Observation
                <5> QED
                    BY <5>4
            <4>2. CASE UNCHANGED <<incident, mail>>
                BY <3>2, <4>2 DEF ReportIncident, incidentVars
            <4> QED
                BY <3>2, <4>1, <4>2 DEF ReportIncident
        <3> QED
            BY <2>2, <3>1, <3>2 DEF Collect
    <2>3. ASSUME NEW n \in Nodes, Fleet(n)
          PROVE  UNCHANGED incidentVars
        BY <2>3 DEF Fleet, RequestStop, HelperStops, RequestStart, ProcessStarts,
               ProcessHealthy, ProcessExits
    <2>4. CASE UNCHANGED vars
        BY <2>4 DEF vars, incidentVars
    <2> QED
        BY <1>2, <2>1, <2>2, <2>3, <2>4 DEF CollectorNext, CollectorStep
<1> QED
    BY <1>1, <1>2, PTL DEF CollectorSpec, MailSpec
=============================================================================
