--------------------------- MODULE OidcLoginProofs ---------------------------
(***************************************************************************)
(* Proofs about OidcLogin for any number of callbacks, flows and probes    *)
(* and any limits.  OidcInv is inductive and LoginsSafe is one of its      *)
(* conjuncts.                                                              *)
(***************************************************************************)
EXTENDS OidcLogin, FiniteSetTheorems, TLAPS

FlowRow == [status : Statuses, expires : Nat]
CallbackRow == [pc : CallbackPcs, flow : 0 .. Flows, roles : {"none", "viewer", "admin"}]
Claimable(f) == flow[f].status = "open" /\ flow[f].expires > now

(* A callback that goes on changes the pc of its own row only.               *)
LEMMA GotoFacts ==
    ASSUME callback \in [Callbacks -> CallbackRow], NEW c \in Callbacks, NEW p \in CallbackPcs,
           Goto(c, p)
    PROVE  /\ callback' \in [Callbacks -> CallbackRow]
           /\ callback'[c].pc = p /\ callback'[c].flow = callback[c].flow
           /\ \A d \in Callbacks : d # c => callback'[d] = callback[d]
<1> DEFINE r == [callback[c] EXCEPT !.pc = p]
<1>1. r \in CallbackRow /\ r.pc = p /\ r.flow = callback[c].flow
    BY DEF CallbackRow
<1>2. callback' = [callback EXCEPT ![c] = r]
    BY DEF Goto
<1> HIDE DEF r
<1> QED
    BY <1>1, <1>2

(* A callback that keeps its flow, or lets go of it, while flows and issued  *)
(* sessions stay.                                                            *)
LEMMA CallbackMoves ==
    ASSUME OidcInv, NEW c \in Callbacks,
           callback' \in [Callbacks -> CallbackRow],
           \A d \in Callbacks : d # c => callback'[d] = callback[d],
           Owns(c)' => Owns(c) /\ callback'[c].flow = callback[c].flow,
           UNCHANGED <<flow, issued>>
    PROVE  FlowsOwned' /\ FlowIssuesOnce'
<1>1. \A d \in Callbacks : Owns(d)' => Owns(d) /\ callback'[d].flow = callback[d].flow
    BY DEF Owns
<1>2. FlowsOwned
    BY DEF OidcInv
<1> QED
    BY <1>1, <1>2 DEF FlowsOwned, FlowIssuesOnce, OidcInv, LoginsSafe

(* The contract's variables stay, and with them what is said of the alerts.  *)
LEMMA ContractStays ==
    ASSUME OidcInv, UNCHANGED contractVars
    PROVE  /\ AlertsAlternate'
           /\ contract' \in {"none", "healthy", "failed"}
           /\ probe' \in [Probes -> {"idle", "healthy", "failed"}]
           /\ alerts' \in Seq({"healthy", "failed"}) /\ bg' \in BOOLEAN
BY DEF OidcInv, OidcTypeOK, LoginsSafe, AlertsAlternate, contractVars

(* Fewer claimable flows are within the limit, too.                          *)
LEMMA FewerFlows ==
    ASSUME OidcInv, \A f \in 1 .. Flows : Claimable(f)' => Claimable(f)
    PROVE  FlowsBounded'
<1> DEFINE S == {f \in 1 .. Flows : flow[f].status = "open" /\ flow[f].expires > now}
           T == {f \in 1 .. Flows : flow'[f].status = "open" /\ flow'[f].expires > now'}
<1>1. T \subseteq S
    BY DEF Claimable
<1>2. IsFiniteSet(S)
    <2>1. IsFiniteSet(1 .. Flows)
        BY FS_Interval, OidcAssumption DEF OidcAssumption
    <2> QED
        BY <2>1, FS_Subset
<1>3. Cardinality(S) <= FlowLimit
    BY DEF OidcInv, LoginsSafe, FlowsBounded
<1>4. Cardinality(T) <= Cardinality(S) /\ Cardinality(T) \in Nat /\ Cardinality(S) \in Nat
    BY <1>1, <1>2, FS_Subset, FS_CardinalityType
<1>5. Cardinality(T) <= FlowLimit
    BY <1>3, <1>4, OidcAssumption DEF OidcAssumption
<1> QED
    BY <1>5 DEF FlowsBounded

(* begin: the flow that is inserted makes at most one more than the counted  *)
(* ones; the expired rows that go were not claimable.                        *)
LEMMA CreateKeeps ==
    ASSUME OidcInv, NEW f \in 1 .. Flows, create(f)
    PROVE  OidcInv'
<1> DEFINE kept == {g \in 1 .. Flows : flow[g].status # "none" /\ flow[g].expires > now}
           active == {g \in kept : flow[g].status = "open"}
           T == {g \in 1 .. Flows : flow'[g].status = "open" /\ flow'[g].expires > now'}
<1>1. /\ flow[f].status = "none" /\ Cardinality(active) < FlowLimit
      /\ flow' = [g \in 1 .. Flows |->
             IF g = f THEN [status |-> "open", expires |-> now + FlowTime]
             ELSE IF g \in kept \/ flow[g].status = "none" THEN flow[g]
             ELSE [flow[g] EXCEPT !.status = "deleted"]]
      /\ UNCHANGED <<now, callback, account, made, issued>> /\ UNCHANGED contractVars
    BY DEF create
<1>2. /\ now \in Nat /\ flow \in [1 .. Flows -> FlowRow]
      /\ callback \in [Callbacks -> CallbackRow]
    BY DEF OidcInv, OidcTypeOK, FlowRow, CallbackRow
<1>3. \A g \in 1 .. Flows : g # f =>
         /\ flow'[g] \in FlowRow
         /\ \/ flow'[g].status = flow[g].status
            \/ flow'[g].status = "deleted" /\ flow[g].status # "none"
         /\ flow'[g].expires = flow[g].expires
    <2> SUFFICES ASSUME NEW g \in 1 .. Flows, g # f
                 PROVE  /\ flow'[g] \in FlowRow
                        /\ \/ flow'[g].status = flow[g].status
                           \/ flow'[g].status = "deleted" /\ flow[g].status # "none"
                        /\ flow'[g].expires = flow[g].expires
        OBVIOUS
    <2>1. CASE g \in kept \/ flow[g].status = "none"
        <3>1. flow'[g] = flow[g]
            BY <1>1, <2>1
        <3> QED
            BY <1>2, <3>1
    <2>2. CASE ~(g \in kept \/ flow[g].status = "none")
        <3>1. flow'[g] = [flow[g] EXCEPT !.status = "deleted"]
            BY <1>1, <2>2
        <3> QED
            BY <1>2, <2>2, <3>1 DEF FlowRow, Statuses
    <2> QED
        BY <2>1, <2>2
<1>4. flow'[f] = [status |-> "open", expires |-> now + FlowTime]
    BY <1>1
<1>5. flow'[f] \in FlowRow /\ flow'[f].status = "open"
    BY <1>2, <1>4, OidcAssumption DEF OidcAssumption, FlowRow, Statuses
<1>6. flow' \in [1 .. Flows -> FlowRow]
    BY <1>1, <1>3, <1>5
<1>7. OidcTypeOK'
    BY <1>1, <1>6, ContractStays DEF OidcInv, OidcTypeOK, FlowRow
<1>8. FlowsOwned' /\ FlowIssuesOnce'
    <2>1. \A c \in Callbacks : Owns(c)' <=> Owns(c)
        BY <1>1 DEF Owns
    <2>2. \A g \in 1 .. Flows : flow'[g].status \in {"none", "open"} => issued[g] = 0
        BY <1>1, <1>3 DEF OidcInv, FlowsOwned
    <2>3. \A g \in 1 .. Flows : flow[g].status \notin {"none", "open"} =>
             flow'[g].status \notin {"none", "open"}
        BY <1>1, <1>3
    <2>4. FlowsOwned'
        BY <1>1, <2>1, <2>2, <2>3 DEF OidcInv, FlowsOwned
    <2> QED
        BY <1>1, <2>4 DEF OidcInv, LoginsSafe, FlowIssuesOnce
<1>9. FlowsBounded'
    <2>1. IsFiniteSet(active)
        <3>1. IsFiniteSet(1 .. Flows)
            BY FS_Interval, OidcAssumption DEF OidcAssumption
        <3> QED
            BY <3>1, FS_Subset
    <2>2. T \subseteq active \cup {f}
        BY <1>1, <1>3
    <2>3. /\ IsFiniteSet(active \cup {f})
          /\ Cardinality(active \cup {f}) <= Cardinality(active) + 1
        <3> HIDE DEF active
        <3>1. CASE f \in active
            <4>1. active \cup {f} = active
                BY <3>1
            <4>2. Cardinality(active) \in Nat
                BY <2>1, FS_CardinalityType
            <4> QED
                BY <2>1, <4>1, <4>2
        <3>2. CASE f \notin active
            <4>1. Cardinality(active) \in Nat
                BY <2>1, FS_CardinalityType
            <4>2. /\ IsFiniteSet(active \cup {f})
                  /\ Cardinality(active \cup {f}) = Cardinality(active) + 1
                BY <2>1, <3>2, FS_AddElement
            <4> QED
                BY <4>1, <4>2
        <3> QED
            BY <3>1, <3>2
    <2>4. Cardinality(T) <= Cardinality(active \cup {f})
        BY <2>2, <2>3, FS_Subset
    <2>5. /\ Cardinality(active) \in Nat /\ Cardinality(T) \in Nat
          /\ Cardinality(active \cup {f}) \in Nat
        BY <2>1, <2>2, <2>3, FS_CardinalityType, FS_Subset
    <2>6. Cardinality(T) <= FlowLimit
        <3> HIDE DEF T, active
        <3> QED
            BY <1>1, <2>3, <2>4, <2>5, OidcAssumption DEF OidcAssumption
    <2> QED
        BY <2>6 DEF FlowsBounded
<1> QED
    BY <1>1, <1>7, <1>8, <1>9, ContractStays
       DEF OidcInv, AccountCounted, LoginsSafe, OneAccountPerSubject

(* consume: an open flow becomes the flow of this callback alone.            *)
LEMMA ConsumeKeeps ==
    ASSUME OidcInv, NEW c \in Callbacks, NEW f \in 1 .. Flows, consume(c, f)
    PROVE  OidcInv'
<1>1. /\ callback[c].pc = "idle"
      /\ UNCHANGED <<now, account, made, issued>> /\ UNCHANGED contractVars
    BY DEF consume
<1>2. /\ now \in Nat /\ flow \in [1 .. Flows -> FlowRow]
      /\ callback \in [Callbacks -> CallbackRow] /\ ~Owns(c)
    BY <1>1 DEF OidcInv, OidcTypeOK, FlowRow, CallbackRow, Owns
<1>3. CASE Goto(c, "reject") /\ UNCHANGED flow
    <2>1. /\ callback' \in [Callbacks -> CallbackRow] /\ callback'[c].pc = "reject"
          /\ \A d \in Callbacks : d # c => callback'[d] = callback[d]
        BY <1>2, <1>3, GotoFacts DEF CallbackPcs
    <2>2. ~Owns(c)'
        BY <2>1 DEF Owns
    <2>3. FlowsOwned' /\ FlowIssuesOnce'
        BY <1>1, <1>3, <2>1, <2>2, CallbackMoves
    <2>4. FlowsBounded'
        BY <1>1, <1>3, FewerFlows DEF Claimable
    <2>5. OidcTypeOK'
        BY <1>1, <1>3, <2>1, ContractStays DEF OidcInv, OidcTypeOK, CallbackRow
    <2> QED
        BY <1>1, <2>3, <2>4, <2>5, ContractStays
           DEF OidcInv, AccountCounted, LoginsSafe, OneAccountPerSubject
<1>4. CASE /\ flow[f].status = "open"
           /\ flow' = [flow EXCEPT ![f].status = "consumed"]
           /\ callback' = [callback EXCEPT ![c] = [Idle EXCEPT !.pc = "claims", !.flow = f]]
    <2> DEFINE r == [Idle EXCEPT !.pc = "claims", !.flow = f]
               row == [flow[f] EXCEPT !.status = "consumed"]
    <2>1. r \in CallbackRow /\ r.pc = "claims" /\ r.flow = f
        <3>1. Idle \in CallbackRow
            BY OidcAssumption DEF OidcAssumption, Idle, CallbackRow, CallbackPcs
        <3>2. f \in 0 .. Flows
            BY OidcAssumption DEF OidcAssumption
        <3> QED
            BY <3>1, <3>2 DEF CallbackRow, CallbackPcs
    <2>2. row \in FlowRow /\ row.status = "consumed"
        BY <1>2 DEF FlowRow, Statuses
    <2>3. flow' = [flow EXCEPT ![f] = row] /\ callback' = [callback EXCEPT ![c] = r]
        BY <1>4
    <2> HIDE DEF r, row
    <2>4. /\ callback' \in [Callbacks -> CallbackRow]
          /\ callback'[c].pc = "claims" /\ callback'[c].flow = f
          /\ \A d \in Callbacks : d # c => callback'[d] = callback[d]
        BY <1>2, <2>1, <2>3
    <2>5. /\ flow' \in [1 .. Flows -> FlowRow] /\ flow'[f].status = "consumed"
          /\ \A g \in 1 .. Flows : g # f => flow'[g] = flow[g]
        BY <1>2, <2>2, <2>3
    <2>6. \A d \in Callbacks : Owns(d) => callback[d].flow \in 1 .. Flows /\ callback[d].flow # f
        BY <1>4 DEF OidcInv, FlowsOwned
    <2>7. Owns(c)' /\ \A d \in Callbacks : d # c => (Owns(d)' <=> Owns(d))
        BY <2>4 DEF Owns
    <2>8. issued[f] = 0
        BY <1>4 DEF OidcInv, FlowsOwned
    <2>9. FlowsOwned'
        <3>1. \A d \in Callbacks : Owns(d)' =>
                 /\ callback'[d].flow \in 1 .. Flows
                 /\ flow'[callback'[d].flow].status \notin {"none", "open"}
                 /\ issued'[callback'[d].flow] = 0
            BY <1>1, <2>4, <2>5, <2>6, <2>7, <2>8 DEF OidcInv, FlowsOwned
        <3>2. \A d, e \in Callbacks :
                 Owns(d)' /\ Owns(e)' /\ callback'[d].flow = callback'[e].flow => d = e
            BY <2>4, <2>6, <2>7 DEF OidcInv, FlowsOwned
        <3>3. \A g \in 1 .. Flows : flow'[g].status \in {"none", "open"} => issued'[g] = 0
            BY <1>1, <2>5 DEF OidcInv, FlowsOwned
        <3> QED
            BY <3>1, <3>2, <3>3 DEF FlowsOwned
    <2>10. FlowsBounded'
        BY <1>1, <2>5, FewerFlows DEF Claimable
    <2>11. OidcTypeOK'
        BY <1>1, <2>4, <2>5, ContractStays DEF OidcInv, OidcTypeOK, CallbackRow, FlowRow
    <2> QED
        BY <1>1, <2>9, <2>10, <2>11, ContractStays
           DEF OidcInv, AccountCounted, LoginsSafe, OneAccountPerSubject, FlowIssuesOnce
<1> QED
    BY <1>3, <1>4 DEF consume

(* A step of a callback that keeps its flow, or lets go of it, and changes   *)
(* at most the account besides.                                              *)
LEMMA StepKept ==
    ASSUME OidcInv, NEW c \in Callbacks,
           callback' \in [Callbacks -> CallbackRow],
           \A d \in Callbacks : d # c => callback'[d] = callback[d],
           Owns(c)' => Owns(c) /\ callback'[c].flow = callback[c].flow,
           account' \in [exists : BOOLEAN, enabled : BOOLEAN, roles : {"none", "viewer", "admin"}],
           AccountCounted', UNCHANGED <<now, flow, issued>>, UNCHANGED contractVars
    PROVE  OidcInv'
<1>1. FlowsOwned' /\ FlowIssuesOnce'
    BY CallbackMoves
<1>2. FlowsBounded'
    BY FewerFlows DEF Claimable
<1>3. OidcTypeOK'
    BY ContractStays DEF OidcInv, OidcTypeOK, CallbackRow
<1> QED
    BY <1>1, <1>2, <1>3, ContractStays DEF OidcInv, LoginsSafe, OneAccountPerSubject, AccountCounted

(* The steps between the consumed flow and the session, and the refusals.    *)
LEMMA CallbackKeeps ==
    ASSUME OidcInv, NEW c \in Callbacks,
           \/ Verify(c) \/ assert_identity_allowed(c) \/ FindAccount(c) \/ InsertAccount(c)
           \/ record_success(c) \/ record_identity_rejection(c) \/ record_rejection(c)
    PROVE  OidcInv'
<1>1. /\ callback \in [Callbacks -> CallbackRow]
      /\ account \in [exists : BOOLEAN, enabled : BOOLEAN, roles : {"none", "viewer", "admin"}]
      /\ AccountCounted
    BY DEF OidcInv, OidcTypeOK, CallbackRow
<1>2. UNCHANGED <<now, flow, issued>> /\ UNCHANGED contractVars
    BY DEF Verify, assert_identity_allowed, FindAccount, InsertAccount, record_success,
           record_identity_rejection, record_rejection
<1>3. /\ account' \in [exists : BOOLEAN, enabled : BOOLEAN, roles : {"none", "viewer", "admin"}]
      /\ AccountCounted'
    <2>1. CASE InsertAccount(c) /\ ~account.exists
        <3>1. /\ account' = [exists |-> TRUE, enabled |-> TRUE, roles |-> callback[c].roles]
              /\ made' = made + 1
            BY <2>1 DEF InsertAccount
        <3>2. made' = 1
            BY <1>1, <2>1, <3>1 DEF AccountCounted
        <3>3. callback[c].roles \in {"none", "viewer", "admin"}
            BY <1>1 DEF CallbackRow
        <3> QED
            BY <3>1, <3>2, <3>3 DEF AccountCounted
    <2>2. CASE ~(InsertAccount(c) /\ ~account.exists)
        <3>1. UNCHANGED <<account, made>>
            BY <2>2 DEF Verify, assert_identity_allowed, FindAccount, InsertAccount,
                        record_success, record_identity_rejection, record_rejection
        <3> QED
            BY <1>1, <3>1 DEF AccountCounted
    <2> QED
        BY <2>1, <2>2
<1>4. ASSUME NEW p \in CallbackPcs, Goto(c, p),
             p \in {"idle", "rejectIdentity", "reject"} \/ Owns(c)
      PROVE  OidcInv'
    <2>1. /\ callback' \in [Callbacks -> CallbackRow]
          /\ callback'[c].pc = p /\ callback'[c].flow = callback[c].flow
          /\ \A d \in Callbacks : d # c => callback'[d] = callback[d]
        BY <1>1, <1>4, GotoFacts
    <2>2. Owns(c)' => Owns(c)
        BY <1>4, <2>1 DEF Owns
    <2> QED
        BY <1>2, <1>3, <2>1, <2>2, StepKept
<1>5. {"allowed", "lookup", "insert", "success", "issue", "rejectIdentity", "reject"}
          \subseteq CallbackPcs
    BY DEF CallbackPcs
<1>6. CASE \E roles \in {"viewer", "admin"} :
              /\ callback[c].pc = "claims"
              /\ callback' = [callback EXCEPT ![c].pc = "allowed", ![c].roles = roles]
    <2>1. PICK roles \in {"viewer", "admin"} :
              callback' = [callback EXCEPT ![c].pc = "allowed", ![c].roles = roles]
        BY <1>6
    <2> DEFINE r == [callback[c] EXCEPT !.pc = "allowed", !.roles = roles]
    <2>2. r \in CallbackRow /\ r.pc = "allowed" /\ r.flow = callback[c].flow
        BY <1>1 DEF CallbackRow, CallbackPcs
    <2>3. callback' = [callback EXCEPT ![c] = r]
        BY <2>1
    <2> HIDE DEF r
    <2>4. /\ callback' \in [Callbacks -> CallbackRow] /\ callback'[c].flow = callback[c].flow
          /\ \A d \in Callbacks : d # c => callback'[d] = callback[d]
        BY <1>1, <2>2, <2>3
    <2>5. Owns(c)
        BY <1>6 DEF Owns
    <2> QED
        BY <1>2, <1>3, <2>4, <2>5, StepKept
<1>7. CASE record_rejection(c)
    <2>1. Idle \in CallbackRow /\ Idle.pc = "idle"
        BY OidcAssumption DEF OidcAssumption, Idle, CallbackRow, CallbackPcs
    <2>2. callback' = [callback EXCEPT ![c] = Idle]
        BY <1>7 DEF record_rejection
    <2>3. /\ callback' \in [Callbacks -> CallbackRow] /\ callback'[c].pc = "idle"
          /\ \A d \in Callbacks : d # c => callback'[d] = callback[d]
        BY <1>1, <2>1, <2>2
    <2>4. ~Owns(c)'
        BY <2>3 DEF Owns
    <2> QED
        BY <1>2, <1>3, <2>3, <2>4, StepKept
<1>8. CASE Verify(c)
    BY <1>4, <1>5, <1>6, <1>8 DEF Verify
<1>9. CASE assert_identity_allowed(c) \/ FindAccount(c) \/ InsertAccount(c) \/ record_success(c)
    <2>1. Owns(c)
        BY <1>9 DEF Owns, assert_identity_allowed, FindAccount, InsertAccount, record_success
    <2>2. \E p \in {"lookup", "insert", "success", "issue", "rejectIdentity", "reject"} : Goto(c, p)
        BY <1>9 DEF assert_identity_allowed, FindAccount, InsertAccount, record_success
    <2> QED
        BY <1>4, <1>5, <2>1, <2>2
<1>10. CASE record_identity_rejection(c)
    BY <1>4, <1>5, <1>10 DEF record_identity_rejection
<1> QED
    BY <1>7, <1>8, <1>9, <1>10

(* The session is the one session of the callback's flow.                    *)
LEMMA IssueKeeps ==
    ASSUME OidcInv, NEW c \in Callbacks, IssueSession(c)
    PROVE  OidcInv'
<1>1. /\ callback \in [Callbacks -> CallbackRow] /\ issued \in [1 .. Flows -> Nat]
      /\ account \in [exists : BOOLEAN, enabled : BOOLEAN, roles : {"none", "viewer", "admin"}]
      /\ AccountCounted
    BY DEF OidcInv, OidcTypeOK, CallbackRow
<1>2. UNCHANGED <<now, flow, account, made>> /\ UNCHANGED contractVars
    BY DEF IssueSession
<1>3. Owns(c)
    BY DEF IssueSession, Owns
<1> DEFINE f == callback[c].flow
<1>4. f \in 1 .. Flows /\ issued[f] = 0 /\ flow[f].status \notin {"none", "open"}
    BY <1>3 DEF OidcInv, FlowsOwned
<1>5. CASE Goto(c, "reject") /\ UNCHANGED issued
    <2>1. /\ callback' \in [Callbacks -> CallbackRow] /\ callback'[c].pc = "reject"
          /\ \A d \in Callbacks : d # c => callback'[d] = callback[d]
        BY <1>1, <1>5, GotoFacts DEF CallbackPcs
    <2>2. ~Owns(c)'
        BY <2>1 DEF Owns
    <2>3. AccountCounted'
        BY <1>1, <1>2 DEF AccountCounted
    <2> QED
        BY <1>1, <1>2, <1>5, <2>1, <2>2, <2>3, StepKept
<1>6. CASE /\ issued' = [issued EXCEPT ![f] = @ + 1]
           /\ callback' = [callback EXCEPT ![c] = Idle]
    <2>1. Idle \in CallbackRow /\ Idle.pc = "idle"
        BY OidcAssumption DEF OidcAssumption, Idle, CallbackRow, CallbackPcs
    <2>2. /\ callback' \in [Callbacks -> CallbackRow] /\ callback'[c].pc = "idle"
          /\ \A d \in Callbacks : d # c => callback'[d] = callback[d]
        BY <1>1, <1>6, <2>1
    <2> HIDE DEF f
    <2>3. /\ issued' \in [1 .. Flows -> Nat] /\ issued'[f] = 1
          /\ \A g \in 1 .. Flows : g # f => issued'[g] = issued[g]
        BY <1>1, <1>4, <1>6
    <2> USE DEF f
    <2>4. ~Owns(c)' /\ \A d \in Callbacks : d # c => (Owns(d)' <=> Owns(d))
        BY <2>2 DEF Owns
    <2>5. \A d \in Callbacks : d # c /\ Owns(d) => callback[d].flow # f
        BY <1>3 DEF OidcInv, FlowsOwned
    <2>6. FlowsOwned'
        <3>1. \A d \in Callbacks : Owns(d)' =>
                 /\ callback'[d].flow \in 1 .. Flows
                 /\ flow'[callback'[d].flow].status \notin {"none", "open"}
                 /\ issued'[callback'[d].flow] = 0
            BY <1>2, <2>2, <2>3, <2>4, <2>5 DEF OidcInv, FlowsOwned
        <3>2. \A d, e \in Callbacks :
                 Owns(d)' /\ Owns(e)' /\ callback'[d].flow = callback'[e].flow => d = e
            BY <2>2, <2>4 DEF OidcInv, FlowsOwned
        <3>3. \A g \in 1 .. Flows : flow'[g].status \in {"none", "open"} => issued'[g] = 0
            BY <1>2, <1>4, <2>3 DEF OidcInv, FlowsOwned
        <3> QED
            BY <3>1, <3>2, <3>3 DEF FlowsOwned
    <2>7. FlowIssuesOnce'
        BY <2>3 DEF OidcInv, LoginsSafe, FlowIssuesOnce
    <2>8. FlowsBounded'
        BY <1>2, FewerFlows DEF Claimable
    <2>9. OidcTypeOK'
        BY <1>2, <2>2, <2>3, ContractStays DEF OidcInv, OidcTypeOK, CallbackRow
    <2> QED
        BY <1>2, <2>6, <2>7, <2>8, <2>9, ContractStays
           DEF OidcInv, AccountCounted, LoginsSafe, OneAccountPerSubject
<1> QED
    BY <1>5, <1>6 DEF IssueSession

(* An administrator's change of the account, and the clock.                  *)
LEMMA AccountKeeps ==
    ASSUME OidcInv, update_authorization \/ Tick
    PROVE  OidcInv'
<1>1. UNCHANGED <<flow, callback, issued, made>> /\ UNCHANGED contractVars
    BY DEF update_authorization, Tick, loginVars
<1>2. now \in Nat /\ now' \in Nat /\ now <= now'
    <2>1. now \in Nat
        BY DEF OidcInv, OidcTypeOK
    <2>2. now' = now \/ now' = now + 1
        BY DEF update_authorization, Tick
    <2> QED
        BY <2>1, <2>2
<1>3. /\ account' \in [exists : BOOLEAN, enabled : BOOLEAN, roles : {"none", "viewer", "admin"}]
      /\ account'.exists = account.exists
    BY DEF update_authorization, Tick, loginVars, OidcInv, OidcTypeOK
<1>4. FlowsBounded'
    <2>1. \A f \in 1 .. Flows : flow[f].expires \in Nat
        BY DEF OidcInv, OidcTypeOK
    <2> QED
        BY <1>1, <1>2, <2>1, FewerFlows DEF Claimable
<1>5. OidcTypeOK'
    BY <1>1, <1>2, <1>3, ContractStays DEF OidcInv, OidcTypeOK
<1>6. FlowsOwned' /\ FlowIssuesOnce'
    BY <1>1 DEF OidcInv, FlowsOwned, Owns, LoginsSafe, FlowIssuesOnce
<1> QED
    BY <1>1, <1>3, <1>4, <1>5, <1>6, ContractStays
       DEF OidcInv, AccountCounted, LoginsSafe, OneAccountPerSubject

(* A probe's finding is written down: an alert is appended exactly when the  *)
(* state row changes, in the same transaction.                               *)
LEMMA HealthKeeps ==
    ASSUME OidcInv, NEW p \in Probes, record_claim_contract_health(p)
    PROVE  /\ AlertsAlternate'
           /\ contract' \in {"none", "healthy", "failed"}
           /\ alerts' \in Seq({"healthy", "failed"})
<1> DEFINE healthy == probe[p]
           changed == IF contract = "none" THEN healthy = "failed" ELSE contract # healthy
<1>1. /\ contract \in {"none", "healthy", "failed"} /\ alerts \in Seq({"healthy", "failed"})
      /\ healthy \in {"healthy", "failed"}
    BY DEF OidcInv, OidcTypeOK, record_claim_contract_health
<1>2. /\ alerts # <<>> => alerts[1] = "failed"
      /\ \A i \in 2 .. Len(alerts) : alerts[i] # alerts[i - 1]
      /\ contract = "failed" => alerts # <<>> /\ alerts[Len(alerts)] = "failed"
      /\ alerts # <<>> => contract = alerts[Len(alerts)]
    BY DEF OidcInv, LoginsSafe, AlertsAlternate
<1>3. \/ UNCHANGED <<contract, alerts>>
      \/ contract' = healthy /\ changed /\ alerts' = Append(alerts, healthy)
      \/ contract' = healthy /\ ~changed /\ alerts' = alerts
    BY DEF record_claim_contract_health
<1>4. CASE UNCHANGED <<contract, alerts>>
    BY <1>1, <1>2, <1>4 DEF AlertsAlternate
<1>5. CASE contract' = healthy /\ changed /\ alerts' = Append(alerts, healthy)
    <2>1. Len(alerts) \in Nat /\ (alerts = <<>> <=> Len(alerts) = 0)
        BY <1>1
    <2>2. /\ alerts' \in Seq({"healthy", "failed"}) /\ Len(alerts') = Len(alerts) + 1
          /\ \A i \in 1 .. Len(alerts) : alerts'[i] = alerts[i]
          /\ alerts'[Len(alerts) + 1] = healthy
        BY <1>1, <1>5
    <2>3. alerts # <<>> => alerts[Len(alerts)] # healthy
        BY <1>1, <1>2, <1>5
    <2>4. alerts = <<>> => healthy = "failed"
        BY <1>1, <1>2, <1>5
    <2> HIDE DEF healthy, changed
    <2>5. alerts' # <<>>
        BY <2>1, <2>2
    <2>6. alerts'[1] = "failed"
        <3>1. CASE alerts = <<>>
            BY <2>1, <2>2, <2>4, <3>1
        <3>2. CASE alerts # <<>>
            <4>1. 1 \in 1 .. Len(alerts)
                BY <2>1, <3>2
            <4> QED
                BY <1>2, <2>2, <3>2, <4>1
        <3> QED
            BY <3>1, <3>2
    <2>7. \A i \in 2 .. Len(alerts') : alerts'[i] # alerts'[i - 1]
        <3> SUFFICES ASSUME NEW i \in 2 .. Len(alerts') PROVE alerts'[i] # alerts'[i - 1]
            OBVIOUS
        <3>1. i - 1 \in 1 .. Len(alerts) /\ alerts # <<>>
            BY <2>1, <2>2
        <3>2. CASE i = Len(alerts) + 1
            BY <2>1, <2>2, <2>3, <3>1, <3>2
        <3>3. CASE i # Len(alerts) + 1
            <4>1. i \in 2 .. Len(alerts) /\ i \in 1 .. Len(alerts)
                BY <2>1, <2>2, <3>3
            <4> QED
                BY <1>2, <2>2, <3>1, <4>1
        <3> QED
            BY <3>2, <3>3
    <2>8. alerts'[Len(alerts')] = healthy /\ contract' = healthy
        BY <1>5, <2>2
    <2> QED
        BY <1>1, <2>2, <2>5, <2>6, <2>7, <2>8 DEF AlertsAlternate
<1>6. CASE contract' = healthy /\ ~changed /\ alerts' = alerts
    <2>1. contract = "none" => alerts = <<>> /\ healthy = "healthy"
        BY <1>1, <1>2, <1>6
    <2>2. contract # "none" => contract' = contract
        BY <1>6
    <2>3. contract = "none" => contract' = "healthy"
        BY <1>6, <2>1
    <2> HIDE DEF healthy, changed
    <2> QED
        BY <1>1, <1>2, <1>6, <2>1, <2>2, <2>3 DEF AlertsAlternate
<1> QED
    BY <1>3, <1>4, <1>5, <1>6

(* The claim contract's steps.                                               *)
LEMMA ContractKeeps ==
    ASSUME OidcInv,
           \/ \E p \in Probes : Discover(p) \/ record_claim_contract_health(p)
           \/ BreakGlassChanges
    PROVE  OidcInv'
<1>1. UNCHANGED loginVars /\ UNCHANGED now
    BY DEF Discover, record_claim_contract_health, BreakGlassChanges
<1>2. /\ AlertsAlternate'
      /\ contract' \in {"none", "healthy", "failed"}
      /\ alerts' \in Seq({"healthy", "failed"})
    <2>1. CASE \E p \in Probes : record_claim_contract_health(p)
        BY <2>1, HealthKeeps
    <2>2. CASE UNCHANGED <<contract, alerts>>
        BY <2>2 DEF OidcInv, OidcTypeOK, LoginsSafe, AlertsAlternate
    <2> QED
        BY <2>1, <2>2 DEF Discover, BreakGlassChanges
<1>3. probe' \in [Probes -> {"idle", "healthy", "failed"}] /\ bg' \in BOOLEAN
    <2>1. probe \in [Probes -> {"idle", "healthy", "failed"}] /\ bg \in BOOLEAN
        BY DEF OidcInv, OidcTypeOK
    <2>2. CASE \E p \in Probes : Discover(p)
        BY <2>1, <2>2 DEF Discover
    <2>3. CASE \E p \in Probes : record_claim_contract_health(p)
        BY <2>1, <2>3 DEF record_claim_contract_health
    <2>4. CASE BreakGlassChanges
        BY <2>1, <2>4 DEF BreakGlassChanges
    <2> QED
        BY <2>2, <2>3, <2>4
<1>4. OidcTypeOK'
    BY <1>1, <1>2, <1>3 DEF OidcInv, OidcTypeOK, loginVars
<1>5. FlowsBounded'
    BY <1>1, FewerFlows DEF Claimable, loginVars
<1> QED
    BY <1>1, <1>2, <1>4, <1>5
       DEF OidcInv, FlowsOwned, Owns, AccountCounted, LoginsSafe, FlowIssuesOnce,
           OneAccountPerSubject, loginVars

\* Before any login, no flow, account, session or alert exists.
LEMMA InitOidc == OidcInit => OidcInv
<1> SUFFICES ASSUME OidcInit PROVE OidcInv
    OBVIOUS
<1>1. NoFlow \in FlowRow /\ NoFlow.status = "none"
    BY DEF NoFlow, FlowRow, Statuses
<1>2. Idle \in CallbackRow /\ Idle.pc = "idle"
    BY OidcAssumption DEF OidcAssumption, Idle, CallbackRow, CallbackPcs
<1>3. /\ flow \in [1 .. Flows -> FlowRow] /\ \A f \in 1 .. Flows : flow[f].status = "none"
      /\ callback \in [Callbacks -> CallbackRow] /\ \A c \in Callbacks : callback[c].pc = "idle"
      /\ issued \in [1 .. Flows -> Nat] /\ \A f \in 1 .. Flows : issued[f] = 0
    BY <1>1, <1>2 DEF OidcInit
<1>4. OidcTypeOK
    BY <1>3 DEF OidcInit, OidcTypeOK, FlowRow, CallbackRow
<1>5. FlowsOwned
    BY <1>3 DEF FlowsOwned, Owns
<1>6. FlowsBounded
    <2>1. {f \in 1 .. Flows : flow[f].status = "open" /\ flow[f].expires > now} = {}
        BY <1>3
    <2>2. Cardinality({}) = 0
        BY FS_EmptySet
    <2>3. 0 <= FlowLimit
        BY OidcAssumption DEF OidcAssumption
    <2> QED
        BY <2>1, <2>2, <2>3 DEF FlowsBounded
<1>7. AccountCounted /\ OneAccountPerSubject /\ FlowIssuesOnce /\ AlertsAlternate
    BY <1>3 DEF OidcInit, AccountCounted, OneAccountPerSubject, FlowIssuesOnce, AlertsAlternate
<1> QED
    BY <1>4, <1>5, <1>6, <1>7 DEF OidcInv, LoginsSafe

(* OidcInv holds in every state of the login through the provider            *)
(* (operator_identity.py and app.py's callback), however many callbacks and  *)
(* health probes interleave.                                                 *)
THEOREM OidcInvariant == OidcSpec => []OidcInv
<1>1. OidcInv /\ [OidcNext]_oidcVars => OidcInv'
    <2> SUFFICES ASSUME OidcInv, [OidcNext]_oidcVars PROVE OidcInv'
        OBVIOUS
    <2>1. ASSUME NEW f \in 1 .. Flows, create(f) PROVE OidcInv'
        BY <2>1, CreateKeeps
    <2>2. ASSUME NEW c \in Callbacks, CallbackStep(c) PROVE OidcInv'
        BY <2>2, ConsumeKeeps, CallbackKeeps, IssueKeeps DEF CallbackStep
    <2>3. CASE update_authorization \/ Tick
        BY <2>3, AccountKeeps
    <2>4. CASE \/ \E p \in Probes : Discover(p) \/ record_claim_contract_health(p)
               \/ BreakGlassChanges
        BY <2>4, ContractKeeps
    <2>5. CASE UNCHANGED oidcVars
        BY <2>5 DEF oidcVars, OidcInv, OidcTypeOK, FlowsOwned, Owns, AccountCounted, LoginsSafe,
                    FlowIssuesOnce, OneAccountPerSubject, FlowsBounded, AlertsAlternate
    <2> QED
        BY <2>1, <2>2, <2>3, <2>4, <2>5 DEF OidcNext
<1> QED
    BY <1>1, InitOidc, PTL DEF OidcSpec

(* A flow issues one session at most, a subject gets one account, a source   *)
(* has no more than FlowLimit flows to consume, and the alerts alternate.    *)
THEOREM LoginsAreSafe == OidcSpec => []LoginsSafe
<1>1. OidcInv => LoginsSafe
    BY DEF OidcInv
<1> QED
    BY <1>1, OidcInvariant, PTL
=============================================================================
