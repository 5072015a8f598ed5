----------------------------- MODULE MediaAccess -----------------------------
(***************************************************************************)
(* Reader credentials of one camera: the grant rows and the request ledger *)
(* of database.py, AccessGrantControl and its HTTP handlers, and the media *)
(* authorization callback (admission gate, attempt limiter, authorizer).   *)
(*                                                                         *)
(* An operator request is a process that checks the ledger, reads the      *)
(* grant and commits one transaction; an authorization is a process that   *)
(* reads target and grant in two statements, and decides.  The database,   *)
(* the operators' server and the authorizer read one clock.                *)
(*                                                                         *)
(* The definitions no action refers to are wrong variants of the           *)
(* definition that follows them.                                           *)
(***************************************************************************)
EXTENDS Integers, FiniteSets, Sequences

CONSTANTS Operators,     \* operator requests that can be in flight
          Readers,       \* authorization callbacks that can be in flight
          Crews,         \* who takes part and how much happens: [ops, readers,
                         \* ids, policies, time], the last three bounding grant
                         \* identifiers, target changes and the clock
          Keys,          \* idempotency keys of the operator's session
          MaxGrants,     \* bound: grant identifiers
          MaxTime,       \* bound: clock ticks of any crew
          MaxInflight,   \* media_auth max_inflight
          MaxPending,    \* maximum_pending_per_peer
          MaxKeys,       \* maximum_keys of the limiter
          Burst          \* burst of a limiter bucket; it refills 1 per tick

VARIABLES now,        \* the clock
          target,     \* what get_access_target returns for the reader's path
          grants,     \* camera_access_grants
          ledger,     \* access_grant_issue_requests
          op,         \* operator requests
          reader,     \* authorization callbacks
          gate,       \* callbacks inside the admission gate
          pending,    \* _pending of the one peer
          buckets,    \* _buckets: least recently used first
          spent,      \* history: allowances per bucket since it was created
          crew        \* the members of Operators and Readers that take part

grantVars == <<grants, ledger>>
limitVars == <<gate, pending, buckets, spent>>
accessVars == <<now, target, grants, ledger, op, reader, gate, pending,
                buckets, spent, crew>>

-----------------------------------------------------------------------------
(* Rows.                                                                   *)

GrantIds == 1 .. MaxGrants
Peer == 0            \* the bucket of the peer; the others are named by grant
Never == MaxTime + 3
NoRequest == [kind |-> "none", key |-> "none", src |-> 0, rev |-> 0,
              overlap |-> 0, life |-> 0]
Absent == [status |-> "absent", primary |-> FALSE, start |-> 0, exp |-> 0,
           revoked |-> Never, rev |-> 0, made |-> NoRequest]
IdleOp == [pc |-> "idle", req |-> NoRequest, at |-> 0, exp |-> 0]
IdleReader == [pc |-> "idle", id |-> 0, grant |-> Absent, late |-> FALSE]

\* The requests an operator form can post: issue, or rotate a grant of the list
\* with the revision the page showed, which is the row's or an older one.
Requests == {[kind |-> "issue", key |-> k, src |-> 0, rev |-> 0,
              overlap |-> 0, life |-> 1] : k \in Keys}
            \cup {[kind |-> "rotate", key |-> k, src |-> g, rev |-> r,
                   overlap |-> 1, life |-> Never] :
                     k \in Keys, g \in GrantIds, r \in 1 .. 2}
Shown(g, rev) == grants[g].status # "absent" /\ rev <= grants[g].rev

\* A grant signed by a verify-only pepper key is what a key rotation leaves.
AccessInit ==
    /\ now = 0
    /\ target = [enabled |-> TRUE, permits |-> TRUE, changes |-> 0]
    /\ \E primary \in BOOLEAN :
          grants = [g \in GrantIds |-> IF g = 1
                      THEN [Absent EXCEPT !.status = "live", !.primary = primary,
                                          !.exp = Never, !.rev = 1]
                      ELSE Absent]
    /\ ledger = {}
    /\ op = [o \in Operators |-> IdleOp]
    /\ reader = [a \in Readers |-> IdleReader]
    /\ gate = 0 /\ pending = 0 /\ buckets = <<>>
    /\ spent = [b \in 0 .. MaxGrants |-> 0]
    /\ crew \in Crews

Live(g) == grants[g].status = "live"
Lower(a, b) == IF a < b THEN a ELSE b

active_at(row, moment) == row.start <= moment /\ moment < row.exp /\ moment < row.revoked

-----------------------------------------------------------------------------
(* Operator side: AccessGrantControl and the PostgreSQL store.             *)

\* A request of the same session and key: identical requests are a replay,
\* any other a conflict.  No row: the request may go on.
_classify_access_grant_request(req) ==
    LET rows == {l \in ledger : l.req.key = req.key}
    IN IF rows = {} THEN "fresh"
       ELSE IF \E l \in rows : l.req = req THEN "replayed" ELSE "conflict"

\* The handler's answer: issued, or a refusal that is journalled before it is
\* sent.  Nothing of it stays behind.
Answer(o) == op' = [op EXCEPT ![o] = IdleOp]

\* create and rotate check the ledger in a transaction of their own, before
\* any grant is read.
BeginRequest(o, req) ==
    /\ o \in crew.ops /\ op[o].pc = "idle"
    /\ req.kind = "rotate" => Shown(req.src, req.rev)
    /\ \/ /\ _classify_access_grant_request(req) = "fresh"
          /\ op' = [op EXCEPT ![o] = [IdleOp EXCEPT
                      !.pc = IF req.kind = "issue" THEN "claim" ELSE "read",
                      !.req = req, !.at = now]]
       \/ /\ _classify_access_grant_request(req) # "fresh"
          /\ Answer(o)
    /\ UNCHANGED <<now, target, grantVars, reader, limitVars, crew>>

\* rotate reads the grant and fixes the old grant's end before its transaction.
ReadCurrent(o) ==
    LET row == grants[op[o].req.src]
    IN /\ op[o].pc = "read"
       /\ IF row.status # "live" \/ row.revoked # Never \/ ~active_at(row, now)
          THEN Answer(o)
          ELSE op' = [op EXCEPT ![o].pc = "claim", ![o].at = now,
                        ![o].exp = Lower(row.exp, now + op[o].req.overlap)]
       /\ UNCHANGED <<now, target, grantVars, reader, limitVars, crew>>

\* The new row of _issue; a camera's first grants are service grants, which
\* may have no end.
_issue(o, req) ==
    [Absent EXCEPT !.status = "live", !.primary = TRUE, !.start = op[o].at,
                   !.exp = Lower(Never, op[o].at + req.life), !.rev = 1, !.made = req]

\* rotate_access_grant under the row lock: the revision the page showed, no
\* revocation, and an end no later than the one it has.
RotationRefused(req, exp) ==
    LET old == grants[req.src]
    IN \/ old.status # "live"
       \/ old.rev # req.rev
       \/ old.revoked # Never
       \/ exp > old.exp
       \/ exp <= old.start

\* The rest of the transaction once the key is claimed: create_access_grant
\* or rotate_access_grant.  A refusal rolls the ledger row back with it.
WriteGrant(o, rows) ==
    LET req == op[o].req
        ids == {g \in 1 .. crew.ids : grants[g].status = "absent"}
        new == CHOOSE g \in ids : \A h \in ids : g <= h
    IN /\ ids # {}
       /\ IF req.kind = "rotate" /\ RotationRefused(req, op[o].exp)
          THEN /\ Answer(o)
               /\ UNCHANGED grantVars
          ELSE /\ grants' = [g \in GrantIds |->
                     IF g = new THEN _issue(o, req)
                     ELSE IF req.kind = "rotate" /\ g = req.src
                          THEN [grants[g] EXCEPT !.exp = op[o].exp, !.rev = @ + 1]
                          ELSE grants[g]]
               /\ ledger' = ledger \cup {[req |-> req, made |-> new] : r \in rows}
               /\ Answer(o)

\* INSERT ... ON CONFLICT DO NOTHING: the unique index serialises the claims of
\* one key.  On a conflict the row is read by a second statement, which sees
\* what has been committed in between.
_claim_access_grant_request(o) ==
    /\ op[o].pc = "claim"
    /\ IF \E l \in ledger : l.req.key = op[o].req.key
       THEN op' = [op EXCEPT ![o].pc = "classify"] /\ UNCHANGED grantVars
       ELSE WriteGrant(o, {op[o].req})
    /\ UNCHANGED <<now, target, reader, limitVars, crew>>

Classify(o) ==
    LET found == _classify_access_grant_request(op[o].req)
    IN /\ op[o].pc = "classify"
       /\ IF found = "fresh" THEN WriteGrant(o, {})
                             ELSE Answer(o) /\ UNCHANGED grantVars
       /\ UNCHANGED <<now, target, reader, limitVars, crew>>

\* revoke reads the grant and the clock; a grant revoked already is the answer.
BeginRevoke(o, g, rev) ==
    /\ o \in crew.ops /\ op[o].pc = "idle"
    /\ Shown(g, rev)
    /\ IF ~Live(g) \/ grants[g].revoked # Never
       THEN Answer(o)
       ELSE op' = [op EXCEPT ![o] = [IdleOp EXCEPT !.pc = "revoke", !.at = now,
                     !.req = [NoRequest EXCEPT !.src = g, !.rev = rev]]]
    /\ UNCHANGED <<now, target, grantVars, reader, limitVars, crew>>

revoke_access_grant(o) ==
    LET g == op[o].req.src
        row == grants[g]
    IN /\ op[o].pc = "revoke"
       /\ IF row.status # "live" \/ row.rev # op[o].req.rev
          THEN Answer(o) /\ UNCHANGED grants
          ELSE /\ grants' = [grants EXCEPT ![g] =
                     IF row.revoked # Never THEN row
                     ELSE [row EXCEPT !.revoked = op[o].at, !.rev = @ + 1]]
               /\ Answer(o)
       /\ UNCHANGED <<now, target, ledger, reader, limitVars, crew>>

\* Inactive grants are deleted with every ledger row that names one of them.
purge_inactive_access_grants(o) ==
    LET gone == {g \in GrantIds : Live(g) /\ (grants[g].revoked <= now \/ grants[g].exp <= now)}
    IN /\ o \in crew.ops /\ op[o].pc = "idle"
       /\ gone # {}
       /\ grants' = [g \in GrantIds |->
                       IF g \in gone THEN [grants[g] EXCEPT !.status = "purged"] ELSE grants[g]]
       /\ ledger' = {l \in ledger : l.made \notin gone /\ l.req.src \notin gone}
       /\ Answer(o)
       /\ UNCHANGED <<now, target, reader, limitVars, crew>>

\* set_access_policy under its revision, camera enable and disable, node stop
\* and maintenance: each changes what the next target read returns.
set_access_policy ==
    /\ target.changes < crew.policies
    /\ \E enabled, permits \in BOOLEAN :
          /\ <<enabled, permits>> # <<target.enabled, target.permits>>
          /\ target' = [enabled |-> enabled, permits |-> permits,
                        changes |-> target.changes + 1]
    /\ UNCHANGED <<now, grantVars, op, reader, limitVars, crew>>

Tick == /\ now < crew.time
        /\ now' = now + 1
        /\ UNCHANGED <<target, grantVars, op, reader, limitVars, crew>>

-----------------------------------------------------------------------------
(* Reader side: the callback of one peer.                                  *)

\* Bucket b after a call at this moment: refilled up to Burst, one token taken
\* if there is one; it moves to the most recently used end, and a new bucket
\* pushes the oldest out when MaxKeys are held.
_allow(b) ==
    LET rest == SelectSeq(buckets, LAMBDA e : e.key # b)
        held == {i \in DOMAIN buckets : buckets[i].key = b}
        kept == IF held = {} /\ Len(rest) >= MaxKeys THEN Tail(rest) ELSE rest
        tokens == IF held = {} THEN Burst
                  ELSE LET e == buckets[CHOOSE i \in held : TRUE]
                       IN Lower(Burst, e.tokens + (now - e.updated))
        ok == tokens >= 1
    IN [ok |-> ok,
        buckets |-> Append(kept, [key |-> b, updated |-> now,
                                  tokens |-> IF ok THEN tokens - 1 ELSE tokens]),
        spent |-> [k \in DOMAIN spent |->
                     IF k = b THEN (IF held = {} THEN 0 ELSE spent[k]) + (IF ok THEN 1 ELSE 0)
                     ELSE IF \E i \in DOMAIN kept : kept[i].key = k THEN spent[k] ELSE 0]]

\* The decision: the pending count and the gate are released in finally blocks.
Decide(a) ==
    /\ reader' = [reader EXCEPT ![a] = IdleReader]
    /\ pending' = pending - 1
    /\ gate' = gate - 1

\* Grants that can no longer be used: nothing may bring one of them back.
Ended == {g \in GrantIds : grants[g].status = "purged"
                           \/ (Live(g) /\ (grants[g].revoked <= now \/ grants[g].exp <= now))}

\* The middleware enters the gate (max_inflight; its global rate is left to the
\* buckets) and authorize calls begin_peer; a reader beyond either is denied.
begin_peer(a, g) ==
    /\ a \in crew.readers /\ reader[a].pc = "idle"
    /\ IF gate >= MaxInflight \/ pending >= MaxPending
       THEN UNCHANGED <<reader, gate, pending>>
       ELSE /\ reader' = [reader EXCEPT ![a] = [IdleReader EXCEPT !.pc = "target",
                            !.id = g, !.late = g \in Ended]]
            /\ gate' = gate + 1
            /\ pending' = pending + 1
    /\ UNCHANGED <<now, target, grantVars, op, buckets, spent, crew>>

ReadTarget(a) ==
    LET peer == _allow(Peer)
    IN /\ reader[a].pc = "target"
       /\ buckets' = peer.buckets /\ spent' = peer.spent
       /\ IF peer.ok /\ target.enabled /\ target.permits
          THEN reader' = [reader EXCEPT ![a].pc = "grant"] /\ UNCHANGED <<gate, pending>>
          ELSE Decide(a)
       /\ UNCHANGED <<now, target, grantVars, op, crew>>

ReadGrant(a) ==
    LET g == reader[a].id
        bucket == _allow(g)
    IN /\ reader[a].pc = "grant"
       /\ IF ~Live(g)
          THEN Decide(a) /\ UNCHANGED <<buckets, spent>>
          ELSE /\ buckets' = bucket.buckets /\ spent' = bucket.spent
               /\ IF bucket.ok
                  THEN /\ reader' = [reader EXCEPT ![a].pc = "check", ![a].grant = grants[g]]
                       /\ UNCHANGED <<gate, pending>>
                  ELSE Decide(a)
       /\ UNCHANGED <<now, target, grantVars, op, crew>>

CheckAnyKey(a) ==
    /\ reader[a].pc = "check"
    /\ \/ /\ active_at(reader[a].grant, now)
          /\ reader' = [reader EXCEPT ![a].pc = "use"]
          /\ UNCHANGED <<gate, pending>>
       \/ Decide(a)
    /\ UNCHANGED <<now, target, grantVars, op, buckets, spent, crew>>

\* The clock is read after the grant; a wrong password is denied.
CheckGrant(a) ==
    /\ reader[a].pc = "check"
    /\ \/ /\ active_at(reader[a].grant, now)
          /\ reader' = [reader EXCEPT ![a].pc = IF reader[a].grant.primary THEN "use" ELSE "rehash"]
          /\ UNCHANGED <<gate, pending>>
       \/ Decide(a)
    /\ UNCHANGED <<now, target, grantVars, op, buckets, spent, crew>>

\* rtsp_proxy_auth_rehash_grant: only on the revision that was read, only an
\* unrevoked row still under another key.
rehash_access_grant(a) ==
    LET g == reader[a].id
        row == grants[g]
    IN /\ reader[a].pc = "rehash"
       /\ IF Live(g) /\ row.rev = reader[a].grant.rev /\ row.revoked = Never /\ ~row.primary
          THEN /\ grants' = [grants EXCEPT ![g].primary = TRUE, ![g].rev = @ + 1]
               /\ reader' = [reader EXCEPT ![a].pc = "use"]
               /\ UNCHANGED <<gate, pending>>
          ELSE Decide(a) /\ UNCHANGED grants
       /\ UNCHANGED <<now, target, ledger, op, buckets, spent, crew>>

\* mark_access_grant_used may fail or find nothing; the reader is allowed anyway.
mark_access_grant_used(a) ==
    /\ reader[a].pc = "use"
    /\ Decide(a)
    /\ UNCHANGED <<now, target, grantVars, op, buckets, spent, crew>>

-----------------------------------------------------------------------------
OperatorStep(o) ==
    \/ \E req \in Requests : BeginRequest(o, req)
    \/ ReadCurrent(o)
    \/ _claim_access_grant_request(o)
    \/ Classify(o)
    \/ \E g \in GrantIds, rev \in 1 .. 2 : BeginRevoke(o, g, rev)
    \/ revoke_access_grant(o)
    \/ purge_inactive_access_grants(o)

ReaderStep(a) ==
    \/ \E g \in GrantIds : begin_peer(a, g)
    \/ ReadTarget(a)
    \/ ReadGrant(a)
    \/ CheckGrant(a)
    \/ rehash_access_grant(a)
    \/ mark_access_grant_used(a)

AccessNext ==
    \/ \E o \in Operators : OperatorStep(o)
    \/ \E a \in Readers : ReaderStep(a)
    \/ set_access_policy
    \/ Tick

AccessSpec == AccessInit /\ [][AccessNext]_accessVars

-----------------------------------------------------------------------------
(* Properties.                                                             *)

\* A reader whose callback began after its grant was revoked, expired or purged
\* is never allowed, whatever rotation, rehash or issue runs beside it.
EndedStaysEnded ==
    \A a \in Readers : reader[a].pc = "use" => ~reader[a].late

\* An old-key reader is let in only through the rehash, and of all that race
\* for one revision a single one wins: while a reader is between its rehash and
\* its answer, or between a read under the primary key and its answer, the row
\* it was checked against is under the primary key.
RehashFencesReaders ==
    \A a \in Readers : reader[a].pc = "use" => grants[reader[a].id].primary

\* Two rotations of one grant posted from the same page, replayed or raced,
\* leave one replacement: a revision is rotated at most once.
OneReplacement ==
    \A g, h \in GrantIds :
        (/\ grants[g].made.kind = "rotate" /\ grants[h].made.kind = "rotate"
         /\ grants[g].made.src = grants[h].made.src
         /\ grants[g].made.rev = grants[h].made.rev) => g = h

\* The per-peer count and the gate neither leak nor run negative: both equal the
\* callbacks in flight on every path out of authorize.
PendingExact ==
    /\ pending = Cardinality({a \in Readers : reader[a].pc # "idle"})
    /\ gate = pending
    /\ gate <= MaxInflight /\ pending <= MaxPending

\* The limiter holds at most MaxKeys buckets, and while a bucket is held its key
\* was allowed at most its burst and one more per tick.
RateHolds ==
    /\ Len(buckets) <= MaxKeys
    /\ \A i, j \in DOMAIN buckets : buckets[i].key = buckets[j].key => i = j
    /\ \A i \in DOMAIN buckets : spent[buckets[i].key] <= Burst + now

GrantStep ==
    \A g \in GrantIds : Live(g) /\ grants'[g] # grants[g] =>
       /\ grants'[g].exp <= grants[g].exp
       /\ grants'[g].revoked <= grants[g].revoked
       /\ \/ grants'[g].status = "purged" /\ (grants[g].exp <= now \/ grants[g].revoked <= now)
          \/ grants'[g].status = "live" /\ grants'[g].rev = grants[g].rev + 1

\* A step never lengthens a grant, never undoes a revocation or a purge, and a
\* row that changes gets the next revision.
GrantNeverWidens == [][GrantStep]_accessVars
=============================================================================
