--------------------------- MODULE ProbeScheduler ---------------------------
(***************************************************************************)
(* BoundedProbeScheduler: one request per camera, queues by priority,      *)
(* leases that expire, and hard budgets.  Every public method runs under   *)
(* one lock, so each is one action; the operators take and return the      *)
(* whole scheduler (a record), as the methods do.                          *)
(*                                                                         *)
(* A target is [gen, node, site, ok]: ok stands for the conditions of      *)
(* _require_probe_eligible, gen for the fields of _probe_generation_key.   *)
(* The definitions no action refers to are wrong variants of the           *)
(* definition that follows them.                                           *)
(***************************************************************************)
EXTENDS FiniteSets, Functions, Integers, Sequences, TLC

CONSTANTS
    Cameras,
    Nodes, Sites,
    NoRequest,
    GlobalLimit, NodeLimit, SiteLimit, MethodLimit, QueueLimit,
    LeaseTime, RetryDelay, MaxAttempts,
    Loads           \* the workloads: asks, the [method, priority, window] a camera
                    \* may be asked for; places, where its target may start; moves,
                    \* the cameras whose target changes; pages,
                    \* the sets of cameras a caller asks about; and the bounds on
                    \* ticks of the clock, requests and generations of a target

VARIABLES
    sched,     \* the scheduler
    target,    \* the current target of each camera, as the database has it
    load,      \* the workload of this behaviour
    now

schedVars == <<sched, target, load, now>>

Methods == {"source", "path"}
Priorities == {"manual", "confirmation", "routine"}
Rank == [manual |-> 3, confirmation |-> 2, routine |-> 1]
Weight == [manual |-> 4, confirmation |-> 3, routine |-> 3]
FairPriorities == <<"manual", "manual", "manual", "manual", "confirmation",
                    "confirmation", "confirmation", "routine", "routine", "routine">>

Targets(places) == {[gen |-> g, node |-> p[1], site |-> p[2], ok |-> b] :
                       g \in 1 .. load.gens, p \in places, b \in BOOLEAN}

(* _priority_reservations: a floor each, and the largest remainder first.  *)
Reservations ==
    LET floor == [p \in Priorities |->
                    IF (GlobalLimit * Weight[p]) \div 10 = 0 THEN 1
                    ELSE (GlobalLimit * Weight[p]) \div 10]
        total(f) == f["manual"] + f["confirmation"] + f["routine"]
        behind(f, p) == GlobalLimit * Weight[p] - 10 * f[p]
        next(f) == CHOOSE p \in Priorities : \A q \in Priorities \ {p} :
                     \/ behind(f, p) > behind(f, q)
                     \/ behind(f, p) = behind(f, q) /\ Rank[p] > Rank[q]
        fill[k \in 0 .. GlobalLimit] ==
            IF k = 0 THEN floor
            ELSE IF total(fill[k - 1]) < GlobalLimit
                 THEN [fill[k - 1] EXCEPT ![next(fill[k - 1])] = @ + 1]
                 ELSE fill[k - 1]
    IN  IF GlobalLimit < 3 THEN [p \in Priorities |-> 0] ELSE fill[GlobalLimit]

SchedulerInit ==
    /\ sched = [requests |-> [c \in Cameras |-> NoRequest], pending |-> {}, active |-> {},
                attempts |-> << >>, fair |-> 0, created |-> 0]
    /\ load \in Loads
    /\ target \in {f \in [Cameras -> {t \in Targets(Nodes \X Sites) : t.gen = 1 /\ t.ok}] :
                     \A c \in Cameras : <<f[c].node, f[c].site>> \in load.places[c]}
    /\ now = 0

-----------------------------------------------------------------------------
Forget(s, c) ==
    [s EXCEPT !.requests[c] = NoRequest,
              !.attempts = Restrict(@, DOMAIN @ \ {s.requests[c].id})]

(* A lease that ran out: the request is retried later, or given up.        *)
ExpireLease(s, lease, t) ==
    LET c == lease.cam
        r == s.requests[c]
        popped == [s EXCEPT !.active = @ \ {lease}]
        again == [r EXCEPT !.available = t + RetryDelay]
    IN  IF r = NoRequest \/ r.id # lease.id THEN popped
        ELSE IF lease.attempt >= MaxAttempts \/ t + RetryDelay >= r.deadline
             THEN Forget(popped, c)
             ELSE [popped EXCEPT !.requests[c] = again, !.pending = @ \cup {again}]

DropRequest(s, r) == Forget([s EXCEPT !.pending = @ \ {r}], r.cam)

(* Both sweeps touch one camera per element, so their order is immaterial. *)
ForAll(s, set, step(_, _)) == FoldFunction(LAMBDA x, acc : step(acc, x), s, [x \in set |-> x])

ExpireActive(s, t) ==
    ForAll(s, {l \in s.active : l.expires <= t}, LAMBDA acc, l : ExpireLease(acc, l, t))

DropExpiredPending(s, t) ==
    ForAll(s, {r \in s.pending : r.deadline <= t}, DropRequest)

Swept(s, t) == DropExpiredPending(ExpireActive(s, t), t)

(* The request of a camera that has one: joined, promoted, or refused.     *)
Join(s, c, tgt, ask, t) ==
    LET r == s.requests[c]
        promoted == [r EXCEPT !.target = tgt,
            !.priority = IF Rank[ask.priority] > Rank[@] THEN ask.priority ELSE @,
            !.deadline = IF t + ask.window < @ THEN t + ask.window ELSE @]
        same == promoted.priority = r.priority /\ promoted.deadline = r.deadline
    IN  IF \/ r.target.gen # tgt.gen \/ r.method # ask.method   \* single-flight conflict
           \/ \E l \in s.active : l.id = r.id
           \/ same
           \/ promoted.available >= promoted.deadline           \* refused by ProbeRequest
        THEN s
        ELSE [s EXCEPT !.requests[c] = promoted, !.pending = (@ \ {r}) \cup {promoted}]

Create(s, c, tgt, ask, t) ==
    LET r == [id |-> s.created + 1, cam |-> c, target |-> tgt, method |-> ask.method,
              priority |-> ask.priority, requested |-> t, available |-> t,
              deadline |-> t + ask.window]
    IN  [s EXCEPT !.requests[c] = r, !.pending = @ \cup {r}, !.created = @ + 1,
                  !.attempts = @ @@ (r.id :> 0)]

Submitted(s, c, tgt, ask, t) ==
    LET q == Swept(s, t)
    IN  IF q.requests[c] # NoRequest THEN Join(q, c, tgt, ask, t)
        ELSE IF Cardinality({d \in Cameras : q.requests[d] # NoRequest}) >= QueueLimit
             THEN q
             ELSE Create(q, c, tgt, ask, t)

-----------------------------------------------------------------------------
(* claim_available.  current gives the targets of the cameras it was asked *)
(* about; work for the others stays queued.                                *)
RefreshPendingTargets(s, current) ==
    LET seen == {r \in s.pending : r.cam \in DOMAIN current}
        kept == {r \in seen : r.target.gen = current[r.cam].gen /\ current[r.cam].ok}
        fresh(r) == [r EXCEPT !.target = current[r.cam]]
        dropped == ForAll(s, seen \ kept, DropRequest)
    IN  [dropped EXCEPT
           !.pending = (@ \ kept) \cup {fresh(r) : r \in kept},
           !.requests = [c \in Cameras |->
                           IF @[c] \in kept THEN fresh(@[c]) ELSE @[c]]]

EligibleAtLimit(s, r, t, admitted) ==
    /\ r.cam \in admitted
    /\ r.available <= t
    /\ Cardinality({l \in s.active : l.target.node = r.target.node}) <= NodeLimit

Eligible(s, r, t, admitted) ==
    /\ r.cam \in admitted
    /\ r.available <= t
    /\ Cardinality({l \in s.active : l.target.node = r.target.node}) < NodeLimit
    /\ Cardinality({l \in s.active : l.target.site = r.target.site}) < SiteLimit
    /\ Cardinality({l \in s.active : l.method = r.method}) < MethodLimit[r.method]

ActiveAs(s, p) == Cardinality({l \in s.active : l.priority = p})

Earlier(r, q) ==
    \/ r.deadline < q.deadline
    \/ r.deadline = q.deadline /\ r.requested < q.requested
    \/ r.deadline = q.deadline /\ r.requested = q.requested /\ r.id <= q.id

Earliest(R) == CHOOSE r \in R : \A q \in R : Earlier(r, q)

(* The first turn of the fair rotation whose priority is in P, if any.     *)
TurnFor(s, P) ==
    LET turn(k) == FairPriorities[((s.fair + k) % 10) + 1]
        turns == {k \in 0 .. 9 : turn(k) \in P}
        first == CHOOSE k \in turns : \A j \in turns : k <= j
    IN  [priority |-> turn(first), fair |-> (s.fair + first + 1) % 10]

(* _next_eligible_request: work of a class short of its reservation, else  *)
(* what is about to expire, else the turn of the rotation.                 *)
NextEligible(s, ready, t) ==
    LET of(p) == {r \in ready : r.priority = p}
        waiting == {p \in Priorities : of(p) # {}}
        reserved == {p \in waiting : ActiveAs(s, p) < Reservations[p]}
        urgent == {r \in ready : r.deadline - t <= LeaseTime}
        turn == TurnFor(s, IF reserved # {} THEN reserved ELSE waiting)
    IN  IF reserved = {} /\ urgent # {} THEN [request |-> Earliest(urgent), fair |-> s.fair]
        ELSE [request |-> Earliest(of(turn.priority)), fair |-> turn.fair]

ClaimOne(s, t, admitted) ==
    LET ready == {r \in s.pending : Eligible(s, r, t, admitted)}
        chosen == NextEligible(s, ready, t)
        r == chosen.request
        n == s.attempts[r.id] + 1
        end == IF r.deadline < t + LeaseTime THEN r.deadline ELSE t + LeaseTime
        lease == [id |-> r.id, cam |-> r.cam, target |-> r.target, method |-> r.method,
                  priority |-> r.priority, started |-> t, expires |-> end, attempt |-> n]
    IN  IF ready = {} \/ Cardinality(s.active) >= GlobalLimit THEN s
        ELSE [s EXCEPT !.pending = @ \ {r}, !.attempts[r.id] = n,
                       !.active = @ \cup {lease}, !.fair = chosen.fair]

Claimed(s, current, t) ==
    LET fresh == RefreshPendingTargets(Swept(s, t), current)
        round[k \in 0 .. GlobalLimit] ==
            IF k = 0 THEN fresh ELSE ClaimOne(round[k - 1], t, DOMAIN current)
    IN  round[GlobalLimit]

(* complete and cancel: only the exact lease that is still active.         *)
Ended(s, lease) == Forget([s EXCEPT !.active = @ \ {lease}], lease.cam)

-----------------------------------------------------------------------------
(* _require_probe_eligible comes first, so only eligible work is submitted.*)
submit(c, ask) ==
    /\ target[c].ok
    /\ sched.created < load.requests
    /\ sched' = Submitted(sched, c, target[c], ask, now)
    /\ UNCHANGED <<target, load, now>>

claim_available(seen) ==
    /\ sched' = Claimed(sched, [c \in seen |-> target[c]], now)
    /\ sched' # sched
    /\ UNCHANGED <<target, load, now>>

(* A result dated outside the lease, or of a lease that is gone, raises.   *)
complete(lease) ==
    /\ now <= lease.expires
    /\ sched' = Ended(sched, lease)
    /\ UNCHANGED <<target, load, now>>

cancel(lease) ==
    /\ sched' = Ended(sched, lease)
    /\ UNCHANGED <<target, load, now>>

(* The catalogue moves on, and so does the clock.                          *)
Retarget(c) ==
    /\ target[c].gen < load.gens
    /\ \E t \in Targets(Nodes \X Sites) :
         t.gen = target[c].gen + 1 /\ target' = [target EXCEPT ![c] = t]
    /\ UNCHANGED <<sched, load, now>>

Tick ==
    /\ now < load.time
    /\ now' = now + 1
    /\ UNCHANGED <<sched, target, load>>

SchedulerNext ==
    \/ \E c \in Cameras : \E ask \in load.asks[c] : submit(c, ask)
    \/ \E seen \in load.pages : claim_available(seen)
    \/ \E lease \in sched.active : complete(lease) \/ cancel(lease)
    \/ \E c \in load.moves : Retarget(c)
    \/ Tick

SchedulerSpec == SchedulerInit /\ [][SchedulerNext]_schedVars

-----------------------------------------------------------------------------
(* The hard limits of the scheduler hold through retries, promotions and   *)
(* cameras that move to another node while they are queued.                *)
BudgetsHold ==
    /\ Cardinality(sched.active) <= GlobalLimit
    /\ \A n \in Nodes : Cardinality({l \in sched.active : l.target.node = n}) <= NodeLimit
    /\ \A x \in Sites : Cardinality({l \in sched.active : l.target.site = x}) <= SiteLimit
    /\ \A m \in Methods : Cardinality({l \in sched.active : l.method = m}) <= MethodLimit[m]

(* The three indexes agree: the request of a camera is queued or leased,   *)
(* never both and never neither, so a camera can neither be probed twice   *)
(* at a time nor be locked out by a request nobody will ever take up.      *)
OneFlightPerCamera ==
    /\ \A r \in sched.pending : sched.requests[r.cam] = r
    /\ \A l \in sched.active : sched.requests[l.cam] # NoRequest /\ sched.requests[l.cam].id = l.id
    /\ \A c \in Cameras : LET r == sched.requests[c] IN r # NoRequest =>
         /\ (r \in sched.pending) # (\E l \in sched.active : l.id = r.id)
         /\ sched.attempts[r.id] <= MaxAttempts
    /\ DOMAIN sched.attempts = {sched.requests[c].id :
                                  c \in {d \in Cameras : sched.requests[d] # NoRequest}}

BorrowStep ==
    \A seen \in load.pages :
      sched' = Claimed(sched, [c \in seen |-> target[c]], now) =>
        \A l \in sched'.active \ sched.active, r \in sched'.pending :
          \/ ActiveAs(sched', l.priority) <= Reservations[l.priority]
          \/ ActiveAs(sched', r.priority) >= Reservations[r.priority]
          \/ ~Eligible(sched', r, now, seen)

(* "urgent manual traffic cannot consume the confirmation/routine          *)
(* guarantees": no lease beyond its own class's reservation is granted     *)
(* while a class short of its reservation has work that could run.         *)
ReservedBeforeBorrowed == [][BorrowStep]_schedVars
=============================================================================
