--------------------------- MODULE OperatorRequests ---------------------------
(***************************************************************************)
(* The operator boundary of the web application: how a request to          *)
(* /dashboard or /api/v1 is named for the audit, authorised, admitted by   *)
(* its rate bucket, handled and journaled.                                 *)
(*                                                                         *)
(*   _operator_audit_target, _operator_permission_for_request,             *)
(*   _operator_action_bucket      what the path of a request says about it *)
(*   operator_access_boundary     the middleware, one step per call to the *)
(*                                store, which other requests run between  *)
(*   claim_operator_action        the durable bucket of (account, bucket)  *)
(*   the access handlers          policy, issue, rotate, revoke, purge and *)
(*                                list of the JSON API and the dashboard   *)
(*   record_mutation_rejection    the journal of what a handler refused    *)
(*                                                                         *)
(* A path is the sequence of its segments.  There is one account with one  *)
(* session, one registered camera and one grant.  Handlers of the other    *)
(* routes are modelled in their own modules and answer at once here.       *)
(* The definitions no action refers to are wrong variants of the           *)
(* definition that follows them.                                           *)
(***************************************************************************)
EXTENDS Integers, Sequences, FiniteSets, TLC

CONSTANTS
    Plans,      \* what the operator sends, and what happens meanwhile
    Cameras,    \* the path segments that are camera ids
    Camera,     \* the one that is registered
    Limit,      \* requests of a bucket in one of its windows
    Window,     \* the length of a window
    MaxTime,    \* bound on the clock
    None


VARIABLES
    plan,       \* the element of Plans this behaviour follows
    req,        \* request -> where the middleware or the handler stands
    session,    \* what the store says of the operator's session
    resource,   \* the camera, its access policy and its grant
    ledger,     \* idempotency key -> the request that committed with it
    bucket,     \* rate bucket -> its row
    journal,    \* audit_events and outbox_messages, written together
    admitted,   \* the window each admitted request was counted in
    events,     \* the environment's events still to happen
    clock

reqVars == <<plan, req, session, resource, ledger, bucket, journal,
             admitted, events, clock>>

Reading == {"GET", "HEAD", "OPTIONS"}
Buckets == {"secret_issue", "camera_mutation", "access_mutation",
            "dashboard_read", "live_reconnect"}

-----------------------------------------------------------------------------
(* What a path says about a request. *)

Under(path, prefix) ==
    Len(path) >= Len(prefix) /\ SubSeq(path, 1, Len(prefix)) = prefix
Last(path) == path[Len(path)]
Names(path, segment) == \E i \in DOMAIN path : path[i] = segment

OnDashboard(r) == r.path[1] = "dashboard"
Mutates(r) == r.method \notin Reading

OwnSession ==
    { <<"api", "operator", "session">>, <<"api", "operator", "password">>,
      <<"dashboard", "logout">>, <<"dashboard", "password">>,
      <<"dashboard", "mfa">>, <<"dashboard", "mfa", "inline">> }

(* The /access-grants branches of the two surfaces. *)
GrantPermission(r) ==
    IF OnDashboard(r)
    THEN IF Last(r.path) = "revoke" \/ ~Mutates(r)
         THEN "access.admin" ELSE "secret.issue"
    ELSE IF r.method = "POST" THEN "secret.issue" ELSE "access.admin"

_operator_permission_for_request(r) ==
    LET read == IF Mutates(r) THEN "control.mutate" ELSE "control.read"
        p == r.path
    IN  CASE Under(p, <<"dashboard", "cameras">>) ->
               (CASE p = <<"dashboard", "cameras", "new">> -> "control.mutate"
                  [] Names(p, "access-grants") -> GrantPermission(r)
                  [] Last(p) \in {"access-policy", "access"} -> "access.admin"
                  [] Last(p) \in {"edit", "move"} -> "control.mutate"
                  [] OTHER -> read)
          [] p = <<"dashboard", "nodes", "new">> -> "control.mutate"
          [] Under(p, <<"dashboard", "nodes">>)
             /\ p # <<"dashboard", "nodes", "new">> ->
               IF Mutates(r) THEN "control.mutate" ELSE "dashboard.read"
          [] \/ OnDashboard(r) /\ ~Under(p, <<"dashboard", "cameras">>)
                               /\ ~Under(p, <<"dashboard", "nodes">>)
             \/ Under(p, <<"api", "dashboard">>)
             \/ p \in OwnSession /\ ~OnDashboard(r) -> "dashboard.read"
          [] ~OnDashboard(r) /\ p \notin OwnSession
             /\ Last(p) = "access-policy" ->
               IF Mutates(r) THEN "access.admin" ELSE "control.read"
          [] ~OnDashboard(r) /\ Names(p, "access-grants") -> GrantPermission(r)
          [] OTHER -> read

(* The suffix tables of the two surfaces; an action is named by its words. *)
NodeActions ==
    {<<"start">>, <<"stop">>, <<"restart">>, <<"drain">>, <<"maintenance">>,
     <<"resume">>, <<"delete">>, <<"observe">>, <<"release">>,
     <<"reconfigure">>, <<"reconfigure", "preview">>,
     <<"port-change">>, <<"port-change", "preview">>}

NodeAction(r, suffix) ==
    CASE suffix \in NodeActions -> <<"node">> \o suffix
      [] suffix = <<>> /\ r.method = "DELETE" /\ ~OnDashboard(r) ->
           <<"node", "delete">>
      [] suffix \in {<<>>, <<"registered">>} /\ r.method # "DELETE" ->
           <<"node", "read">>
      [] OTHER -> <<"request", "unsupported">>

GrantAction(r, suffix) ==
    CASE Len(suffix) = 1 ->
           <<"grant", IF r.method = "GET" THEN "list" ELSE "issue">>
      [] Len(suffix) > 1 /\ OnDashboard(r) ->
           <<"grant", IF Last(suffix) = "purge-inactive" THEN "purge"
                      ELSE IF Last(suffix) = "revoke" THEN "revoke"
                      ELSE "rotate">>
      [] OTHER ->
           <<"grant", IF Last(suffix) = "rotate" THEN "rotate" ELSE "revoke">>

CameraActions ==
    (<<"enable">> :> "enable") @@ (<<"disable">> :> "disable")
    @@ (<<"mutations", "preview">> :> "mutation_preview")
    @@ (<<"moves", "preview">> :> "move_preview")

DashboardCameraActions ==
    CameraActions
    @@ (<<>> :> "read") @@ (<<"live">> :> "live_read")
    @@ (<<"events">> :> "live_read") @@ (<<"edit">> :> "update")
    @@ (<<"move">> :> "move") @@ (<<"moves", "apply">> :> "move")
    @@ (<<"mutations", "apply">> :> "update") @@ (<<"access">> :> "access_read")
    @@ (<<"access-policy">> :> "access_policy_update")
    @@ (<<"probe-profile">> :> "probe_profile_update")

ApiCameraActions(r) ==
    CameraActions
    @@ (<<>> :> IF r.method = "DELETE" THEN "delete" ELSE "update")
    @@ (<<"runtime">> :> "runtime_read") @@ (<<"moves">> :> "move")
    @@ (<<"access-policy">> :> IF r.method = "PUT"
                               THEN "access_policy_update"
                               ELSE "access_policy_read")
    @@ (<<"probe-profile">> :> IF r.method = "PUT"
                               THEN "probe_profile_update"
                               ELSE "probe_profile_read")

CameraAction(r, suffix) ==
    LET table == IF OnDashboard(r) THEN DashboardCameraActions
                                   ELSE ApiCameraActions(r)
    IN  CASE suffix # <<>> /\ suffix[1] = "access-grants" ->
               GrantAction(r, suffix)
          [] OnDashboard(r) /\ Len(suffix) = 2 /\ suffix[1] = "moves"
             /\ suffix[2] \notin {"preview", "apply"} -> <<"camera", "move_read">>
          [] OTHER -> IF suffix \in DOMAIN table
                      THEN <<"camera", table[suffix]>>
                      ELSE <<"request", "unsupported">>

_operator_audit_target(r) ==
    LET p == r.path
        surface == p[1]
    IN  CASE p \in OwnSession ->
               <<"operator", IF Last(p) = "password" THEN "password_change"
                             ELSE IF Names(p, "mfa") THEN "mfa_refresh"
                             ELSE IF r.method \in {"POST", "DELETE"}
                             THEN "session_logout" ELSE "session_read">>
          [] p = <<"dashboard">> \/ Under(p, <<"api", "dashboard">>) ->
               <<"dashboard", "read">>
          [] p \in { <<"dashboard", "nodes">>, <<"dashboard", "nodes", "new">> }
             \/ (p = <<"api", "nodes">> /\ r.method = "POST") ->
               <<"node", "create">>
          [] p = <<"api", "nodes">> /\ r.method # "POST" -> <<"node", "list">>
          [] Len(p) > 2 /\ p[2] = "nodes" /\ p # <<"dashboard", "nodes", "new">> ->
               NodeAction(r, SubSeq(p, 4, Len(p)))
          [] p \in { <<surface, "cameras">>, <<"dashboard", "cameras", "new">> } ->
               <<"camera", IF r.method = "POST" \/ Last(p) = "new"
                           THEN "create" ELSE "list">>
          [] Under(p, <<"api", "camera-moves">>) -> <<"camera", "move_read">>
          [] Len(p) > 2 /\ p[2] = "cameras" /\ Last(p) # "new" ->
               CameraAction(r, SubSeq(p, 4, Len(p)))
          [] OTHER -> <<"request", "unsupported">>

_operator_scope_for_request(r) ==
    CASE r.path \in OwnSession -> None
      [] Len(r.path) > 2 /\ r.path[2] = "cameras" /\ r.path[3] \in Cameras ->
           r.path[3]
      [] OTHER -> "server"

_operator_action_bucket(r) ==
    LET action == _operator_audit_target(r)
    IN  CASE r.method = "GET" /\ Last(r.path) = "events" -> "live_reconnect"
          [] r.method = "GET" /\ Last(r.path) # "events"
             /\ (OnDashboard(r) \/ Under(r.path, <<"api", "dashboard">>)) ->
               "dashboard_read"
          [] Mutates(r) /\ action \in { <<"grant", "issue">>, <<"grant", "rotate">>,
                                        <<"operator", "mfa_refresh">> } ->
               "secret_issue"
          [] Mutates(r) /\ action \in { <<"camera", "create">>,
                                        <<"camera", "probe_profile_update">> } ->
               "camera_mutation"
          [] Mutates(r) /\ action \in { <<"camera", "access_policy_update">>,
                                        <<"grant", "revoke">>,
                                        <<"grant", "purge">> } ->
               "access_mutation"
          [] OTHER -> None

Permissions ==
    {"dashboard.read", "control.read", "control.mutate", "access.admin",
     "operator.admin", "audit.read", "secret.issue"}

_ROLE_PERMISSIONS ==
    [viewer |-> {"dashboard.read", "control.read"},
     operator |-> {"dashboard.read", "control.read", "control.mutate",
                   "secret.issue"},
     admin |-> Permissions,
     auditor |-> {"dashboard.read", "audit.read"},
     break_glass |-> Permissions]

-----------------------------------------------------------------------------
(* The requests of the plan.                                               *)

Requests == DOMAIN plan.sent
Sent(w) == plan.sent[w]
Act(w) == _operator_audit_target(Sent(w))

NoRow == [started |-> None, used |-> 0]
NotSent == [pc |-> "arrive", status |-> 0, answer |-> 0, event |-> None,
            reason |-> None, now |-> 0, failed |-> FALSE]

RequestsInit ==
    /\ plan \in Plans
    /\ req = [w \in Requests |-> NotSent]
    /\ session = "active"
    /\ resource = [camera |-> "live", policy |-> 1,
                   grant |-> "active", revision |-> 1]
    /\ ledger = [k \in {Sent(w).key : w \in Requests} |-> None]
    /\ bucket = [b \in Buckets |-> NoRow]
    /\ journal = {}
    /\ admitted = <<>>
    /\ events = plan.events
    /\ clock = 0

Goto(w, pc) == req' = [req EXCEPT ![w].pc = pc]
Respond(w, status) ==
    req' = [req EXCEPT ![w].pc = "done", ![w].status = status]
(* Journal `event` with `reason`, then answer `status`. *)
Journal(w, pc, event, reason, status) ==
    req' = [req EXCEPT ![w].pc = pc, ![w].event = event,
                       ![w].reason = reason, ![w].answer = status]
Written(w, event, reason) ==
    journal' = journal \cup {[by |-> w, event |-> event, reason |-> reason]}

Stores == <<plan, session, resource, ledger, bucket, journal, admitted,
            events, clock>>

(* The database does not answer a call of the boundary
   (OperatorSessionUnavailable) or of a handler (an uncaught SQL error). *)
Unavailable(w) ==
    /\ req[w].pc \notin {"arrive", "handle", "done"}
    /\ "fault" \in events
    /\ events' = events \ {"fault"}
    /\ req' = [req EXCEPT
         ![w].pc = "done", ![w].failed = TRUE,
         ![w].status = IF req[w].pc \in {"check", "current", "write", "list"}
                       THEN 500 ELSE 503]
    /\ UNCHANGED <<plan, session, resource, ledger, bucket, journal,
                   admitted, clock>>

(* The form of a dashboard mutation is read before anything else. *)
arrive(w) ==
    /\ req[w].pc = "arrive"
    /\ IF OnDashboard(Sent(w)) /\ Mutates(Sent(w)) /\ ~Sent(w).form
       THEN Journal(w, "deny", "authorization_denied", "csrf_invalid", 401)
       ELSE Goto(w, "read")
    /\ UNCHANGED Stores

(* authenticate: the session, then its CSRF token, permission and scope. *)
authenticate(w) ==
    LET r == Sent(w)
        scope == _operator_scope_for_request(r)
    IN  /\ req[w].pc = "read"
        /\ CASE ~r.token \/ session # "active" ->
                  Journal(w, "record", "authentication_denied", "session", 401)
             [] /\ r.token /\ session = "active"
                /\ Mutates(r) /\ ~r.csrf ->
                  Journal(w, "record", "authorization_denied", "csrf_invalid", 401)
             [] OTHER ->
                  IF \/ _operator_permission_for_request(r)
                           \notin _ROLE_PERMISSIONS[plan.role]
                     \/ scope # None /\ scope \notin plan.scopes
                                     /\ "server" \notin plan.scopes
                  THEN Journal(w, "record", "authorization_denied", "denied", 403)
                  ELSE Goto(w, "touch")
        /\ UNCHANGED Stores

touch_authorized_session(w) ==
    /\ req[w].pc = "touch"
    /\ IF session = "active"
       THEN Goto(w, IF _operator_action_bucket(Sent(w)) = None
                    THEN "handle" ELSE "admit")
       ELSE Journal(w, "record", "authentication_denied", "session", 401)
    /\ UNCHANGED Stores

(* admit_action and the first statement of claim_operator_action, which reads
   the clock before it locks the row. *)
admit_action(w) ==
    LET b == _operator_action_bucket(Sent(w))
    IN  /\ req[w].pc = "admit"
        /\ CASE ~plan.limits /\ b = "dashboard_read" -> Goto(w, "handle")
             [] ~plan.limits /\ b = "live_reconnect" -> Respond(w, 503)
             [] OTHER -> req' = [req EXCEPT ![w].pc = "claim", ![w].now = clock]
        /\ UNCHANGED Stores

Opened(row, now) == row.started = None \/ now >= row.started + Window

(* The row after an admitted claim: a new window counts the claim. *)
Claimed(row, now) ==
    IF Opened(row, now) THEN [started |-> now, used |-> 1]
    ELSE [row EXCEPT !.used = @ + 1]

claim_operator_action(w) ==
    LET b == _operator_action_bucket(Sent(w))
        row == bucket[b]
    IN  /\ req[w].pc = "claim"
        /\ IF ~Opened(row, req[w].now) /\ row.used >= Limit
           THEN /\ Journal(w, "deny", "authorization_denied", "rate_limited", 429)
                /\ UNCHANGED <<bucket, admitted>>
           ELSE /\ bucket' = [bucket EXCEPT ![b] = Claimed(row, req[w].now)]
                /\ admitted' = Append(admitted,
                     [bucket |-> b, started |-> bucket'[b].started])
                /\ Goto(w, "handle")
        /\ UNCHANGED <<plan, session, resource, ledger, journal, events, clock>>

(* record_denied_request reads the session again: a session that ended
   meanwhile makes the denial an authentication failure, and the boundary
   still answers what it had decided. *)
record_denied_request(w) ==
    /\ req[w].pc = "deny"
    /\ req' = [req EXCEPT
         ![w].pc = "record",
         ![w].event = IF Sent(w).token /\ session = "active"
                      THEN @ ELSE "authentication_denied",
         ![w].reason = IF Sent(w).token /\ session = "active"
                       THEN @ ELSE "session"]
    /\ UNCHANGED Stores

_record_denial(w) ==
    /\ req[w].pc = "record"
    /\ Written(w, req[w].event, req[w].reason)
    /\ Respond(w, req[w].answer)
    /\ UNCHANGED <<plan, session, resource, ledger, bucket, admitted,
                   events, clock>>

-----------------------------------------------------------------------------
(* The access handlers.                                                    *)

Issues(w) == Act(w) \in { <<"grant", "issue">>, <<"grant", "rotate">> }
OfGrant(w) == Act(w) \in { <<"grant", "rotate">>, <<"grant", "revoke">> }
Listing == { <<"grant", "list">>, <<"camera", "access_read">> }
Administers(w) ==
    Issues(w) \/ OfGrant(w) \/ Act(w) \in Listing
    \/ Act(w) \in { <<"grant", "purge">>, <<"camera", "access_policy_update">> }
Known(w) == Sent(w).path[3] = Camera

(* What a payload or a form must hold.  The revision of a JSON revoke is an
   unconstrained query parameter. *)
Malformed(w) ==
    /\ Mutates(Sent(w))
    /\ \/ /\ Act(w) \in { <<"camera", "access_policy_update">>,
                         <<"grant", "rotate">>, <<"grant", "revoke">> }
          /\ Sent(w).revision < 1
          /\ OnDashboard(Sent(w)) \/ Act(w) # <<"grant", "revoke">>
       \/ OnDashboard(Sent(w)) /\ Issues(w) /\ Sent(w).key = None

NeedsMfa(w) == Mutates(Sent(w)) /\ Act(w)[1] = "grant"

(* The handlers of the API: FastAPI validates the payload first. *)
ApiHandler(w) ==
    CASE Malformed(w) -> Respond(w, 422)
      [] ~Malformed(w) /\ NeedsMfa(w) /\ ~Sent(w).mfa -> Respond(w, 401)
      [] OTHER ->
           CASE Issues(w) /\ Sent(w).key = None -> Respond(w, 428)
             [] Issues(w) /\ Sent(w).key # None -> Goto(w, "check")
             [] Act(w) \in Listing -> Goto(w, "list")
             [] Act(w) = <<"grant", "revoke">> -> Goto(w, "current")
             [] OTHER -> Goto(w, "write")

(* A form of the dashboard is read after the recent-MFA check. *)
FormThen(w, next) ==
    CASE NeedsMfa(w) /\ ~Sent(w).mfa -> Respond(w, 401)
      [] ~(NeedsMfa(w) /\ ~Sent(w).mfa) /\ Malformed(w) -> Respond(w, 422)
      [] OTHER -> Goto(w, next)

(* The handlers of the dashboard: the pages and the issuing forms look the
   camera up first. *)
AccessPage(w) == Act(w) \in Listing /\ Goto(w, "item")
IssueForm(w) == Act(w) = <<"grant", "issue">> /\ FormThen(w, "item")
RotateForm(w) == Act(w) = <<"grant", "rotate">> /\ FormThen(w, "item")
RevokeForm(w) == Act(w) = <<"grant", "revoke">> /\ FormThen(w, "current")
PurgeForm(w) == Act(w) = <<"grant", "purge">> /\ FormThen(w, "write")
PolicyForm(w) == Act(w) = <<"camera", "access_policy_update">> /\ FormThen(w, "write")

Handle(w) ==
    /\ req[w].pc = "handle"
    /\ IF ~Administers(w) THEN Respond(w, 200)
       ELSE IF ~OnDashboard(Sent(w)) THEN ApiHandler(w)
       ELSE \/ AccessPage(w) \/ IssueForm(w) \/ RotateForm(w) \/ RevokeForm(w)
            \/ PurgeForm(w) \/ PolicyForm(w)
    /\ UNCHANGED Stores

(* _camera_item: the dashboard looks the camera up in the catalog.  Issue
   journals a missing camera, rotation and the grant page do not. *)
_camera_item(w) ==
    /\ req[w].pc = "item"
    /\ CASE Known(w) /\ resource.camera = "live" ->
              Goto(w, IF Issues(w) THEN "check" ELSE "list")
         [] ~(Known(w) /\ resource.camera = "live") /\ Act(w) = <<"grant", "issue">> ->
              Journal(w, "reject", "mutation_rejected", "camera_not_found", 404)
         [] OTHER -> req' = [req EXCEPT ![w].pc = "done", ![w].status = 404,
                                        ![w].reason = "catalog"]
    /\ UNCHANGED Stores

(* The request digest the ledger keeps with a key. *)
Body(w) ==
    <<Act(w), Sent(w).path[3], Sent(w).body,
      IF Act(w) = <<"grant", "rotate">> THEN Sent(w).revision ELSE 0>>

Refuse(w, reason, status) ==
    Journal(w, "reject", "mutation_rejected", reason, status)

(* check_access_grant_request: a key that committed is a replay or a
   conflict. *)
check_access_grant_request(w) ==
    LET committed == ledger[Sent(w).key]
    IN  /\ req[w].pc = "check"
        /\ CASE committed = None ->
                  Goto(w, IF Act(w) = <<"grant", "rotate">>
                          THEN "current" ELSE "write")
             [] committed = Body(w) -> Refuse(w, "issue_replayed", 409)
             [] OTHER -> Refuse(w, "idempotency_conflict", 409)
        /\ UNCHANGED Stores

(* rotate and revoke read the grant before they write it. *)
ReadCurrent(w) ==
    /\ req[w].pc = "current"
    /\ CASE ~Known(w) \/ resource.grant = "gone" ->
              Refuse(w, "grant_not_found", 404)
         [] /\ Known(w) /\ Act(w) = <<"grant", "rotate">>
            /\ resource.grant \in {"revoked", "expired"} ->
              Refuse(w, "grant_not_found", 404)
         [] /\ Known(w) /\ Act(w) = <<"grant", "revoke">>
            /\ resource.grant = "revoked" ->
              IF Sent(w).revision = resource.revision
              THEN Respond(w, 200) ELSE Refuse(w, "grant_not_found", 404)
         [] OTHER -> Goto(w, "write")
    /\ UNCHANGED Stores

Commit(w, status) ==
    /\ Respond(w, status)
    /\ Written(w, "accepted", Act(w))
Claim(w) == ledger' = [ledger EXCEPT ![Sent(w).key] = Body(w)]

WritePolicy(w) ==
    /\ Act(w) = <<"camera", "access_policy_update">>
    /\ CASE ~Known(w) ->
              Refuse(w, "camera_not_found", 404) /\ UNCHANGED <<resource, journal>>
         [] Known(w) /\ resource.policy # Sent(w).revision ->
              Refuse(w, "policy_conflict", 409) /\ UNCHANGED <<resource, journal>>
         [] OTHER -> /\ resource' = [resource EXCEPT !.policy = @ + 1]
                     /\ Commit(w, 200)
    /\ UNCHANGED ledger

CreateThenCheck(w) ==
    /\ Act(w) = <<"grant", "issue">>
    /\ Written(w, "accepted", Act(w))
    /\ IF Known(w) /\ resource.camera = "live"
       THEN Claim(w) /\ Respond(w, 201)
       ELSE Refuse(w, "camera_not_found", 404) /\ UNCHANGED ledger
    /\ UNCHANGED resource

create_access_grant(w) ==
    /\ Act(w) = <<"grant", "issue">>
    /\ IF Known(w) /\ resource.camera = "live"
       THEN Claim(w) /\ Commit(w, 201)
       ELSE Refuse(w, "camera_not_found", 404) /\ UNCHANGED <<ledger, journal>>
    /\ UNCHANGED resource

rotate_access_grant(w) ==
    /\ Act(w) = <<"grant", "rotate">>
    /\ CASE resource.grant = "gone" ->
              /\ Refuse(w, "grant_not_found", 404)
              /\ UNCHANGED <<resource, ledger, journal>>
         [] /\ resource.grant # "gone"
            /\ resource.grant = "revoked" \/ resource.revision # Sent(w).revision ->
              /\ Refuse(w, "revision_conflict", 409)
              /\ UNCHANGED <<resource, ledger, journal>>
         [] OTHER -> /\ resource' = [resource EXCEPT !.revision = @ + 1]
                     /\ Claim(w) /\ Commit(w, 201)

revoke_access_grant(w) ==
    /\ Act(w) = <<"grant", "revoke">>
    /\ CASE resource.grant = "gone" ->
              /\ Refuse(w, "grant_not_found", 404)
              /\ UNCHANGED <<resource, journal>>
         [] resource.grant # "gone" /\ resource.revision # Sent(w).revision ->
              /\ Refuse(w, "revision_conflict", 409)
              /\ UNCHANGED <<resource, journal>>
         [] resource.grant = "revoked" /\ resource.revision = Sent(w).revision ->
              Respond(w, 200) /\ UNCHANGED <<resource, journal>>
         [] OTHER -> /\ resource' = [resource EXCEPT !.grant = "revoked",
                                                     !.revision = @ + 1]
                     /\ Commit(w, 200)
    /\ UNCHANGED ledger

(* The grant goes with the ledger rows of the rotations that started at it. *)
purge_inactive_access_grants(w) ==
    /\ Act(w) = <<"grant", "purge">>
    /\ IF Known(w) /\ resource.grant \in {"revoked", "expired"}
       THEN /\ resource' = [resource EXCEPT !.grant = "gone"]
            /\ ledger' = [k \in DOMAIN ledger |->
                 IF ledger[k] # None /\ ledger[k][1] = <<"grant", "rotate">>
                 THEN None ELSE ledger[k]]
            /\ Commit(w, 200)
       ELSE Respond(w, 200) /\ UNCHANGED <<resource, ledger, journal>>

(* The transaction of a handler; issue and rotate claim their key in it. *)
Write(w) ==
    LET committed == IF Issues(w) THEN ledger[Sent(w).key] ELSE None
    IN  /\ req[w].pc = "write"
        /\ \/ /\ committed # None
              /\ IF committed = Body(w)
                 THEN Refuse(w, "issue_replayed", 409)
                 ELSE Refuse(w, "idempotency_conflict", 409)
              /\ UNCHANGED <<resource, ledger, journal>>
           \/ /\ committed = None
              /\ \/ WritePolicy(w) \/ create_access_grant(w)
                 \/ rotate_access_grant(w) \/ revoke_access_grant(w)
                 \/ purge_inactive_access_grants(w)
        /\ UNCHANGED <<plan, session, bucket, admitted, events, clock>>

(* list_for_camera, whose page is answered only once the read is journaled. *)
ListGrants(w) ==
    /\ req[w].pc = "list"
    /\ Journal(w, "record", "sensitive_read", "authorized", 200)
    /\ UNCHANGED Stores

GrantReasons == {"idempotency_conflict", "issue_replayed"}

(* The shapes record_mutation_rejection accepts. *)
Recordable(w) ==
    LET reason == req[w].reason
    IN  /\ \/ /\ Act(w) = <<"camera", "access_policy_update">>
              /\ reason \in {"policy_conflict", "camera_not_found"}
           \/ /\ Act(w) = <<"grant", "issue">>
              /\ reason \in GrantReasons \cup {"camera_not_found"}
           \/ /\ Act(w) = <<"grant", "rotate">>
              /\ reason \in GrantReasons \cup
                             {"grant_not_found", "revision_conflict"}
           \/ /\ Act(w) = <<"grant", "revoke">>
              /\ reason \in {"grant_not_found", "revision_conflict"}
        /\ Issues(w) => Sent(w).key # None
        /\ Act(w) # <<"grant", "issue">> => Sent(w).revision >= 1

record_mutation_rejection(w) ==
    /\ req[w].pc = "reject"
    /\ IF Recordable(w)
       THEN Written(w, req[w].event, req[w].reason) /\ Respond(w, req[w].answer)
       ELSE Respond(w, 500) /\ UNCHANGED journal
    /\ UNCHANGED <<plan, session, resource, ledger, bucket, admitted,
                   events, clock>>

-----------------------------------------------------------------------------
(* What happens beside the requests. *)

Happens(e) == e \in events /\ events' = events \ {e}

SessionEnds ==
    /\ Happens("session") /\ session' = "ended"
    /\ UNCHANGED <<plan, req, resource, ledger, bucket, journal, admitted, clock>>
CameraDeleted ==
    /\ Happens("camera") /\ resource' = [resource EXCEPT !.camera = "deleted"]
    /\ UNCHANGED <<plan, req, session, ledger, bucket, journal, admitted, clock>>
GrantExpires ==
    /\ Happens("expiry") /\ resource.grant = "active"
    /\ resource' = [resource EXCEPT !.grant = "expired"]
    /\ UNCHANGED <<plan, req, session, ledger, bucket, journal, admitted, clock>>
Tick ==
    /\ clock < MaxTime /\ plan.timed /\ clock' = clock + 1
    /\ UNCHANGED <<plan, req, session, resource, ledger, bucket, journal,
                   admitted, events>>

Step(w) ==
    \/ arrive(w) \/ authenticate(w) \/ touch_authorized_session(w)
    \/ admit_action(w) \/ claim_operator_action(w)
    \/ record_denied_request(w) \/ _record_denial(w)
    \/ Handle(w) \/ _camera_item(w) \/ check_access_grant_request(w)
    \/ ReadCurrent(w) \/ Write(w) \/ ListGrants(w)
    \/ record_mutation_rejection(w)

RequestsNext ==
    \/ \E w \in Requests : Step(w) \/ Unavailable(w)
    \/ SessionEnds \/ CameraDeleted \/ GrantExpires \/ Tick

RequestsSpec == RequestsInit /\ [][RequestsNext]_reqVars

-----------------------------------------------------------------------------
(* Every request stands at a step of the boundary or of its handler, and the
   bucket rows, the journal and the ledger hold values of their columns. *)
RequestsTypeOK ==
    /\ \A w \in Requests :
         /\ req[w].pc \in {"arrive", "read", "touch", "admit", "claim", "deny",
                           "record", "handle", "item", "check", "current",
                           "write", "list", "reject", "done"}
         /\ req[w].status \in {0, 200, 201, 401, 403, 404, 409, 422, 428, 429,
                               500, 503}
         /\ (req[w].pc = "done") = (req[w].status # 0)
    /\ \A b \in Buckets : bucket[b].used \in 0 .. Limit
    /\ \A e \in journal : e.by \in Requests
    /\ resource.grant \in {"active", "expired", "revoked", "gone"}

Events(w) == {e.event : e \in {x \in journal : x.by = w}}

(* A refusal the operator sees is in the journal: a 401 of the boundary, a
   403 and a 429 as a denial, a 404 or 409 of an access mutation as a rejected
   mutation, whatever ended the session or the grant in between; a journal
   that cannot be written answers 503 instead.  The 401 and 428 a handler
   gives before it has tried anything, and the 404 of the dashboard's own
   catalog lookup, are not refusals of the boundary. *)
RefusalsJournaled ==
    \A w \in Requests :
      LET status == req[w].status
          handled == Administers(w) /\ NeedsMfa(w) /\ ~Sent(w).mfa
      IN  /\ status \in {403, 429} \/ (status = 401 /\ ~handled) =>
               Events(w) \cap {"authentication_denied", "authorization_denied"} # {}
          /\ status \in {404, 409} /\ req[w].reason # "catalog" =>
               Events(w) = {"mutation_rejected"}

(* The journal tells one story of a request: a mutation that committed is
   answered with success and never journaled as denied or rejected, and a
   request that was is not answered with success. *)
JournalTellsOneStory ==
    \A w \in Requests :
      /\ Cardinality({e \in journal : e.by = w}) <= 1
      /\ "accepted" \in Events(w) => req[w].status \in {200, 201}
      /\ req[w].status = 201 => Events(w) = {"accepted"}
      /\ Events(w) \cap {"authentication_denied", "authorization_denied",
                         "mutation_rejected"} # {} =>
           req[w].status \in {401, 403, 404, 409, 429}

(* Each window of a bucket admits at most its limit, and two windows of a
   bucket start at least a window apart, although the clock is read before
   the row is locked. *)
BucketsHold ==
    /\ \A i \in DOMAIN admitted :
         Cardinality({j \in DOMAIN admitted : admitted[j] = admitted[i]}) <= Limit
    /\ \A i, j \in DOMAIN admitted :
         (/\ i < j
          /\ admitted[i].bucket = admitted[j].bucket
          /\ admitted[i] # admitted[j]) =>
             admitted[j].started >= admitted[i].started + Window

(* Every rejection a handler can produce has a shape the journal accepts: a
   request ends in an internal error only when the database failed it, or as
   a JSON revoke whose revision is below 1. *)
RejectionsHaveAShape ==
    \A w \in Requests :
      req[w].status = 500 =>
        \/ req[w].failed
        \/ ~OnDashboard(Sent(w)) /\ Act(w) = <<"grant", "revoke">>
                                 /\ Sent(w).revision < 1

(* The route of a request has a name in the audit, and two surfaces of one
   mutation ask for the same permission and count in the same bucket. *)
RoutesAgree ==
    \A v, w \in Requests :
      /\ Act(w) # <<"request", "unsupported">>
      /\ Act(v) = Act(w) /\ Mutates(Sent(v)) /\ Mutates(Sent(w)) =>
           /\ _operator_permission_for_request(Sent(v))
                = _operator_permission_for_request(Sent(w))
           /\ _operator_action_bucket(Sent(v)) = _operator_action_bucket(Sent(w))
=============================================================================
