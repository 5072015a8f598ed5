------------------------- MODULE MCOperatorRequests -------------------------
(***************************************************************************)
(* The requests TLC sends through OperatorRequests: every route of the     *)
(* dashboard and of the API, paired with each route of the same journal    *)
(* target, and the pairs and trios of camera access requests that meet at  *)
(* one grant, one policy, one key or one bucket.                           *)
(***************************************************************************)
EXTENDS OperatorRequests

CONSTANTS q1, q2, q3, c1, c9, k1, k2    \* requests, cameras and keys

Request(m, p) ==
    [method |-> m, path |-> p, form |-> TRUE, csrf |-> TRUE, token |-> TRUE,
     mfa |-> TRUE, key |-> None, body |-> "b1", revision |-> 1]

NodeApi(t) == <<"api", "nodes", "n1">> \o t
NodePage(t) == <<"dashboard", "nodes", "n1">> \o t
CameraApi(t) == <<"api", "cameras", c1>> \o t
CameraPage(t) == <<"dashboard", "cameras", c1>> \o t

NodeVerbs ==
    {<<"start">>, <<"stop">>, <<"restart">>, <<"drain">>, <<"maintenance">>, <<"resume">>,
     <<"reconfigure">>, <<"reconfigure", "preview">>, <<"port-change">>,
     <<"port-change", "preview">>}
CameraVerbs == {<<"enable">>, <<"disable">>, <<"mutations", "preview">>, <<"moves", "preview">>}

Reads ==
    {<<"dashboard">>, <<"dashboard", "logout">>, <<"dashboard", "password">>,
     <<"dashboard", "mfa">>, <<"dashboard", "nodes", "new">>, <<"dashboard", "cameras">>,
     <<"dashboard", "cameras", "new">>, <<"api", "dashboard", "snapshot">>,
     <<"api", "dashboard", "live-status">>, <<"api", "operator", "session">>,
     <<"api", "nodes">>, <<"api", "cameras">>, <<"api", "camera-moves", "m1">>}
    \cup {NodePage(t) : t \in {<<>>, <<"registered">>}}
    \cup {CameraPage(t) : t \in {<<>>, <<"live">>, <<"events">>, <<"access">>, <<"edit">>,
             <<"access-grants", "g1", "revoke">>, <<"move">>, <<"moves", "m1">>}}
    \cup {CameraApi(t) : t \in {<<"runtime">>, <<"access-policy">>, <<"access-grants">>,
             <<"probe-profile">>}}

Posts ==
    {<<"dashboard", "logout">>, <<"dashboard", "password">>, <<"dashboard", "mfa">>,
     <<"dashboard", "mfa", "inline">>, <<"dashboard", "nodes">>, <<"dashboard", "cameras">>,
     <<"api", "operator", "password">>, <<"api", "nodes">>, <<"api", "cameras">>,
     NodeApi(<<"observe">>), NodePage(<<"delete">>), NodePage(<<"release">>)}
    \cup {NodeApi(t) : t \in NodeVerbs} \cup {NodePage(t) : t \in NodeVerbs}
    \cup {CameraApi(t) : t \in CameraVerbs} \cup {CameraPage(t) : t \in CameraVerbs}
    \cup {CameraApi(t) : t \in {<<"access-grants">>, <<"access-grants", "g1", "rotate">>,
             <<"moves">>}}
    \cup {CameraPage(t) : t \in {<<"moves", "apply">>, <<"mutations", "apply">>,
             <<"access-policy">>, <<"access-grants">>, <<"access-grants", "g1", "rotate">>,
             <<"access-grants", "g1", "revoke">>, <<"access-grants", "purge-inactive">>,
             <<"probe-profile">>}}

Routes ==
    {<<"GET", p>> : p \in Reads} \cup {<<"POST", p>> : p \in Posts}
    \cup {<<"PUT", p>> : p \in {CameraApi(<<>>), CameraApi(<<"access-policy">>),
             CameraApi(<<"probe-profile">>), NodeApi(<<"release">>)}}
    \cup {<<"DELETE", p>> : p \in {CameraApi(<<>>), NodeApi(<<>>),
             CameraApi(<<"access-grants", "g1">>), <<"api", "operator", "session">>}}

Plan(sent, hits, role, timed) ==
    [sent |-> sent, events |-> hits, role |-> role, scopes |-> {"server"},
     limits |-> TRUE, timed |-> timed]
Pair(a, b) == (q1 :> a) @@ (q2 :> b)
Trio(a, b, c) == Pair(a, b) @@ (q3 :> c)

Target(r) == _operator_audit_target(Request(r[1], r[2]))
RoutePlans ==
    {Plan(Pair(Request(r[1][1], r[1][2]), Request(r[2][1], r[2][2])), {}, "operator", FALSE) :
        r \in {s \in Routes \X Routes : Target(s[1]) = Target(s[2])}}

Keyed(r, k) == [r EXCEPT !.key = k]
Revised(r, v) == [r EXCEPT !.revision = v]
Issue == Request("POST", CameraApi(<<"access-grants">>))
IssuePage == Request("POST", CameraPage(<<"access-grants">>))
Rotate == Request("POST", CameraApi(<<"access-grants", "g1", "rotate">>))
RotatePage == Request("POST", CameraPage(<<"access-grants", "g1", "rotate">>))
RevokeApi == Request("DELETE", CameraApi(<<"access-grants", "g1">>))
RevokePage == Request("POST", CameraPage(<<"access-grants", "g1", "revoke">>))
Policy == Request("PUT", CameraApi(<<"access-policy">>))
PolicyPage == Request("POST", CameraPage(<<"access-policy">>))
AccessList == Request("GET", CameraPage(<<"access">>))
EventStream == Request("GET", CameraPage(<<"events">>))

AccessRequests ==
    <<Keyed(Issue, k1), Keyed(IssuePage, k1), [Keyed(IssuePage, k1) EXCEPT !.body = "b2"],
      Keyed(Rotate, k1), Keyed(RotatePage, k2),
      RevokeApi, Revised(RevokePage, 2), Revised(RevokeApi, 0),
      Policy, PolicyPage, Revised(PolicyPage, 0),
      Request("POST", CameraPage(<<"access-grants", "purge-inactive">>)),
      Request("GET", CameraApi(<<"access-grants">>)), AccessList, EventStream>>

Sound == {AccessRequests[i] : i \in DOMAIN AccessRequests}
(* The same requests with one thing missing, or for an unknown camera.      *)
Lacking ==
    UNION {{[r EXCEPT !.form = FALSE], [r EXCEPT !.csrf = FALSE], [r EXCEPT !.token = FALSE],
            [r EXCEPT !.mfa = FALSE], [r EXCEPT !.key = None], [r EXCEPT !.path[3] = c9]} :
           r \in Sound}

MCPlans ==
    RoutePlans
    \cup {Plan(Pair(AccessRequests[i[1]], AccessRequests[i[2]]), {"camera", "expiry"}, "admin",
               FALSE) :
            i \in {j \in (DOMAIN AccessRequests) \X (DOMAIN AccessRequests) : j[1] <= j[2]}}
    \cup {Plan(Pair(r, RevokeApi), {"fault", "session"}, "admin", FALSE) :
            r \in Sound \cup Lacking}
    \cup {[Plan(Pair(r, EventStream), {"session"}, "operator", FALSE)
             EXCEPT !.scopes = {c9}, !.limits = FALSE] : r \in Sound}
    \cup {[Plan(Pair(EventStream, AccessList), {}, "admin", FALSE) EXCEPT !.limits = FALSE],
          Plan(Trio(Keyed(Issue, k1), Keyed(RotatePage, k2), Keyed(IssuePage, k2)), {"session"},
               "admin", FALSE),
          Plan(Trio(Keyed(Issue, k1), Keyed(IssuePage, k2), Rotate), {}, "admin", TRUE)}
=============================================================================
