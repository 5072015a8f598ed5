--------------------------- MODULE CameraEndpoint ---------------------------
(***************************************************************************)
(* What the control plane promises the clients of a camera, whatever node  *)
(* serves it: at any moment at most one node admits readers, at most one   *)
(* reader is established in the whole system, and admission on a node      *)
(* begins only when no other node admits readers or still holds one.       *)
(***************************************************************************)
CONSTANTS Cameras, Nodes

VARIABLES
    endpoint,     \* endpoint[c]: the nodes that admit a reader of c
    holder        \* holder[c]: the nodes with an established reader of c

endpointVars == <<endpoint, holder>>

EndpointInit ==
    /\ endpoint = [c \in Cameras |-> {}]
    /\ holder = [c \in Cameras |-> {}]

(* A path is opened; a changed source may disconnect its reader.             *)
OpenEndpoint(c, n) ==
    /\ endpoint[c] = {}
    /\ holder[c] \subseteq {n}
    /\ endpoint'[c] = {n}
    /\ holder'[c] \in {holder[c], {}}

(* A path is closed in place (the reader stays) or disappears (it does not). *)
CloseEndpoint(c) ==
    /\ endpoint'[c] = {}
    /\ holder'[c] \in {holder[c], {}}

Attach(c, n) ==
    /\ endpoint[c] = {n}
    /\ holder[c] = {}
    /\ endpoint'[c] = endpoint[c]
    /\ holder'[c] = {n}

Detach(c) ==
    /\ endpoint'[c] = endpoint[c]
    /\ holder'[c] = {}

EndpointStep(c) ==
    \/ \E n \in Nodes : OpenEndpoint(c, n) \/ Attach(c, n)
    \/ CloseEndpoint(c)
    \/ Detach(c)
    \/ endpoint'[c] = endpoint[c] /\ holder'[c] = holder[c]

(* One step may concern several cameras: the death of a process takes all    *)
(* its paths.                                                                *)
EndpointSpec == EndpointInit /\ [][\A c \in Cameras : EndpointStep(c)]_endpointVars

=============================================================================
