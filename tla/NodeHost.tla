------------------------------ MODULE NodeHost -------------------------------
(***************************************************************************)
(* The host side of a media node: the configuration SecureNodeConfigStore  *)
(* has installed, the process systemd runs from it, and                    *)
(* LinuxNodeSupervisor.execute, the root helper's whole operation.  The    *)
(* helper holds a lock per node from decoding a request to its reply, and  *)
(* keeps working when its client goes away, so one operation is one step;  *)
(* a client that loses the reply sees a failure of an operation that may   *)
(* have been done.                                                         *)
(***************************************************************************)
EXTENDS NodeStore

CONSTANTS
    NoConf, NoProc,
    Failure,     \* the helper answers an error, or does not answer
    MaxFaults    \* bound: helper operations that fail for no modelled reason

VARIABLES
    conf,        \* the installed mediamtx.yml and runtime.env, by node
    proc,        \* the running MediaMTX process, by node
    foreign,     \* ports some other program listens on
    faults       \* faults so far

hostVars == <<conf, proc, foreign, faults>>

-----------------------------------------------------------------------------
RenderedNodeConfig == [port : Ports, rel : Releases]

(* current: the process has the management credentials now installed.        *)
Process == [port : Ports, rel : Releases, current : BOOLEAN]

HostInit ==
    /\ conf = [n \in Nodes |-> NoConf]
    /\ proc = [n \in Nodes |-> NoProc]
    /\ foreign = {}
    /\ faults = 0

Listening(m, p) == proc[m] # NoProc /\ proc[m].port = p

Bindable(p) == p \notin foreign /\ \A m \in Nodes : ~Listening(m, p)

(* Free for node n once its own process has gone.                            *)
FreeFor(n, p) == p \notin foreign /\ \A m \in Nodes \ {n} : ~Listening(m, p)

(* What systemd runs from an installed configuration: MediaMTX exits when it *)
(* cannot bind its port.                                                     *)
Launched(n, c) ==
    IF c # NoConf /\ FreeFor(n, c.port)
    THEN [port |-> c.port, rel |-> c.rel, current |-> TRUE]
    ELSE NoProc

-----------------------------------------------------------------------------
(* The stages of LinuxNodeSupervisor.execute for action a and spec s, a      *)
(* record with fields port, rev and rel.                                     *)

Starting == {"provision_start", "start", "restart", "reconfigure_restart"}
Actions == Starting \cup {"stop", "observe", "delete"}

(* provision renders with new credentials, reconfigure keeps those installed *)
(* and fails without them, rebind_release only points at another binary.     *)
ConfigRefused(n, a) ==
    a \in Starting \ {"provision_start"} /\ conf[n] = NoConf

Configured(n, a, s) ==
    CASE a \in {"provision_start", "reconfigure_restart"} ->
             [port |-> s.port, rel |-> s.rel]
      [] a \in {"start", "restart"} -> [conf[n] EXCEPT !.rel = s.rel]
      [] OTHER -> conf[n]

(* The digest covers the port, not the release.                              *)
DigestMatches(c, s) == c # NoConf /\ c.port = s.port

(* "start" leaves an active process alone, "restart" replaces it.            *)
Operated(n, a, c) ==
    CASE a \in {"stop", "delete"} -> NoProc
      [] a = "observe" -> proc[n]
      [] a \in {"restart", "reconfigure_restart"} -> Launched(n, c)
      [] a \in {"start", "provision_start"} ->
             IF proc[n] = NoProc THEN Launched(n, c)
             ELSE [proc[n] EXCEPT !.current = @ /\ a = "start"]

SmokePasses(q, s) ==
    q # NoProc /\ q.port = s.port /\ q.rel = s.rel /\ q.current

RunningObservation(s) ==
    [state |-> "running", compat |-> TRUE, applied |-> s.rev, rel |-> s.rel]

StoppedObservation(c, s) ==
    [state |-> "stopped", compat |-> DigestMatches(c, s),
     applied |-> IF DigestMatches(c, s) THEN s.rev ELSE 0, rel |-> s.rel]

(* What the helper answers after the process stage left process q under      *)
(* configuration c.                                                          *)
Answer(n, a, s, c, q) ==
    CASE a = "delete" ->
             IF FreeFor(n, s.port)
             THEN [state |-> "stopped", compat |-> FALSE, applied |-> 0,
                   rel |-> NoRelease]
             ELSE Failure
      [] a = "stop" ->
             IF FreeFor(n, s.port) THEN StoppedObservation(c, s) ELSE Failure
      [] a = "observe" /\ q = NoProc -> StoppedObservation(c, s)
      [] OTHER ->
             IF DigestMatches(c, s) /\ SmokePasses(q, s)
             THEN RunningObservation(s) ELSE Failure

(* A start that fails its smoke is stopped again.                            *)
Settled(a, q, answer) == IF a \in Starting /\ answer = Failure THEN NoProc ELSE q

(* start and restart check the digest before they touch the process.         *)
NotApplied(n, a, s) ==
    a \in {"start", "restart"} /\ ~DigestMatches(Configured(n, a, s), s)

Observation(n, a, s) ==
    IF ConfigRefused(n, a) \/ NotApplied(n, a, s) THEN Failure
    ELSE LET c == Configured(n, a, s) IN Answer(n, a, s, c, Operated(n, a, c))

execute(n, a, s) ==
    LET c == Configured(n, a, s)
        o == Observation(n, a, s)
    IN /\ conf' = [conf EXCEPT ![n] =
              IF ConfigRefused(n, a) THEN @
              ELSE IF a = "delete" /\ o # Failure THEN NoConf ELSE c]
       /\ proc' = [proc EXCEPT ![n] =
              IF ConfigRefused(n, a) \/ NotApplied(n, a, s) THEN @
              ELSE Settled(a, Operated(n, a, c), o)]
       /\ UNCHANGED <<foreign, faults>>

(* A timeout, a failing systemctl, a full disk, a lost reply: the operation  *)
(* stops after any stage, and the cleanup may fail too.                      *)
ExecuteFault(n, a, s) ==
    /\ faults < MaxFaults
    /\ ~ConfigRefused(n, a)
    /\ LET c == Configured(n, a, s)
           reached == {proc[n], Operated(n, a, c)}
                          \cup (IF a \in Starting THEN {NoProc} ELSE {})
       IN \/ UNCHANGED <<conf, proc>>
          \/ /\ \E d \in {c} \cup (IF a = "delete" THEN {NoConf} ELSE {}) :
                    conf' = [conf EXCEPT ![n] = d]
             /\ \E q \in (IF a = "delete" THEN {NoProc} ELSE reached) :
                    proc' = [proc EXCEPT ![n] = q]
    /\ faults' = faults + 1
    /\ UNCHANGED foreign

-----------------------------------------------------------------------------
(* Restart=on-failure: systemd brings a crashed process back from the        *)
(* installed configuration; a host restart leaves it down.                   *)
ProcessCrash(n) ==
    /\ faults < MaxFaults
    /\ proc[n] # NoProc
    /\ \E q \in {NoProc, Launched(n, conf[n])} : proc' = [proc EXCEPT ![n] = q]
    /\ faults' = faults + 1
    /\ UNCHANGED <<conf, foreign>>

(* Another program takes a port nobody listens on.                           *)
ForeignListener(p) ==
    /\ faults < MaxFaults
    /\ Bindable(p)
    /\ foreign' = foreign \cup {p}
    /\ faults' = faults + 1
    /\ UNCHANGED <<conf, proc>>
=============================================================================
