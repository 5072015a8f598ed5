----------------------------- MODULE MediaNodes -----------------------------
(***************************************************************************)
(* The media plane: one patched MediaMTX process per node, with the paths  *)
(* configured through its management API and the downstream readers        *)
(* attached to them.  The process is not part of this repository's source; *)
(* its behaviour is the one src/rtsp_proxy/media.py relies on and ADR 0006 *)
(* fixes: a change of maxReaders alone keeps the established reader, every *)
(* other replacement of a path recreates it, and paths do not survive the  *)
(* process.                                                                *)
(***************************************************************************)
EXTENDS CameraStore

CONSTANT NoPath           \* the management API answers 404

VARIABLES
    path,                 \* path[n][c]: configuration of c's path on node n
    readers,              \* readers[n][c]: established downstream readers
    alive                 \* alive[n]: the process of node n answers

mediaVars == <<path, readers, alive>>

(* maxReaders is 1 (open) or -1 (closed: every SETUP gets 453).              *)
PathConfig == [source : Source, admission : {"open", "closed"}]

Open(s) == [source |-> s, admission |-> "open"]

Closed(s) == [source |-> s, admission |-> "closed"]

IsOpen(n, c) == path[n][c] # NoPath /\ path[n][c].admission = "open"

MediaTypeOK ==
    /\ path \in [Nodes -> [Cameras -> PathConfig \cup {NoPath}]]
    /\ readers \in [Nodes -> [Cameras -> 0..1]]
    /\ alive \in [Nodes -> BOOLEAN]

-----------------------------------------------------------------------------
(* MediaMtxClient.put_path: POST /v3/config/paths/replace.                   *)
PutPath(n, c, p) ==
    /\ path' = [path EXCEPT ![n][c] = p]
    /\ readers' = [readers EXCEPT ![n][c] =
           IF path[n][c] # NoPath /\ path[n][c].source = p.source THEN @ ELSE 0]
    /\ UNCHANGED alive

(* MediaMtxClient.delete_path: a missing path is not an error.               *)
DeletePath(n, c) ==
    /\ path' = [path EXCEPT ![n][c] = NoPath]
    /\ readers' = [readers EXCEPT ![n][c] = 0]
    /\ UNCHANGED alive

(* A reader is admitted by the path actor: below the limit, or 453.  The     *)
(* authorisation callback restricts readers further and is not consulted     *)
(* here.                                                                     *)
ReaderAttaches(n, c) ==
    /\ alive[n]
    /\ IsOpen(n, c)
    /\ readers[n][c] = 0
    /\ readers' = [readers EXCEPT ![n][c] = 1]
    /\ UNCHANGED <<path, alive>>

ReaderLeaves(n, c) ==
    /\ readers[n][c] = 1
    /\ readers' = [readers EXCEPT ![n][c] = 0]
    /\ UNCHANGED <<path, alive>>

(* The process of a node dies, with its paths and readers, and comes back    *)
(* with the configuration file only.                                         *)
NodeDies(n) ==
    /\ alive[n]
    /\ alive' = [alive EXCEPT ![n] = FALSE]
    /\ path' = [path EXCEPT ![n] = [c \in Cameras |-> NoPath]]
    /\ readers' = [readers EXCEPT ![n] = [c \in Cameras |-> 0]]

NodeStarts(n) ==
    /\ ~alive[n]
    /\ alive' = [alive EXCEPT ![n] = TRUE]
    /\ UNCHANGED <<path, readers>>

=============================================================================
