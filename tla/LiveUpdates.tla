----------------------------- MODULE LiveUpdates -----------------------------
(***************************************************************************)
(* CameraLiveUpdates and its subscriptions, for the channel of one camera: *)
(* the shared refresh of snapshot, placement and probe result, the history *)
(* and the queues, replay after Last-Event-ID, and the shared lookup of    *)
(* session epochs that stands before every delivery.  Coroutines give way  *)
(* only where they await, so a section between two awaits is one action.   *)
(*                                                                         *)
(* A stream is one request for events.  Its page keeps the last event      *)
(* identifier and the view it has built, and may resume from them with a   *)
(* new request; a resync makes it read the current state afresh.  Channels *)
(* of other cameras share only the identifier counter.                     *)
(*                                                                         *)
(* The definitions no action refers to are wrong variants of the           *)
(* definition that follows them.                                           *)
(***************************************************************************)
EXTENDS Integers, Sequences, SequencesExt

CONSTANTS
    Nodes, Values,       \* where the camera is placed; what its path shows
    Streams, Sessions,
    SessionOf,           \* the operator session a stream belongs to
    Nothing,
    QueueSize, HistorySize,
    Reauthorize,         \* the interval between two checks of an epoch
    Lookup, Opening,     \* how long a lookup and the end of open may take
    Budgets              \* bounds, of which an execution has one: [ticks, changes,
                         \* events], the clock, the changes of the world together
                         \* with failed reads and restarts, and event identifiers

VARIABLES
    place,          \* the authoritative placement
    snap,           \* the aggregate snapshot of the fleet
    probe,          \* the latest probe observation of the current target
    authz,          \* authz version of a session, 0 when revoked
    since,          \* ticks since the session was revoked
    ch,             \* the channel
    nextId,
    latest,         \* _latest_index: the snapshot of the last refresh
    sub,            \* the subscriptions
    held,           \* _session_subscriptions: the stream of a session
    epoch,          \* _authorization_epochs: version and its age
    refresh,        \* the refresh task
    lookup,         \* the authorization task
    client,         \* what the page of a stream has: the last id, whether this
                    \* process issued it, and the view
    budget

liveVars == <<place, snap, probe, authz, since, ch, nextId, latest, sub, held, epoch,
              refresh, lookup, client, budget>>
world == <<place, snap, probe, authz, since, budget>>

NoEvent == [id |-> 0, kind |-> "none", node |-> Nothing, val |-> Nothing]
Resync == [NoEvent EXCEPT !.kind = "resync"]
Idle == [at |-> "idle", todo |-> {}, target |-> Nothing, snap |-> Nothing, probe |-> Nothing]
NoLookup == [at |-> "idle", who |-> {}, found |-> Nothing, age |-> 0]
NoSub == [at |-> "new", version |-> 0, node |-> Nothing, resume |-> 0, queue |-> << >>,
          closed |-> FALSE, terminal |-> FALSE, event |-> NoEvent, age |-> 0]
NoPage == [last |-> 0, own |-> TRUE, view |-> NoEvent]
Epoch(n) == [node |-> n, avail |-> TRUE, known |-> FALSE, hist |-> << >>, prev |-> Nothing,
             stamp |-> Nothing, state |-> NoEvent, probe |-> NoEvent]

Change == budget.changes > 0 /\ budget' = [budget EXCEPT !.changes = @ - 1]

LiveInit ==
    /\ place = CHOOSE n \in Nodes : TRUE
    /\ snap = [stamp |-> 1, node |-> place, val |-> CHOOSE v \in Values : TRUE]
    /\ probe = 0
    /\ authz = [u \in Sessions |-> 1] /\ since = [u \in Sessions |-> 0]
    /\ ch = Epoch(place) /\ nextId = 1 /\ latest = snap
    /\ sub = [x \in Streams |-> NoSub]
    /\ held = [u \in Sessions |-> Nothing]
    /\ epoch = [u \in Sessions |-> Nothing]
    /\ refresh = Idle /\ lookup = NoLookup
    /\ client = [x \in Streams |-> NoPage]
    /\ budget \in Budgets

-----------------------------------------------------------------------------
(* The world: the camera moves, the collector writes, sessions end.        *)
Move ==
    /\ Change
    /\ place' \in Nodes \ {place} /\ probe' = 0
    /\ UNCHANGED <<snap, authz, since, ch, nextId, latest, sub, held, epoch, refresh, lookup,
                   client>>

Collect ==
    /\ Change
    /\ \E v \in Values : snap' = [stamp |-> snap.stamp + 1, node |-> place, val |-> v]
    /\ UNCHANGED <<place, probe, authz, since, ch, nextId, latest, sub, held, epoch, refresh,
                   lookup, client>>

Probed ==
    /\ Change
    /\ probe = 0 /\ probe' = 1
    /\ UNCHANGED <<place, snap, authz, since, ch, nextId, latest, sub, held, epoch, refresh,
                   lookup, client>>

Revoke(u) ==
    /\ Change
    /\ authz[u] = 1
    /\ authz' = [authz EXCEPT ![u] = 0]
    /\ UNCHANGED <<place, snap, probe, since, ch, nextId, latest, sub, held, epoch, refresh,
                   lookup, client>>

OtherCamera ==
    /\ Change
    /\ nextId' = nextId + 1
    /\ UNCHANGED <<place, snap, probe, authz, since, ch, latest, sub, held, epoch, refresh,
                   lookup, client>>

(* A lookup that is not answered in time ends with the statement timeout.  *)
Tick ==
    /\ budget.ticks > 0
    /\ lookup.at # "idle" => lookup.age < Lookup
    /\ \A x \in Streams : sub[x].at = "opening" => sub[x].age < Opening
    /\ \A x \in Streams : sub[x].at # "woken"
    /\ sub' = [x \in Streams |-> IF sub[x].at = "opening" THEN [sub[x] EXCEPT !.age = @ + 1]
                                 ELSE sub[x]]
    /\ budget' = [budget EXCEPT !.ticks = @ - 1]
    /\ since' = [u \in Sessions |-> IF authz[u] = 0 THEN since[u] + 1 ELSE 0]
    /\ epoch' = [u \in Sessions |-> IF epoch[u] = Nothing THEN Nothing
                                    ELSE [epoch[u] EXCEPT !.age = @ + 1]]
    /\ lookup' = [lookup EXCEPT !.age = IF lookup.at = "idle" THEN 0 ELSE @ + 1]
    /\ UNCHANGED <<place, snap, probe, authz, ch, nextId, latest, held, refresh, client>>

-----------------------------------------------------------------------------
(* Events.  Subscribers is what channel.subscribers holds.                 *)
Subscribers == {x \in Streams : held[SessionOf[x]] = x}

Appended(hist, e) ==
    LET h == Append(hist, e)
    IN  IF Len(h) > HistorySize THEN Tail(h) ELSE h

(* _offer: a full queue disconnects its consumer.                          *)
Offered(s, e) ==
    IF s.closed THEN s
    ELSE IF Len(s.queue) = QueueSize THEN [s EXCEPT !.closed = TRUE]
    ELSE [s EXCEPT !.queue = Append(@, e)]

(* What the channel, the counter and the subscribers are after a section   *)
(* of the code ran: k is [ch, next, sub].                                  *)
Emit(k, e) ==
    LET event == [e EXCEPT !.id = k.next]
    IN  [ch |-> [k.ch EXCEPT !.hist = Appended(@, event),
                             !.state = IF e.kind = "state" THEN event ELSE @,
                             !.probe = IF e.kind = "probe" THEN event ELSE @],
         next |-> k.next + 1,
         sub |-> [x \in Streams |-> IF x \in Subscribers THEN Offered(k.sub[x], event)
                                    ELSE k.sub[x]]]

EpochKeepsQueues(k, node, avail) ==
    [k EXCEPT !.ch = [Epoch(node) EXCEPT !.avail = avail, !.known = TRUE]]

_start_channel_epoch(k, node, avail) ==
    [k EXCEPT !.ch = [Epoch(node) EXCEPT !.avail = avail, !.known = TRUE],
              !.sub = [x \in Streams |->
                         IF x \in Subscribers /\ ~k.sub[x].closed
                         THEN [k.sub[x] EXCEPT !.queue = <<Resync>>] ELSE k.sub[x]]]

(* _project_camera: what the snapshot says of the exact node and path.     *)
Projection(c, s) ==
    IF s = Nothing \/ ~c.avail THEN Nothing
    ELSE IF s.node # c.node THEN Nothing ELSE s.val

_observe_channel(k, s) ==
    LET data == [node |-> k.ch.node, val |-> Projection(k.ch, s)]
    IN  IF (s # Nothing /\ k.ch.stamp = s.stamp) \/ k.ch.prev = data THEN k
        ELSE Emit([k EXCEPT !.ch.prev = data,
                            !.ch.stamp = IF s = Nothing THEN Nothing ELSE s.stamp],
                  [NoEvent EXCEPT !.kind = "state", !.node = data.node, !.val = data.val])

(* _observe_authoritative_targets: t is a node, or Nothing when the lookup *)
(* failed.                                                                 *)
ObserveTarget(k, t) ==
    IF t = Nothing
    THEN IF k.ch.avail THEN _start_channel_epoch(k, k.ch.node, FALSE) ELSE k
    ELSE IF ~k.ch.avail \/ t # k.ch.node THEN _start_channel_epoch(k, t, TRUE) ELSE k

NoProbes(hist) == SelectSeq(hist, LAMBDA e : e.kind \notin {"probe", "cleared"})

(* _observe_probe_results: p is the node the result is of, 0 for none.     *)
_observe_probe_results(k, p) ==
    LET bare == [k EXCEPT !.ch.hist = NoProbes(@)]
    IN  IF ~k.ch.avail THEN k
        ELSE IF p = k.ch.node
        THEN IF k.ch.probe # NoEvent THEN k
             ELSE Emit(bare, [NoEvent EXCEPT !.kind = "probe", !.node = p])
        ELSE IF k.ch.probe = NoEvent THEN k
             ELSE Emit([bare EXCEPT !.ch.probe = NoEvent], [NoEvent EXCEPT !.kind = "cleared"])

(* The subscribers a section closed are no longer registered.              *)
Apply(k) ==
    /\ ch' = k.ch /\ nextId' = k.next /\ sub' = k.sub
    /\ held' = [u \in Sessions |->
                  IF held[u] # Nothing /\ k.sub[held[u]].closed /\ ~k.sub[held[u]].terminal
                  THEN Nothing ELSE held[u]]
    /\ epoch' = [u \in Sessions |-> IF held'[u] = Nothing THEN Nothing ELSE epoch[u]]

Here == [ch |-> ch, next |-> nextId, sub |-> sub]
Room == nextId + 2 <= budget.events

-----------------------------------------------------------------------------
(* _refresh_from_reader: the reads run side by side in threads, each may   *)
(* fail, and one locked section applies what they found.  Without          *)
(* subscribers only the snapshot is read.                                  *)
BeginRefresh ==
    /\ refresh.at = "idle"
    /\ refresh' = [Idle EXCEPT !.at = "reading",
                               !.todo = IF Subscribers = {} THEN {"snap"}
                                        ELSE {"target", "probe", "snap"}]
    /\ UNCHANGED <<world, ch, nextId, latest, sub, held, epoch, lookup, client>>

Found(read) == CASE read = "target" -> <<place>>
                 [] read = "probe" -> <<IF probe = 1 THEN place ELSE 0>>
                 [] read = "snap" -> snap

Missed(read) == IF read = "target" THEN <<Nothing>> ELSE Nothing

ReadOne(read) ==
    /\ read \in refresh.todo
    /\ \/ /\ refresh' = [refresh EXCEPT !.todo = @ \ {read}, ![read] = Found(read)]
          /\ UNCHANGED budget
       \/ refresh' = [refresh EXCEPT !.todo = @ \ {read}, ![read] = Missed(read)] /\ Change
    /\ UNCHANGED <<place, snap, probe, authz, since, ch, nextId, latest, sub, held, epoch,
                   lookup, client>>

ApplyRefresh ==
    /\ refresh.at = "reading" /\ refresh.todo = {} /\ Room
    /\ LET a == IF refresh.target = Nothing THEN Here ELSE ObserveTarget(Here, refresh.target[1])
           b == IF ch.known THEN _observe_channel(a, refresh.snap) ELSE a
           c == IF refresh.probe = Nothing THEN b ELSE _observe_probe_results(b, refresh.probe[1])
       IN  Apply(c)
    /\ refresh' = Idle /\ latest' = refresh.snap
    /\ UNCHANGED <<world, lookup, client>>

-----------------------------------------------------------------------------
(* open: the request resolves the camera and is authorized, then registers.*)
BeginOpen(x) ==
    LET u == SessionOf[x] IN
    /\ sub[x].at = "new" /\ authz[u] = 1
    /\ \E page \in {NoPage} \cup {client[y] : y \in {z \in Streams : SessionOf[z] = u}} :
         /\ sub' = [sub EXCEPT ![x] = [NoSub EXCEPT !.at = "opening", !.version = 1,
                                                    !.node = place, !.resume = page.last]]
         /\ client' = [client EXCEPT ![x] = IF page.last = 0 THEN NoPage ELSE page]
    /\ UNCHANGED <<world, ch, nextId, latest, held, epoch, refresh, lookup>>

(* _get_or_create_channel.                                                 *)
Channel(k, node) ==
    IF ~k.ch.known THEN [k EXCEPT !.ch = [Epoch(node) EXCEPT !.known = TRUE]]
    ELSE IF k.ch.node # node \/ ~k.ch.avail THEN _start_channel_epoch(k, node, TRUE)
    ELSE k

(* _replay: the latest events, the missing ones, or a resync.              *)
_replay(c, resume) ==
    LET missed == SelectSeq(c.hist, LAMBDA e : e.id > resume)
        newest == (IF c.state = NoEvent THEN << >> ELSE <<c.state>>)
                  \o (IF c.probe = NoEvent THEN << >> ELSE <<c.probe>>)
    IN  IF resume = 0 THEN SubSeq(newest, 1, IF Len(newest) < QueueSize THEN Len(newest)
                                             ELSE QueueSize)
        ELSE IF \/ c.hist = << >> \/ resume < Head(c.hist).id \/ resume > Last(c.hist).id
                \/ Len(missed) >= QueueSize
        THEN <<Resync>> ELSE missed

FinishOpen(x) ==
    LET u == SessionOf[x]
        k == _observe_channel(Channel(Here, sub[x].node), latest)
        opened == [sub[x] EXCEPT !.at = "open", !.age = 0, !.resume = 0, !.node = Nothing,
                                !.queue = _replay(k.ch, sub[x].resume)]
    IN
    /\ sub[x].at = "opening" /\ held[u] = Nothing /\ Room
    /\ ch' = k.ch /\ nextId' = k.next
    /\ sub' = [k.sub EXCEPT ![x] = opened]
    /\ held' = [v \in Sessions |->
                  IF v = u THEN x
                  ELSE IF held[v] # Nothing /\ k.sub[held[v]].closed THEN Nothing ELSE held[v]]
    /\ epoch' = [v \in Sessions |->
                   IF v = u THEN [version |-> 1, age |-> 0]
                   ELSE IF held'[v] = Nothing THEN Nothing ELSE epoch[v]]
    /\ UNCHANGED <<world, latest, refresh, lookup, client>>

(* live_stream_session_limit.                                              *)
RejectOpen(x) ==
    /\ sub[x].at = "opening" /\ held[SessionOf[x]] # Nothing
    /\ sub' = [sub EXCEPT ![x].at = "ended"]
    /\ UNCHANGED <<world, ch, nextId, latest, held, epoch, refresh, lookup, client>>

-----------------------------------------------------------------------------
(* __anext__: an event is taken, the epoch is checked, the event is sent.  *)
Stale(u) == IF epoch[u] = Nothing THEN TRUE ELSE epoch[u].age >= Reauthorize

Take(x) ==
    /\ sub[x].at = "open" /\ ~sub[x].closed
    /\ \/ /\ sub[x].queue # << >>
          /\ sub' = [sub EXCEPT ![x].at = "checking", ![x].event = Head(sub[x].queue),
                                ![x].queue = Tail(@)]
       \/ /\ Stale(SessionOf[x])
          /\ sub' = [sub EXCEPT ![x].at = "checking", ![x].event = NoEvent]
    /\ UNCHANGED <<world, ch, nextId, latest, held, epoch, refresh, lookup, client>>

Seen(page, e) ==
    [last |-> IF e.id > 0 THEN e.id ELSE page.last,
     own |-> e.id > 0 \/ page.own,
     view |-> CASE e.kind = "state" -> e
                [] e.kind = "resync" -> Resync
                [] OTHER -> page.view]

Deliver(x) ==
    /\ sub' = [sub EXCEPT ![x].at = "open", ![x].event = NoEvent]
    /\ client' = [client EXCEPT ![x] = Seen(@, sub[x].event)]
    /\ UNCHANGED <<held, epoch>>

Confirmed(x) == epoch[SessionOf[x]] # Nothing /\ epoch[SessionOf[x]].version = sub[x].version

(* _close_for_authz_change, whose removal is by session.                   *)
CloseForAuthz(x) ==
    /\ sub' = [sub EXCEPT ![x].at = "open", ![x].closed = TRUE, ![x].terminal = TRUE,
                          ![x].event = NoEvent, ![x].queue = << >>]
    /\ held' = [held EXCEPT ![SessionOf[x]] = Nothing]
    /\ epoch' = [epoch EXCEPT ![SessionOf[x]] = Nothing]
    /\ UNCHANGED client

Check(x) ==
    /\ sub[x].at = "checking"
    /\ IF Confirmed(x) /\ epoch[SessionOf[x]].age < Reauthorize
       THEN Deliver(x) /\ UNCHANGED lookup
       ELSE /\ sub' = [sub EXCEPT ![x].at = "waiting"]
            /\ lookup' = IF lookup.at = "idle" THEN [NoLookup EXCEPT !.at = "begin"] ELSE lookup
            /\ UNCHANGED <<held, epoch, client>>
    /\ UNCHANGED <<world, ch, nextId, latest, refresh>>

(* The shared lookup: the sessions, their epochs, and the locked section.  *)
(* A lookup that fails finds no session current.                           *)
ReadEpochs ==
    /\ lookup.at = "begin"
    /\ LET read(found) == lookup' = [at |-> "answer", age |-> 0, found |-> found,
                                     who |-> {u \in Sessions : held[u] # Nothing}]
       IN  \/ read(authz) /\ UNCHANGED budget
           \/ read([u \in Sessions |-> 0]) /\ Change
    /\ UNCHANGED <<place, snap, probe, authz, since, ch, nextId, latest, sub, held, epoch,
                   refresh, client>>

StoreEpochs ==
    /\ lookup.at = "answer"
    /\ epoch' = [u \in Sessions |->
                   IF u \in lookup.who /\ held[u] # Nothing
                   THEN [version |-> lookup.found[u], age |-> 0] ELSE epoch[u]]
    /\ sub' = [x \in Streams |-> IF sub[x].at = "waiting" THEN [sub[x] EXCEPT !.at = "woken"]
                                 ELSE sub[x]]
    /\ lookup' = NoLookup
    /\ UNCHANGED <<world, ch, nextId, latest, held, refresh, client>>

Wake(x) ==
    /\ sub[x].at = "woken"
    /\ IF Confirmed(x) THEN Deliver(x) ELSE CloseForAuthz(x)
    /\ UNCHANGED <<world, ch, nextId, latest, refresh, lookup>>

WaitTimesOut(x) ==
    /\ sub[x].at = "waiting"
    /\ CloseForAuthz(x)
    /\ UNCHANGED <<world, ch, nextId, latest, refresh, lookup>>

(* aclose: the response ended, or the browser went away.                   *)
Close(x) ==
    LET gone == sub[x].closed /\ ~sub[x].terminal IN
    /\ sub[x].at = "open"
    /\ sub' = [sub EXCEPT ![x] = [NoSub EXCEPT !.at = "ended"]]
    /\ held' = IF gone THEN held ELSE [held EXCEPT ![SessionOf[x]] = Nothing]
    /\ epoch' = IF gone THEN epoch ELSE [epoch EXCEPT ![SessionOf[x]] = Nothing]
    /\ UNCHANGED <<world, ch, nextId, latest, refresh, lookup, client>>

(* A restart of the web process: browsers keep what they have.             *)
Restart ==
    /\ Change
    /\ ch' = Epoch(place) /\ nextId' = 1 /\ latest' = snap
    /\ sub' = [x \in Streams |-> IF sub[x].at = "new" THEN NoSub
                                 ELSE [NoSub EXCEPT !.at = "ended"]]
    /\ held' = [u \in Sessions |-> Nothing] /\ epoch' = [u \in Sessions |-> Nothing]
    /\ refresh' = Idle /\ lookup' = NoLookup
    /\ client' = [x \in Streams |-> [client[x] EXCEPT !.own = client[x].last = 0]]
    /\ UNCHANGED <<place, snap, probe, authz, since>>

LiveNext ==
    \/ Move \/ Collect \/ Probed \/ OtherCamera \/ Tick \/ Restart
    \/ \E u \in Sessions : Revoke(u)
    \/ BeginRefresh \/ ApplyRefresh
    \/ \E read \in {"target", "probe", "snap"} : ReadOne(read)
    \/ ReadEpochs \/ StoreEpochs
    \/ \E x \in Streams :
         \/ BeginOpen(x) \/ FinishOpen(x) \/ RejectOpen(x) \/ Take(x) \/ Check(x)
         \/ Wake(x) \/ WaitTimesOut(x) \/ Close(x)

LiveSpec == LiveInit /\ [][LiveNext]_liveVars

-----------------------------------------------------------------------------
(* Properties.                                                             *)

Open(x) == held[SessionOf[x]] = x /\ ~sub[x].closed

(* "queued/history events from the previous node are discarded": nothing   *)
(* of another node is left in the history or waits in a queue.             *)
OneNodePerEpoch ==
    LET ofNode(e) == e.kind \in {"state", "probe"} => e.node = ch.node
    IN  /\ \A i \in DOMAIN ch.hist : ofNode(ch.hist[i])
        /\ \A x \in Streams : Open(x) =>
             \A i \in DOMAIN sub[x].queue : ofNode(sub[x].queue[i])

(* History identifiers rise, so replay after Last-Event-ID has no holes it *)
(* cannot see.                                                             *)
HistoryOrdered ==
    \A i, j \in DOMAIN ch.hist : i < j => ch.hist[i].id < ch.hist[j].id

(* What the browser will show once it has drained its queue.               *)
Drained(x) ==
    LET states == SelectSeq(<<sub[x].event>> \o sub[x].queue,
                            LAMBDA e : e.kind \in {"state", "resync"})
    IN  IF states = << >> THEN client[x].view ELSE Last(states)

(* An open stream whose position this process issued ends up with the      *)
(* latest state of the channel, or was told to read it (_replay, _offer    *)
(* and _start_new_epoch between them lose nothing).                        *)
StreamCatchesUp ==
    \A x \in Streams : Open(x) /\ client[x].own =>
      Drained(x) \in {ch.state, Resync}

Ceiling == Max({Reauthorize + Lookup, Opening + Reauthorize, Opening + Lookup})

DeliveryStep ==
    \A x \in Streams :
      (client'[x] # client[x] /\ sub[x].event.id > 0
         /\ sub[x].at \in {"checking", "woken"} /\ sub'[x].at = "open") =>
        (authz[SessionOf[x]] = sub[x].version \/ since[SessionOf[x]] <= Ceiling)

(* The revocation ceiling of __anext__ and _authorization_current: nothing *)
(* is delivered to a session revoked longer ago than a check and the       *)
(* lookup after it, or than open and either of them: open registers an     *)
(* epoch that was read before it waited, and a waiter may join a lookup    *)
(* that began without its session.                                         *)
RevocationCeiling == [][DeliveryStep]_liveVars
=============================================================================
