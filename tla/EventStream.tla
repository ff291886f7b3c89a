---------------------------- MODULE EventStream ----------------------------
(***************************************************************************)
(* The operator event stream of the control-plane API: a Redis channel is  *)
(* read by one task (the fan-in), every event gets the next id, goes to a  *)
(* ring buffer and to the bounded queue of each stream of its              *)
(* organisation.  A client that lost its stream comes back with the id of  *)
(* the last event it saw and is first sent what the ring still holds.      *)
(* At the end of the process the streams are drained.                      *)
(*                                                                         *)
(* asyncio runs one task at a time and no holder of the hub's lock or the  *)
(* drain's lock awaits anything, so what a task does between two awaits on *)
(* I/O is one step.  The model is one life of the process: ids restart     *)
(* with it.  The payload of an event and the SSE framing are left out.     *)
(***************************************************************************)
EXTENDS Integers, Sequences, FiniteSets, SequencesExt

CONSTANTS
    Clients,        \* operators' browsers
    OrgOf,          \* the organisation of a client's session
    Permitted,      \* the clients whose session carries operator:metadata_read
    Streams,        \* connections, 1 .. N
    Messages,       \* what is published on the Redis channel, in order
    QueueSize,      \* 64 in the code
    HistoryLimit,   \* 256 in the code
    MaxFaults       \* failures of the fan-in's connection, broken connections, slow writes

VARIABLES
    history,    \* _history: the ring buffer
    nextId,     \* _next_id
    subs,       \* _subscribers
    queue,      \* the queue of each subscription
    pc,         \* where the stream's task is
    who,        \* the client of a stream
    todo,       \* the rest of the backlog the stream still has to send
    draining,   \* DrainState.draining
    tasks,      \* DrainState._sse_tasks
    pending,    \* the tasks wait_sse_drain waits for
    phase,      \* _close_runtime: serving, waiting, forcing, stopping, closed
    fan,        \* redis_fan_in_loop: connect, read, backoff, ended
    wire,       \* what Redis has sent to the fan-in's subscription
    emitted,    \* how many of Messages have been published
    conn,       \* the stream a client listens to, 0 if none
    got,        \* the events a client received, in order
    all,        \* every event that got an id
    discarded,  \* (stream's client, event) pairs _force_sentinel took out of a queue
    trimmed,    \* (client, event) pairs that had left the ring when the client came back
    faults

hub == <<history, nextId, all>>
drain == <<draining, pending, phase>>
fanin == <<fan, wire, emitted>>
ghosts == <<discarded, trimmed>>
vars == <<hub, subs, queue, pc, who, todo, drain, tasks, fanin, conn, got, ghosts, faults>>

Sentinel == [id |-> 0, org |-> "none"]
Running == {"backlog", "loop", "wait"}
Broken == faults < MaxFaults /\ faults' = faults + 1

Init ==
    /\ history = <<>> /\ nextId = 1 /\ subs = {} /\ all = <<>>
    /\ queue = [s \in Streams |-> <<>>]
    /\ pc = [s \in Streams |-> "free"]
    /\ who = [s \in Streams |-> "nobody"]
    /\ todo = [s \in Streams |-> <<>>]
    /\ draining = FALSE /\ tasks = {} /\ pending = {} /\ phase = "serving"
    /\ fan = "connect" /\ wire = <<>> /\ emitted = 0
    /\ conn = [c \in Clients |-> 0]
    /\ got = [c \in Clients |-> <<>>]
    /\ discarded = {} /\ trimmed = {} /\ faults = 0

-----------------------------------------------------------------------------
\* The hub.

\* A full queue loses its oldest event to make room for the end marker.
ForceSentinel(q) == IF Len(q) < QueueSize THEN Append(q, Sentinel) ELSE Append(Tail(q), Sentinel)

DisconnectSubscriber(q) == IF Len(q) < QueueSize THEN Append(q, Sentinel) ELSE ForceSentinel(q)

Lagging(e) == {s \in subs : OrgOf[who[s]] = e.org /\ Len(queue[s]) = QueueSize}
KeepLast(h) == SubSeq(h, Len(h) - (IF Len(h) > HistoryLimit THEN HistoryLimit ELSE Len(h)) + 1, Len(h))

Publish(org) ==
    LET e == [id |-> nextId, org |-> org]
        late == Lagging(e)
    IN  /\ nextId' = nextId + 1
        /\ all' = Append(all, e)
        /\ history' = KeepLast(Append(history, e))
        /\ queue' = [s \in Streams |->
             IF s \in late THEN DisconnectSubscriber(queue[s])
             ELSE IF s \in subs /\ OrgOf[who[s]] = org THEN Append(queue[s], e)
             ELSE queue[s]]
        /\ subs' = subs \ late
        /\ discarded' = discarded \cup {<<who[s], Head(queue[s]).id>> : s \in late}

\* Faulty variant: the event the client named is sent again.
BacklogAfterInclusive(org, lastId) == SelectSeq(history, LAMBDA e : e.org = org /\ e.id >= lastId)

BacklogAfter(org, lastId) == SelectSeq(history, LAMBDA e : e.org = org /\ e.id > lastId)

\* close_all leaves a full queue as it is: its reader meets the drain flag first.
CloseAll(q) == IF Len(q) < QueueSize THEN Append(q, Sentinel) ELSE q

-----------------------------------------------------------------------------
\* The fan-in.

DecodeFanInPayload(m) ==
    CASE m.data = "bytes" -> "none"
      [] m.data \in {"text", "list"} -> "raw"
      [] OTHER -> "object"

\* An event without a readable organisation is dropped.
OrgIdFromFanInPayload(m) == IF DecodeFanInPayload(m) = "object" /\ m.org \notin {"none", "bad"}
                            THEN m.org ELSE "none"

FanInPublishMessage(m) ==
    IF OrgIdFromFanInPayload(m) = "none" THEN UNCHANGED <<hub, queue, subs, discarded>>
                                         ELSE Publish(OrgIdFromFanInPayload(m))

ConnectPubsub ==
    /\ fan = "connect" /\ phase # "closed"
    /\ \/ fan' = "read" /\ wire' = <<>> /\ UNCHANGED faults
       \/ Broken /\ fan' = "backoff" /\ UNCHANGED wire
       \/ Broken /\ fan' = "ended" /\ UNCHANGED wire       \* AuthenticationError
    /\ UNCHANGED <<hub, subs, queue, pc, who, todo, drain, tasks, emitted, conn, got, ghosts>>

FanInReadLoop ==
    /\ fan = "read" /\ wire # <<>>
    /\ FanInPublishMessage(Head(wire))
    /\ wire' = Tail(wire)
    /\ UNCHANGED <<pc, who, todo, drain, tasks, fan, emitted, conn, got, trimmed, faults>>

\* The connection to Redis fails: unread messages are gone with it.
FanInGetMessageFails ==
    /\ fan = "read" /\ Broken
    /\ fan' = "backoff" /\ wire' = <<>>
    /\ UNCHANGED <<hub, subs, queue, pc, who, todo, drain, tasks, emitted, conn, got, ghosts>>

BackoffSleep ==
    /\ fan = "backoff"
    /\ fan' = "connect"
    /\ UNCHANGED <<hub, subs, queue, pc, who, todo, drain, tasks, wire, emitted, conn, got, ghosts, faults>>

\* External: a message is published; Redis keeps it for nobody.
Emit ==
    /\ emitted < Len(Messages)
    /\ emitted' = emitted + 1
    /\ wire' = IF fan = "read" THEN Append(wire, Messages[emitted + 1]) ELSE wire
    /\ UNCHANGED <<hub, subs, queue, pc, who, todo, drain, tasks, fan, conn, got, ghosts, faults>>

-----------------------------------------------------------------------------
\* The streams.

RequireOperatorEventSession(c) == c \in Permitted
LastSeen(c) == IF got[c] = <<>> THEN 0 ELSE got[c][Len(got[c])]

\* External: a client without a live stream opens one; a draining process answers 503.
StreamEvents(c, s) ==
    /\ (IF conn[c] = 0 THEN TRUE ELSE pc[conn[c]] \in {"ended", "done"})
    /\ pc[s] = "free" /\ \A t \in Streams : t < s => pc[t] # "free"
    /\ RequireOperatorEventSession(c)
    /\ ~draining
    /\ pc' = [pc EXCEPT ![s] = "admitted"]
    /\ who' = [who EXCEPT ![s] = c]
    /\ conn' = [conn EXCEPT ![c] = s]
    /\ UNCHANGED <<hub, subs, queue, todo, drain, tasks, fanin, got, ghosts, faults>>

\* Faulty variant: a response that starts after the drain began is registered.
RegisterSseAlways(s) == tasks' = tasks \cup {s}

RegisterSse(s) == ~draining /\ tasks' = tasks \cup {s}

\* Faulty variant: the subscription is made without looking at what the ring holds.
SubscribeLiveOnly(s) == todo' = todo /\ subs' = subs \cup {s}

Subscribe(s) ==
    LET backlog == BacklogAfter(OrgOf[who[s]], LastSeen(who[s]))
    IN  /\ todo' = [todo EXCEPT ![s] = backlog]
        /\ subs' = subs \cup {s}

\* The first step of the response: registration, then the subscription.
EventStream(s) ==
    /\ pc[s] = "admitted"
    /\ RegisterSse(s)
    /\ Subscribe(s)
    /\ pc' = [pc EXCEPT ![s] = "backlog"]
    /\ trimmed' = trimmed \cup
         {<<who[s], i>> : i \in {j \in 1 .. Len(all) : \A k \in 1 .. Len(history) : history[k].id # j}}
    /\ UNCHANGED <<hub, queue, who, drain, fanin, conn, got, discarded, faults>>

\* Registration is refused while draining: the response fails at once.
EventStreamRefused(s) ==
    /\ pc[s] = "admitted" /\ draining
    /\ pc' = [pc EXCEPT ![s] = "done"]
    /\ UNCHANGED <<hub, subs, queue, who, todo, drain, tasks, fanin, conn, got, ghosts, faults>>

\* External: a chunk reaches the client; a heartbeat carries no event.
Received(c, e) == got' = [got EXCEPT ![c] = IF e = Sentinel THEN @ ELSE Append(@, e.id)]

\* One chunk leaves the hub: the client has it and the stream goes on to `next`, the
\* client is gone, or the write meets its deadline with the chunk sent or not.
HubChunk(s, e, next) ==
    LET c == who[s]
    IN  \/ /\ conn[c] = s /\ Received(c, e)
           /\ pc' = [pc EXCEPT ![s] = next] /\ UNCHANGED faults
        \/ /\ conn[c] # s /\ got' = got
           /\ pc' = [pc EXCEPT ![s] = "ended"] /\ UNCHANGED faults
        \/ /\ conn[c] = s /\ Broken
           /\ Received(c, e) \/ got' = got
           /\ pc' = [pc EXCEPT ![s] = "ended"]

SendBacklog(s) ==
    /\ pc[s] = "backlog" /\ todo[s] # <<>>
    /\ HubChunk(s, Head(todo[s]), "backlog")
    /\ todo' = [todo EXCEPT ![s] = Tail(@)]
    /\ UNCHANGED <<hub, subs, queue, who, drain, tasks, fanin, conn, ghosts>>

BacklogSent(s) ==
    /\ pc[s] = "backlog" /\ todo[s] = <<>>
    /\ pc' = [pc EXCEPT ![s] = "loop"]
    /\ UNCHANGED <<hub, subs, queue, who, todo, drain, tasks, fanin, conn, got, ghosts, faults>>

\* The head of the loop of _live_chunks.
LiveLoop(s) ==
    /\ pc[s] = "loop"
    /\ pc' = [pc EXCEPT ![s] = IF draining THEN "ended" ELSE "wait"]
    /\ UNCHANGED <<hub, subs, queue, who, todo, drain, tasks, fanin, conn, got, ghosts, faults>>

LiveChunk(s) ==
    /\ pc[s] = "wait" /\ queue[s] # <<>>
    /\ queue' = [queue EXCEPT ![s] = Tail(@)]
    /\ IF Head(queue[s]) = Sentinel
       THEN pc' = [pc EXCEPT ![s] = "ended"] /\ UNCHANGED <<got, faults>>
       ELSE HubChunk(s, Head(queue[s]), "loop")
    /\ UNCHANGED <<hub, subs, who, todo, drain, tasks, fanin, conn, ghosts>>

Heartbeat(s) ==
    /\ pc[s] = "wait" /\ queue[s] = <<>>
    /\ HubChunk(s, Sentinel, "loop")
    /\ UNCHANGED <<hub, subs, queue, who, todo, drain, tasks, fanin, conn, ghosts>>

\* The generator's finally and the task's done callback.
Unsubscribe(s) ==
    /\ pc[s] = "ended"
    /\ pc' = [pc EXCEPT ![s] = "done"]
    /\ subs' = subs \ {s}
    /\ tasks' = tasks \ {s}
    /\ UNCHANGED <<hub, queue, who, todo, drain, fanin, conn, got, ghosts, faults>>

\* External: the connection of a client breaks.
Break(c) ==
    /\ conn[c] # 0 /\ pc[conn[c]] \in Running /\ Broken
    /\ conn' = [conn EXCEPT ![c] = 0]
    /\ UNCHANGED <<hub, subs, queue, pc, who, todo, drain, tasks, fanin, got, ghosts>>

-----------------------------------------------------------------------------
\* The end of the process.

BeginDrain ==
    /\ phase = "serving"
    /\ draining' = TRUE
    /\ queue' = [s \in Streams |-> IF s \in subs THEN CloseAll(queue[s]) ELSE queue[s]]
    /\ pending' = tasks
    /\ phase' = IF tasks = {} THEN "stopping" ELSE "waiting"
    /\ UNCHANGED <<hub, subs, pc, who, todo, tasks, fanin, conn, got, ghosts, faults>>

\* asyncio.wait returns: all streams ended, or the timeout passed and the rest is cancelled.
WaitSseDrain ==
    /\ phase = "waiting"
    /\ LET still == pending \cap tasks
       IN  /\ phase' = IF still = {} THEN "stopping" ELSE "forcing"
           /\ pc' = [s \in Streams |-> IF s \in still /\ pc[s] \in Running THEN "ended" ELSE pc[s]]
    /\ UNCHANGED <<hub, subs, queue, who, todo, draining, pending, tasks, fanin, conn, got, ghosts, faults>>

GatherCancelled ==
    /\ phase = "forcing" /\ pending \cap tasks = {}
    /\ phase' = "stopping"
    /\ UNCHANGED <<hub, subs, queue, pc, who, todo, draining, pending, tasks, fanin, conn, got, ghosts, faults>>

\* The fan-in is cancelled; then the clients of the other services and the pool are closed.
StopFanIn ==
    /\ phase = "stopping"
    /\ fan' = "ended" /\ wire' = <<>>
    /\ phase' = "closed"
    /\ UNCHANGED <<hub, subs, queue, pc, who, todo, draining, pending, tasks, emitted, conn, got, ghosts, faults>>

Next ==
    \/ ConnectPubsub
    \/ FanInReadLoop
    \/ FanInGetMessageFails
    \/ BackoffSleep
    \/ Emit
    \/ \E c \in Clients : Break(c) \/ \E s \in Streams : StreamEvents(c, s)
    \/ \E s \in Streams :
         EventStream(s) \/ EventStreamRefused(s) \/ SendBacklog(s) \/ BacklogSent(s)
           \/ LiveLoop(s) \/ LiveChunk(s) \/ Heartbeat(s) \/ Unsubscribe(s)
    \/ BeginDrain
    \/ WaitSseDrain
    \/ GatherCancelled
    \/ StopFanIn

Spec == Init /\ [][Next]_vars

-----------------------------------------------------------------------------
\* Properties.

\* The events of its organisation a client has not received although it received a later one.
Skipped(c) ==
    {i \in 1 .. LastSeen(c) : all[i].org = OrgOf[c] /\ ~Contains(got[c], i)}

\* A client receives the events of its organisation in the order of their ids, none of
\* them twice, whatever streams it used, and an event it never gets although it got a later
\* one was either taken out of a full queue (_force_sentinel) or had left the ring when the
\* client came back (_backlog_after).  In particular no event falls between the backlog
\* read by subscribe and the queue publish fills.
NoUnexcusedGap ==
    \A c \in Clients :
        /\ \A k \in 1 .. Len(got[c]) :
             /\ all[got[c][k]].org = OrgOf[c]
             /\ k > 1 => got[c][k - 1] < got[c][k]
        /\ \A i \in Skipped(c) : <<c, i>> \in discarded \cup trimmed

\* When _close_runtime closes the auth client and the connection pool, no stream is running
\* and no event is on its way into the hub: a response that was admitted before the drain and
\* starts after it is refused by register_sse, so wait_sse_drain knew every stream.
ClosedIsQuiet ==
    phase \in {"stopping", "closed"} =>
        /\ \A s \in Streams : pc[s] \notin Running
        /\ phase = "closed" => fan = "ended"

\* A lagging client that reconnects with its Last-Event-ID has, in the end, everything the
\* ring still held when it came back (the comment of _disconnect_subscriber).
LaggingLosesNothing == \A c \in Clients : \A i \in Skipped(c) : <<c, i>> \in trimmed
=============================================================================
