---------------------------- MODULE Subscriptions ----------------------------
(***************************************************************************)
(* The market data subscriptions: BrokerSpot's table of who wants which    *)
(* stream, and WebSocketManager's reference counts, public socket and      *)
(* replay after a reconnect.  A stream is a channel and a symbol           *)
(* (ticker/ohlc).                                                          *)
(*                                                                         *)
(* subscribe and unsubscribe only schedule tasks; each task changes the    *)
(* count and sends its frame in one step of the event loop.  The replay    *)
(* awaits every send, so tasks run between its frames.                     *)
(***************************************************************************)
EXTENDS Integers, Sequences, FiniteSets

CONSTANTS
    Systems,   \* system ids
    Infos,     \* subscriptions: a stream, and the queue its messages go to
    MaxTasks,  \* bound: adjustments of one stream scheduled when another may be
    MaxDrops   \* bound: connections lost

ASSUME InfosAssumption == IsFiniteSet(Infos)
ASSUME BoundAssumption == MaxTasks \in Nat /\ MaxDrops \in Nat

VARIABLES
    subs,      \* BrokerSpot.subscriptions, without the USER ones
    manager,   \* _ws_manager is created
    tasks,     \* scheduled _adjust_subscription deltas of each stream, in order
    registry,  \* _ticker_subscribers and _kline_subscribers, absent = 0
    ws,        \* _public_ws is set
    alive,     \* the connection behind it works
    replay,    \* what _resubscribe_public_channels has still to send
    served,    \* the streams the server sends on this connection
    stopped,   \* stop() was called
    early,     \* history: a subscription was made before the manager existed
    drops      \* history: connections lost so far

vars == <<subs, manager, tasks, registry, ws, alive, replay, served, stopped,
          early, drops>>

Streams == {info.stream : info \in Infos}

Init ==
    /\ subs = [i \in Systems |-> {}]
    /\ manager = FALSE
    /\ tasks = [s \in Streams |-> <<>>]
    /\ registry = [s \in Streams |-> 0]
    /\ ws = FALSE /\ alive = FALSE
    /\ replay = {} /\ served = {}
    /\ stopped = FALSE /\ early = FALSE /\ drops = 0

-----------------------------------------------------------------------------
(* BrokerSpot *)

\* The manager is created by run(); until then signals are dropped.
CreateManager ==
    /\ ~ manager
    /\ manager' = TRUE
    /\ UNCHANGED <<subs, tasks, registry, ws, alive, replay, served, stopped,
                   early, drops>>

subscribe(i, info) ==
    /\ info \notin subs[i]
    /\ Len(tasks[info.stream]) < MaxTasks
    /\ subs' = [subs EXCEPT ![i] = @ \cup {info}]
    /\ IF manager
       THEN tasks' = [tasks EXCEPT ![info.stream] = Append(@, 1)] /\ UNCHANGED early
       ELSE early' = TRUE /\ UNCHANGED tasks
    /\ UNCHANGED <<manager, registry, ws, alive, replay, served, stopped, drops>>

\* One release for each stream, not for each subscription.
BugReleases(i, s) == IF \E info \in subs[i] : info.stream = s THEN <<-1>> ELSE <<>>
\* One release for each subscription of the system to the stream.
Releases(i, s) ==
    [k \in 1 .. Cardinality({info \in subs[i] : info.stream = s}) |-> -1]
unsubscribe(i) ==
    /\ \A s \in Streams : Len(tasks[s]) < MaxTasks
    /\ subs' = [subs EXCEPT ![i] = {}]
    /\ tasks' = IF manager THEN [s \in Streams |-> tasks[s] \o Releases(i, s)] ELSE tasks
    /\ UNCHANGED <<manager, registry, ws, alive, replay, served, stopped, early, drops>>

-----------------------------------------------------------------------------
(* WebSocketManager *)

\* The count may fall below zero.
BugAdjusted(s) == registry[s] + Head(tasks[s])
Adjusted(s) ==
    LET current == registry[s] + Head(tasks[s]) IN IF current > 0 THEN current ELSE 0

\* A frame sent while disconnected, or on a dead connection, is lost.
Deliver(streams) == served' = IF ws /\ alive THEN streams ELSE served
\* A frame only where the count becomes or leaves 0.
adjust_subscription(s) ==
    /\ tasks[s] # <<>>
    /\ tasks' = [tasks EXCEPT ![s] = Tail(@)]
    /\ registry' = [registry EXCEPT ![s] = Adjusted(s)]
    /\ CASE registry[s] = 0 /\ registry'[s] > 0 -> Deliver(served \cup {s})
         [] registry[s] > 0 /\ registry'[s] = 0 -> Deliver(served \ {s})
         [] OTHER -> UNCHANGED served
    /\ UNCHANGED <<subs, manager, ws, alive, replay, stopped, early, drops>>

\* Nothing is replayed.
BugActive == {}
Active == {s \in Streams : registry[s] > 0}

Connect ==
    /\ manager /\ ~ ws /\ ~ stopped
    /\ ws' = TRUE /\ alive' = TRUE
    /\ served' = {}
    /\ replay' = Active
    /\ UNCHANGED <<subs, manager, tasks, registry, stopped, early, drops>>

\* The replay ends with the first stream.
BugReplay(s) ==
    /\ ws /\ s \in replay
    /\ replay' = {}
    /\ Deliver(served \cup {s})
    /\ UNCHANGED <<subs, manager, tasks, registry, ws, alive, stopped, early, drops>>
Replay(s) ==
    /\ ws /\ s \in replay
    /\ replay' = replay \ {s}
    /\ Deliver(served \cup {s})
    /\ UNCHANGED <<subs, manager, tasks, registry, ws, alive, stopped, early, drops>>

\* The connection breaks, or is closed for its silence: without a subscription
\* there are no heartbeats.
Break ==
    /\ alive
    /\ \/ drops < MaxDrops /\ drops' = drops + 1
       \/ served = {} /\ replay = {} /\ UNCHANGED drops
    /\ alive' = FALSE /\ served' = {}
    /\ UNCHANGED <<subs, manager, tasks, registry, ws, replay, stopped, early>>

\* The receive loop notices and leaves the connection.
Disconnect ==
    /\ ws /\ ~ alive /\ replay = {}
    /\ ws' = FALSE
    /\ UNCHANGED <<subs, manager, tasks, registry, alive, replay, served, stopped,
                   early, drops>>

Stop ==
    /\ manager /\ ~ stopped
    /\ stopped' = TRUE
    /\ ws' = FALSE /\ alive' = FALSE
    /\ served' = {} /\ replay' = {}
    /\ UNCHANGED <<subs, manager, tasks, registry, early, drops>>

-----------------------------------------------------------------------------
Next ==
    \/ \E i \in Systems : unsubscribe(i) \/ \E info \in Infos : subscribe(i, info)
    \/ \E s \in Streams : adjust_subscription(s) \/ Replay(s)
    \/ CreateManager \/ Connect \/ Break \/ Disconnect \/ Stop

Spec == Init /\ [][Next]_vars

\* The event loop runs scheduled tasks, the replay and the receive loop, and a
\* reconnect attempt eventually succeeds.
FairSpec ==
    /\ Spec
    /\ WF_vars(CreateManager) /\ WF_vars(Connect) /\ WF_vars(Disconnect)
    /\ \A s \in Streams : WF_vars(adjust_subscription(s)) /\ WF_vars(Replay(s))

-----------------------------------------------------------------------------
(* Properties *)

\* Every variable stays in its type: in particular no count falls below zero,
\* also when a system releases what it subscribed before the manager existed.
TypeOK ==
    /\ subs \in [Systems -> SUBSET Infos]
    /\ tasks \in [Streams -> Seq({1, -1})]
    /\ registry \in [Streams -> Nat]
    /\ replay \subseteq Streams /\ served \subseteq Streams
    /\ {manager, ws, alive, stopped, early} \subseteq BOOLEAN
    /\ drops \in 0 .. MaxDrops

Wanted(s) == \E i \in Systems : \E info \in subs[i] : info.stream = s
Subscriptions(s) ==
    {p \in Systems \X Infos : p[2] \in subs[p[1]] /\ p[2].stream = s}
Scheduled(s, delta) == Cardinality({k \in DOMAIN tasks[s] : tasks[s][k] = delta})

\* Once its scheduled tasks have run, the count of a stream is the number of
\* subscriptions to it: whatever subscribes and unsubscribes meanwhile, no
\* subscriber is counted twice or forgotten.
RegistryCounts ==
    ~ early => \A s \in Streams :
        registry[s] + Scheduled(s, 1) - Scheduled(s, -1) = Cardinality(Subscriptions(s))

\* A counted stream is on the wire of a working connection, or will be when the
\* replay reaches it, wherever tasks, replay and reconnects interleave.
ActiveIsServed ==
    ws /\ alive => \A s \in Streams : registry[s] > 0 => s \in served \cup replay

\* "Subscribe a strategy to user or price feeds" (broker/spot.py:124): when the
\* tasks have run and the replay is over, every subscribed stream is served.
SubscribedIsServed ==
    manager /\ ws /\ alive /\ replay = {} =>
        \A s \in Streams : Wanted(s) /\ tasks[s] = <<>> => s \in served

\* A stream somebody wants is eventually served, or no longer wanted, through
\* lost connections and lost frames.
WantedIsEventuallyServed ==
    \A s \in Streams : Wanted(s) /\ ~ early ~> s \in served \/ ~ Wanted(s) \/ stopped
=============================================================================
