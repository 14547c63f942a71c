------------------------- MODULE ConnectionLifecycle -------------------------
(***************************************************************************)
(* The life of the TCP connection: Connection.m, the connection half of     *)
(* NetworkManager_Wrapper.mm, the dispatch queues of Queue.m that carry     *)
(* their blocks, and what NetworkManager.swift makes of the two events it   *)
(* is told about.                                                           *)
(*                                                                         *)
(* Each serial queue is a sequence of frames: what is left of the running   *)
(* block in front, the waiting blocks behind.  A call on another queue      *)
(* appends a block there, a call on the own queue runs in place.  Queue.m   *)
(* tells "own" by a key that is the address of the queue's name, and the    *)
(* two connection queues have the same name: sharedKey says whether the     *)
(* linker merged the two literals, so that each queue runs the other's      *)
(* blocks in place, concurrently with it.                                   *)
(*                                                                         *)
(* A frame is a stretch of code between a test and what is done on the      *)
(* strength of it, so that two queues running each other's blocks can come  *)
(* between the two.  stop(), dealloc and the reachability callback are left *)
(* out: nothing in the program calls or registers them.                     *)
(***************************************************************************)
EXTENDS Naturals, Sequences

CONSTANTS
    MaxConns,   \* bound on the Connection objects created
    MaxEvents,  \* bound on failures, reconnect requests and requests to send
    MaxSharedEvents  \* the same, when sharedKey is set

ASSUME BoundsAssumption == MaxConns \in Nat \ {0} /\ {MaxEvents, MaxSharedEvents} \subseteq Nat

VARIABLES
    sharedKey,    \* the two connection queues take each other for themselves:
                  \* decided when the program was linked
    work,         \* the frames of each queue
    conn,         \* _connection: a connection or None
    created,      \* number of connections created
    sock,         \* the socket of each connection
    closed,       \* connections with _closed set
    delegate,     \* connections whose delegate is the manager
    connected,    \* _isConnectionConnected
    retries,      \* _retriesCount, 2 standing for more
    retryTimer,   \* _retryTimer: nil, armed, or with its event enqueued
    isConnected,  \* NetworkManager.isConnected
    session,      \* the connection NetworkManager last reset and shook hands for
    events        \* failures and requests so far

manager == <<conn, created, delegate, connected, retries, retryTimer>>
sockets == <<sock, closed>>
app == <<isConnected, session>>
vars == <<sharedKey, work, manager, sockets, app, events>>

None == 0
Conns == 1 .. MaxConns

\* nm and conn are the connectionQueues of NetworkManager_Wrapper and of
\* Connection, net is netQueue.
Queues == {"nm", "conn", "net"}

ConnFrames ==
    {"open", "close", "shut", "connected", "markConnected", "closed",
     "forget", "didConnect", "didRead", "handOver", "didDisconnect",
     "up", "data"}
PlainFrames ==
    {"retry", "timerFired", "start", "create", "reconnect", "stopCurrent", "notifyDown",
     "request", "down", "askReconnect"}

F(op) == [op |-> op, c |-> None]
FC(op, c) == [op |-> op, c |-> c]
Frames == [op : ConnFrames, c : Conns] \cup [op : PlainFrames, c : {None}]

-----------------------------------------------------------------------------
(* Queue.m                                                                  *)

At(q, op) == work[q] # <<>> /\ Head(work[q]).op = op
Arg(q) == Head(work[q]).c

\* The running frame ends.
Done(q) == [work EXCEPT ![q] = Tail(@)]

\* The frames fs run next on queue q, before what it was about to do.
InPlace(w, q, fs) == [w EXCEPT ![q] = fs \o @]
Async(w, q, f) == [w EXCEPT ![q] = Append(@, f)]

IsOwn(q, target) == q = target \/ (sharedKey /\ {q, target} = {"nm", "conn"})

\* -[Queue run:] on queue target, called from queue q.
Run(w, q, target, f) ==
    IF IsOwn(q, target) THEN InPlace(w, q, <<f>>) ELSE Async(w, target, f)

Init ==
    /\ sharedKey \in BOOLEAN
    /\ work = [q \in Queues |-> IF q = "nm" THEN <<F("start")>> ELSE <<>>]
    /\ conn = None /\ created = 0 /\ delegate = {}
    /\ connected = FALSE /\ retries = 0 /\ retryTimer = "nil"
    /\ sock = [c \in Conns |-> "nil"] /\ closed = {}
    /\ isConnected = FALSE /\ session = None /\ events = 0

-----------------------------------------------------------------------------
(* Connection.m                                                             *)

MaxHappens == IF sharedKey THEN MaxSharedEvents ELSE MaxEvents
Happens == events < MaxHappens /\ events' = events + 1

\* start: the socket is created and begins to connect, or cannot even begin.
Open(q) ==
    /\ At(q, "open")
    /\ LET c == Arg(q)
       IN  IF sock[c] # "nil" THEN
               /\ work' = Done(q)
               /\ UNCHANGED <<sock, events>>
           ELSE
               /\ sock' = [sock EXCEPT ![c] = "connecting"]
               /\ \/ work' = Done(q) /\ UNCHANGED events
                  \/ work' = InPlace(Done(q), q, <<FC("close", c)>>) /\ Happens
    /\ UNCHANGED <<sharedKey, manager, closed, app>>

\* stop and close: nothing on a closed connection.
Close(q) ==
    /\ At(q, "close")
    /\ work' = IF Arg(q) \in closed THEN Done(q)
               ELSE InPlace(Done(q), q, <<FC("shut", Arg(q))>>)
    /\ UNCHANGED <<sharedKey, manager, sockets, app, events>>

\* The rest of close: the socket goes, the manager is told.
Shut(q) ==
    /\ At(q, "shut")
    /\ LET c == Arg(q)
       IN  /\ closed' = closed \cup {c}
           /\ sock' = [sock EXCEPT ![c] = "nil"]
           /\ work' = IF c \in delegate THEN Run(Done(q), q, "nm", FC("closed", c))
                      ELSE Done(q)
    /\ UNCHANGED <<sharedKey, manager, app, events>>

DidConnect(q) ==
    /\ At(q, "didConnect")
    /\ work' = IF Arg(q) \in delegate
               THEN Run(Done(q), q, "nm", FC("connected", Arg(q)))
               ELSE Done(q)
    /\ UNCHANGED <<sharedKey, manager, sockets, app, events>>

DidDisconnect(q) ==
    /\ At(q, "didDisconnect")
    /\ work' = InPlace(Done(q), q, <<FC("close", Arg(q))>>)
    /\ UNCHANGED <<sharedKey, manager, sockets, app, events>>

\* didReadData and the first test of onConnectionReceivedData, made on the
\* connection's queue ...
DidRead(q) ==
    /\ At(q, "didRead")
    /\ LET c == Arg(q)
       IN  work' = IF c \notin closed /\ c \in delegate /\ conn = c
                   THEN InPlace(Done(q), q, <<FC("handOver", c)>>)
                   ELSE Done(q)
    /\ UNCHANGED <<sharedKey, manager, sockets, app, events>>

\* ... and the rest of it, on netQueue.
HandOver(q) ==
    /\ At(q, "handOver")
    /\ work' = Async(Done(q), "net", FC("data", Arg(q)))
    /\ UNCHANGED <<sharedKey, manager, sockets, app, events>>

-----------------------------------------------------------------------------
(* NetworkManager_Wrapper.mm                                                *)

\* onConnectionStateChanged: always through netQueue.
Notify_NoHop(w, up, c) ==
    /\ work' = w
    /\ isConnected' = up
    /\ session' = IF up /\ ~ isConnected THEN c ELSE session
Notify(w, up, c) ==
    /\ work' = Async(w, "net", IF up THEN FC("up", c) ELSE F("down"))
    /\ UNCHANGED <<sharedKey, app>>

StartManager(q) ==
    /\ At(q, "start")
    /\ work' = IF conn = None THEN InPlace(Done(q), q, <<F("create")>>) ELSE Done(q)
    /\ UNCHANGED <<sharedKey, manager, sockets, app, events>>

CreateConnection(q) ==
    /\ At(q, "create")
    /\ created < MaxConns
    /\ created' = created + 1
    /\ conn' = created + 1
    /\ delegate' = delegate \cup {created + 1}
    /\ work' = Run(Done(q), q, "conn", FC("open", created + 1))
    /\ UNCHANGED <<sharedKey, connected, retries, retryTimer, sockets, app, events>>

\* A late event of a connection that is no longer _connection is ignored.
IsCurrent_Unchecked(c) == TRUE
IsCurrent(c) == conn = c

OnConnectionConnected(q) ==
    /\ At(q, "connected")
    /\ work' = IF IsCurrent(Arg(q))
               THEN InPlace(Done(q), q, <<FC("markConnected", Arg(q))>>)
               ELSE Done(q)
    /\ UNCHANGED <<sharedKey, manager, sockets, app, events>>

MarkConnected(q) ==
    /\ At(q, "markConnected")
    /\ connected' = TRUE
    /\ Notify(Done(q), TRUE, Arg(q))
    /\ UNCHANGED <<sharedKey, conn, created, delegate, retries, retryTimer, sockets, events>>

OnConnectionClosed(q) ==
    /\ At(q, "closed")
    /\ work' = IF IsCurrent(Arg(q))
               THEN InPlace(Done(q), q, <<FC("forget", Arg(q))>>)
               ELSE Done(q)
    /\ UNCHANGED <<sharedKey, manager, sockets, app, events>>

Forget_Silent(q) ==
    /\ At(q, "forget")
    /\ delegate' = delegate \ {conn}
    /\ conn' = None
    /\ work' = InPlace(Done(q), q, <<F("retry"), F("notifyDown")>>)
    /\ UNCHANGED <<sharedKey, created, connected, retries, retryTimer, sockets, app, events>>
Forget(q) ==
    /\ At(q, "forget")
    /\ connected' = FALSE
    /\ delegate' = delegate \ {conn}
    /\ conn' = None
    /\ work' = InPlace(Done(q), q, <<F("retry"), F("notifyDown")>>)
    /\ UNCHANGED <<sharedKey, created, retries, retryTimer, sockets, app, events>>

NotifyDown(q) ==
    /\ At(q, "notifyDown")
    /\ Notify(Done(q), FALSE, None)
    /\ UNCHANGED <<sharedKey, manager, sockets, events>>

\* connectionClosed: the first retry is immediate, the others wait.
Rearmed_FirstOnly(n) == IF n = 0 THEN "nil" ELSE retryTimer
Rearmed(n) == IF n = 0 THEN "nil" ELSE "armed"

ConnectionClosed(q) ==
    /\ At(q, "retry")
    /\ retries' = IF retries = 2 THEN 2 ELSE retries + 1
    /\ retryTimer' = Rearmed(retries)
    /\ work' = IF retries = 0 THEN InPlace(Done(q), q, <<F("start")>>) ELSE Done(q)
    /\ UNCHANGED <<sharedKey, conn, created, delegate, connected, sockets, app, events>>

\* timerEvent, unless the timer was stopped after its event was enqueued.
TimerEvent(q) ==
    /\ At(q, "timerFired")
    /\ IF retryTimer = "fired"
       THEN retryTimer' = "nil" /\ work' = InPlace(Done(q), q, <<F("start")>>)
       ELSE work' = Done(q) /\ UNCHANGED retryTimer
    /\ UNCHANGED <<sharedKey, conn, created, delegate, connected, retries, sockets, app, events>>

\* requestConnection, from the block setReadyForRequest enqueues.
RequestConnection(q) ==
    /\ At(q, "request")
    /\ work' = IF conn = None /\ retryTimer = "nil"
               THEN InPlace(Done(q), q, <<F("start")>>)
               ELSE Done(q)
    /\ UNCHANGED <<sharedKey, manager, sockets, app, events>>

\* reconnect, the block on the manager's queue.
Reconnect(q) ==
    /\ At(q, "reconnect")
    /\ connected' = FALSE
    /\ Notify(InPlace(Done(q), q, <<F("stopCurrent")>>), FALSE, None)
    /\ UNCHANGED <<sharedKey, conn, created, delegate, retries, retryTimer, sockets, events>>

StopCurrent_Abandons(q) ==
    /\ At(q, "stopCurrent")
    /\ conn' = None
    /\ work' = InPlace(Done(q), q, <<F("start")>>)
    /\ UNCHANGED <<sharedKey, created, delegate, connected, retries, retryTimer, sockets, app, events>>
StopCurrent(q) ==
    /\ At(q, "stopCurrent")
    /\ work' = IF conn = None THEN Done(q)
               ELSE Run(Done(q), q, "conn", FC("close", conn))
    /\ UNCHANGED <<sharedKey, manager, sockets, app, events>>

-----------------------------------------------------------------------------
(* NetworkManager.swift, on netQueue                                        *)

\* onConnectionStateChanged(true): reset everything and shake hands, unless
\* it believes to be connected already.
StateUp(q) ==
    /\ At(q, "up")
    /\ isConnected' = TRUE
    /\ session' = IF isConnected THEN session ELSE Arg(q)
    /\ work' = Done(q)
    /\ UNCHANGED <<sharedKey, manager, sockets, events>>

StateDown(q) ==
    /\ At(q, "down")
    /\ isConnected' = FALSE
    /\ work' = Done(q)
    /\ UNCHANGED <<sharedKey, manager, sockets, session, events>>

\* The parser takes a chunk (PacketFraming).
Parse(q) ==
    /\ At(q, "data")
    /\ work' = Done(q)
    /\ UNCHANGED <<sharedKey, manager, sockets, app, events>>

AskReconnect(q) ==
    /\ At(q, "askReconnect")
    /\ work' = Run(Done(q), q, "nm", F("reconnect"))
    /\ UNCHANGED <<sharedKey, manager, sockets, app, events>>

-----------------------------------------------------------------------------
(* The rest of the program, the network and the clock.                      *)

\* NetworkManager.reconnect, from the app or from an error answer.
AppReconnect ==
    /\ Happens
    /\ work' = Async(work, "net", F("askReconnect"))
    /\ UNCHANGED <<sharedKey, manager, sockets, app>>

AppSend ==
    /\ Happens
    /\ work' = Async(work, "nm", F("request"))
    /\ UNCHANGED <<sharedKey, manager, sockets, app>>

TimerFires ==
    /\ retryTimer = "armed"
    /\ retryTimer' = "fired"
    /\ work' = Async(work, "nm", F("timerFired"))
    /\ UNCHANGED <<sharedKey, conn, created, delegate, connected, retries, sockets, app, events>>

Establish(c) ==
    /\ sock[c] = "connecting"
    /\ sock' = [sock EXCEPT ![c] = "up"]
    /\ work' = Async(work, "conn", FC("didConnect", c))
    /\ UNCHANGED <<sharedKey, manager, closed, app, events>>

Break(c) ==
    /\ sock[c] \in {"connecting", "up"}
    /\ Happens
    /\ sock' = [sock EXCEPT ![c] = "broken"]
    /\ work' = Async(work, "conn", FC("didDisconnect", c))
    /\ UNCHANGED <<sharedKey, manager, closed, app>>

\* One chunk of each connection at a time is on its way to the parser.
ServerData(c) ==
    /\ sock[c] = "up"
    /\ \A q \in Queues : \A k \in DOMAIN work[q] :
          work[q][k] \notin {FC("didRead", c), FC("handOver", c), FC("data", c)}
    /\ work' = Async(work, "conn", FC("didRead", c))
    /\ UNCHANGED <<sharedKey, manager, sockets, app, events>>

-----------------------------------------------------------------------------
QueueStep(q) ==
    \/ Open(q) \/ Close(q) \/ Shut(q)
    \/ DidConnect(q) \/ DidDisconnect(q) \/ DidRead(q) \/ HandOver(q)
    \/ StartManager(q) \/ CreateConnection(q)
    \/ OnConnectionConnected(q) \/ MarkConnected(q)
    \/ OnConnectionClosed(q) \/ Forget(q) \/ NotifyDown(q)
    \/ ConnectionClosed(q) \/ TimerEvent(q) \/ RequestConnection(q)
    \/ Reconnect(q) \/ StopCurrent(q)
    \/ StateUp(q) \/ StateDown(q) \/ Parse(q) \/ AskReconnect(q)

Next ==
    \/ \E q \in Queues : QueueStep(q)
    \/ AppReconnect \/ AppSend \/ TimerFires
    \/ \E c \in Conns : Establish(c) \/ Break(c) \/ ServerData(c)

Spec == Init /\ [][Next]_vars

\* Queues run their blocks, timers fire, and an attempt to connect that does
\* not fail succeeds.
FairSpec ==
    /\ Spec
    /\ \A q \in Queues : WF_vars(QueueStep(q))
    /\ WF_vars(TimerFires)
    /\ \A c \in Conns : WF_vars(Establish(c))

-----------------------------------------------------------------------------
TypeOK ==
    /\ work \in [Queues -> Seq(Frames)]
    /\ conn \in 0 .. created /\ created \in 0 .. MaxConns
    /\ sock \in [Conns -> {"nil", "connecting", "up", "broken"}]
    /\ closed \subseteq Conns /\ delegate \subseteq Conns
    /\ connected \in BOOLEAN /\ isConnected \in BOOLEAN
    /\ retries \in 0 .. 2 /\ retryTimer \in {"nil", "armed", "fired"}
    /\ session \in 0 .. created /\ events \in 0 .. MaxHappens

\* No chunk of a connection reaches the parser after NetworkManager reset
\* itself and shook hands for a later one: the test onConnectionReceivedData
\* makes before it changes queues is not stale when the chunk is parsed.
NoStaleData == At("net", "data") => session <= Arg("net")

Quiet == \A q \in Queues : work[q] = <<>>

\* There is never nothing going on: when no block is left, a connection is
\* there that is up or still connecting, or the retry timer is armed.
NoStall ==
    Quiet => \/ conn # None /\ sock[conn] \in {"connecting", "up"}
             \/ retryTimer = "armed"

\* With queues that exclude each other, as in the three properties below, the
\* manager and NetworkManager end up believing the same, and the
\* connection they believe in is the one NetworkManager reset itself for.
Agreement ==
    ~ sharedKey /\ Quiet =>
        /\ connected = isConnected
        /\ connected => conn # None /\ session = conn /\ sock[conn] = "up"

\* Two sockets are never open at once.
SingleSocket ==
    ~ sharedKey => \A c, d \in Conns :
        sock[c] # "nil" /\ sock[d] # "nil" => c = d

\* _isConnectionConnected speaks of a connection that did connect, at least
\* until the block that will clear the flag.
ConnectedIsReal ==
    ~ sharedKey /\ connected => conn # None /\ (sock[conn] # "connecting")

\* Together: the flags and the handles of the manager say what is open, which is
\* one socket at most (start and stop, NetworkManager_Wrapper.mm).
SocketsOK == TypeOK /\ SingleSocket /\ ConnectedIsReal

\* After the last failure the app has a session on the current connection,
\* whatever was retried, stopped or requested before.
EventuallyInSession ==
    <>[](sharedKey \/ (isConnected /\ connected /\ conn # None /\ session = conn))
=============================================================================
