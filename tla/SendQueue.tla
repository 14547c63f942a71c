------------------------------ MODULE SendQueue ------------------------------
(***************************************************************************)
(* The sending half of NetworkManager_Wrapper.mm: sendData and writeBytes   *)
(* put the header and the body of a packet into transArray on netQueue,     *)
(* setReadyForRequest lets a block on the manager's queue send a block to   *)
(* the connection's queue, and that block writes all of transArray to the   *)
(* socket.  What was written is remembered in transToDeleteArray and taken  *)
(* out of transArray by the next writeBytes.                                *)
(*                                                                         *)
(* Three serial queues run at once and share the two arrays without a lock. *)
(***************************************************************************)
EXTENDS Naturals, Sequences

CONSTANTS
    MaxSends,       \* bound on the packets the app sends
    MaxDowns,       \* bound on how often the connection is lost
    MaxSpacedDowns  \* the same, when packets are spaced

ASSUME SendBounds == {MaxSends, MaxDowns, MaxSpacedDowns} \subseteq Nat

VARIABLES
    spaced,    \* packets are sent, and connections come up, only while the
               \* queues are at rest: a habit of the app, the same throughout
    trans,     \* transArray, of request numbers
    toDelete,  \* transToDeleteArray
    flag,      \* _needToSendRequestFlag
    link,      \* where _connection is in its life
    connected, \* _isConnectionConnected
    net,       \* the steps netQueue has to take
    nm,        \* the blocks on the manager's queue
    conn,      \* number of blocks on the connection's queue
    index,     \* where the running one is in transArray, 0 when none runs
    mutated,   \* transArray was changed under that block
    crashed,   \* the enumeration raised
    wire,      \* the requests written on this connection (history)
    since,     \* the last request made before the last reset (history)
    made,      \* requests made so far
    sends,     \* packets the app sent so far
    downs      \* connections lost so far

arrays == <<trans, toDelete>>
writer == <<conn, index, mutated, crashed, wire>>
counters == <<made, sends, downs>>
vars == <<spaced, arrays, flag, link, connected, net, nm, writer, since, counters>>

\* _connection is nil, not yet started, connecting, open, or closed and not yet
\* forgotten.
Links == {"nil", "created", "connecting", "open", "closed"}

Requests == 1 .. 2 * (MaxSends + MaxDowns + MaxSpacedDowns)

Step(s, r) == [step |-> s, request |-> r]
NetSteps ==
    [step : {"purge", "clear", "append", "ready", "reset"}, request : {0} \cup Requests]

Init ==
    /\ spaced \in BOOLEAN
    /\ trans = <<>> /\ toDelete = {} /\ flag = FALSE /\ link = "open" /\ connected = TRUE
    /\ net = <<>> /\ nm = <<>> /\ conn = 0 /\ index = 0
    /\ mutated = FALSE /\ crashed = FALSE
    /\ wire = <<>> /\ since = 0 /\ made = 0 /\ sends = 0 /\ downs = 0

DownsBound == IF spaced THEN MaxSpacedDowns ELSE MaxDowns

Quiet == net = <<>> /\ nm = <<>> /\ conn = 0 /\ index = 0

-----------------------------------------------------------------------------
(* netQueue                                                                 *)

WriteBytes(r) == <<Step("purge", 0), Step("clear", 0), Step("append", r)>>

\* sendData: the header, the body, then setReadyForRequest.
SendDataSteps ==
    WriteBytes(made + 1) \o WriteBytes(made + 2) \o <<Step("ready", 0)>>

SendData ==
    /\ ~ crashed
    /\ sends < MaxSends
    /\ spaced => Quiet
    /\ sends' = sends + 1
    /\ made' = made + 2
    /\ net' = net \o SendDataSteps
    /\ UNCHANGED <<spaced, arrays, flag, link, connected, nm, writer, since, downs>>

NetStep(s) ==
    /\ ~ crashed
    /\ net # <<>> /\ Head(net).step = s
    /\ net' = Tail(net)
    /\ UNCHANGED <<spaced, flag, link, connected, conn, index, crashed, wire, counters>>

\* Whoever changes transArray disturbs the block that walks over it.
Disturb == mutated' = (mutated \/ (index # 0 /\ trans' # trans))

Unwritten_All == trans
Unwritten_None == <<>>
Without(s, D) ==
    LET Kept[i \in 0 .. Len(s)] ==
            IF i = 0 THEN <<>>
            ELSE IF s[i] \in D THEN Kept[i - 1] ELSE Append(Kept[i - 1], s[i])
    IN  Kept[Len(s)]
Unwritten == Without(trans, toDelete)

\* The loop of writeBytes over transToDeleteArray, then its clearing: a
\* completion may come in between.
PurgeWritten ==
    /\ NetStep("purge")
    /\ trans' = Unwritten
    /\ Disturb
    /\ UNCHANGED <<toDelete, nm, since>>

ClearWritten ==
    /\ NetStep("clear")
    /\ toDelete' = {}
    /\ UNCHANGED <<trans, nm, mutated, since>>

AddRequest_InFront ==
    /\ NetStep("append")
    /\ trans' = <<Head(net).request>> \o trans
    /\ Disturb
    /\ UNCHANGED <<toDelete, nm, since>>
AddRequest ==
    /\ NetStep("append")
    /\ trans' = Append(trans, Head(net).request)
    /\ Disturb
    /\ UNCHANGED <<toDelete, nm, since>>

SetReadyForRequest ==
    /\ NetStep("ready")
    /\ nm' = Append(nm, "ready")
    /\ UNCHANGED <<spaced, arrays, mutated, since>>

\* reset: what was to be sent on the old connection is dropped.
Reset ==
    /\ NetStep("reset")
    /\ trans' = <<>>
    /\ toDelete' = {}
    /\ since' = Head(net).request
    /\ Disturb
    /\ UNCHANGED nm

-----------------------------------------------------------------------------
(* The manager's queue                                                      *)

\* The outer block of setReadyForRequest: at most one inner block waits.
Ready ==
    /\ ~ crashed
    /\ nm # <<>> /\ Head(nm) = "ready"
    /\ nm' = IF flag THEN Tail(nm) ELSE Append(Tail(nm), "flush")
    /\ flag' = TRUE
    /\ UNCHANGED <<spaced, arrays, link, connected, net, writer, since, counters>>

\* The inner block clears the flag before it looks at anything; without a
\* connection it asks for one (ConnectionLifecycle), with one that is up it
\* goes on to write.
Flush ==
    /\ ~ crashed
    /\ nm # <<>> /\ Head(nm) = "flush"
    /\ nm' = Tail(nm)
    /\ flag' = FALSE
    /\ conn' = IF link # "nil" /\ connected THEN conn + 1 ELSE conn
    /\ UNCHANGED <<spaced, arrays, link, connected, net, index, mutated, crashed, wire, since, counters>>

-----------------------------------------------------------------------------
(* The connection's queue                                                   *)

BeginWriting ==
    /\ ~ crashed
    /\ conn > 0 /\ index = 0
    /\ conn' = conn - 1
    /\ index' = 1
    /\ mutated' = FALSE
    /\ UNCHANGED <<spaced, arrays, flag, link, connected, net, nm, crashed, wire, since, counters>>

\* One request is written and its completion called, unless there is no
\* connection; a socket that is gone or not yet there only logs an error.  Fast
\* enumeration compares the array's mutation count before each element.
WriteRequest ==
    /\ ~ crashed
    /\ index \in 1 .. Len(trans) /\ ~ mutated
    /\ toDelete' = IF link = "nil" THEN toDelete ELSE toDelete \cup {trans[index]}
    /\ wire' = IF link = "open" THEN Append(wire, trans[index]) ELSE wire
    /\ index' = index + 1
    /\ UNCHANGED <<spaced, trans, flag, link, connected, net, nm, conn, mutated, crashed, since, counters>>

EndWriting ==
    /\ ~ crashed
    /\ index > Len(trans)
    /\ index' = 0
    /\ UNCHANGED <<spaced, arrays, flag, link, connected, net, nm, conn, mutated, crashed, wire, since, counters>>

\* The array changed under the enumeration, which raises when it notices: at
\* the next element, or perhaps at the end.
RaiseMutation ==
    /\ ~ crashed
    /\ index # 0 /\ mutated
    /\ crashed' = TRUE
    /\ UNCHANGED <<spaced, arrays, flag, link, connected, net, nm, conn, index, mutated, wire, since, counters>>

-----------------------------------------------------------------------------
(* The connection, of which this part only sees that much; the rest is in    *)
(* ConnectionLifecycle.                                                     *)

Untouched == UNCHANGED <<spaced, arrays, flag, conn, index, mutated, crashed, since, sends>>

\* The block that runs on the manager's queue.
ManagerBlock(b) ==
    /\ ~ crashed
    /\ nm # <<>> /\ Head(nm) = b
    /\ nm' = Tail(nm)

\* reconnect: the flag is cleared while the socket is still there, which goes
\* later with ConnectionCloses.
ConnectionStopping ==
    /\ ~ crashed
    /\ connected /\ connected' = FALSE /\ downs < DownsBound
    /\ Untouched /\ UNCHANGED <<link, net, nm, wire, made, downs>>

\* close, on the connection's queue.
ConnectionCloses ==
    /\ ~ crashed
    /\ index = 0 /\ downs < DownsBound
    /\ downs' = downs + 1
    /\ link \in {"connecting", "open"} /\ link' = "closed"
    /\ nm' = Append(nm, "closed")
    /\ Untouched /\ UNCHANGED <<connected, net, wire, made>>

\* onConnectionClosed.
ConnectionForgotten ==
    /\ ManagerBlock("closed")
    /\ link' = "nil" /\ connected' = FALSE
    /\ Untouched /\ UNCHANGED <<net, wire, made, downs>>

\* start, when the retry timer fires.
ConnectionCreated ==
    /\ ~ crashed
    /\ link = "nil" /\ link' = "created"
    /\ Untouched /\ UNCHANGED <<connected, net, nm, wire, made, downs>>

\* Connection's start, behind the blocks its queue already had.
ConnectionOpening ==
    /\ ~ crashed
    /\ conn = 0 /\ index = 0
    /\ link = "created" /\ link' = "connecting"
    /\ wire' = <<>>
    /\ Untouched /\ UNCHANGED <<connected, net, nm, made, downs>>

DidConnect ==
    /\ ~ crashed
    /\ spaced => Quiet
    /\ link = "connecting" /\ link' = "open"
    /\ nm' = Append(nm, "connected")
    /\ Untouched /\ UNCHANGED <<connected, net, wire, made, downs>>

\* onConnectionConnected, which does not see whether the connection has been
\* closed since; onConnectionStateChanged(true) on netQueue will reset and send
\* the first packet of the handshake.
ConnectionUp ==
    /\ ManagerBlock("connected")
    /\ connected' = TRUE
    /\ made' = made + 2
    /\ net' = net \o <<Step("reset", made)>> \o SendDataSteps
    /\ Untouched /\ UNCHANGED <<link, wire, downs>>

-----------------------------------------------------------------------------
Next ==
    \/ SendData
    \/ ConnectionStopping \/ ConnectionCloses \/ ConnectionForgotten
    \/ ConnectionCreated \/ ConnectionOpening \/ DidConnect \/ ConnectionUp
    \/ PurgeWritten \/ ClearWritten \/ AddRequest \/ SetReadyForRequest \/ Reset
    \/ Ready \/ Flush
    \/ BeginWriting \/ WriteRequest \/ EndWriting \/ RaiseMutation

Spec == Init /\ [][Next]_vars

-----------------------------------------------------------------------------
\* The types, and that _needToSendRequestFlag says whether the inner block of
\* setReadyForRequest waits.
TypeOK ==
    /\ trans \in Seq(Requests) /\ toDelete \subseteq Requests
    /\ flag = \E i \in DOMAIN nm : nm[i] = "flush"
    /\ link \in Links /\ connected \in BOOLEAN
    /\ net \in Seq(NetSteps) /\ nm \in Seq({"ready", "flush", "closed", "connected"})
    /\ conn \in Nat /\ index \in Nat
    /\ mutated \in BOOLEAN /\ crashed \in BOOLEAN
    /\ wire \in Seq(Requests) /\ since \in {0} \cup Requests
    /\ made \in {0} \cup Requests /\ sends \in 0 .. MaxSends /\ downs \in 0 .. DownsBound

\* However the three queues interleave, once they are at rest with the
\* connection up every request made since its reset has been written: none is
\* forgotten in transArray by a flag set too long, none is taken out unsent.
NothingLost ==
    (Quiet /\ ~ crashed /\ connected) =>
        \A r \in since + 1 .. made : \E k \in DOMAIN wire : wire[k] = r

\* The first time a request is written, all earlier ones of its session are
\* already written: a body never goes before its header or another packet.
FirstInOrder ==
    (connected /\ \A i \in DOMAIN net : net[i].step # "reset") =>
        \A k \in DOMAIN wire :
            wire[k] > since + 1 => \E j \in 1 .. k - 1 : wire[j] = wire[k] - 1

\* Together: the flag says whether a flush is to come, and first writes keep the
\* order in which the requests were made (sendData, setReadyForRequest).
QueueOK == TypeOK /\ FirstInOrder

\* When each packet waits for the queues to be at rest (spaced), everything made since
\* the reset is written once, in order, and nothing else, although connections
\* break at any moment: the cipher stream stays in step with the server's.
ExactlyOnce ==
    (spaced /\ Quiet /\ connected) => wire = [k \in 1 .. made - since |-> since + k]
=============================================================================
