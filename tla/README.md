# Paymon for iOS: models and proofs

Paymon is a messenger with a Bitcoin wallet and an Ether wallet. This directory
holds TLA+ models of the parts of the program where the order of things matters,
TLC runs over small instances of them, and TLAPS proofs for each of them. Everything is modelled from the source: the messenger and the
key-value store from `src/paymon`, the Bitcoin library from `src/breadwallet-core`.
The repository has no design documents and its test targets are empty templates;
what the code promises is read from its comments and from what its callers rely on.

## 1. The system

```
 screens, MessageManager, PMFileManager, MediaManager      TransactionManager, BCHSender, BRWalletManager
        |  sendPacket / callbacks / notifications                |                    |
 NetworkManager (Swift): message ids, requestsMap,         peer manager        BRReplicatedKVStore
        |                 handshake, authentication         |   |   |               |  HTTP
 NetworkManager_Wrapper (ObjC++): one connection,          peer peer wallet    key-value server
        |   reassembly, sending queue, retry                |   |
 Connection (GCDAsyncSocket), Queue, PMTimer               Bitcoin network
        |  TCP
 Paymon server
```

The messenger half runs on four serial dispatch queues: `netQueue` (sessions and
packets), the manager's `connectionQueue`, the connection's `connectionQueue`,
and the main queue. `Queue.run` executes in place when it is called on "its own"
queue and enqueues otherwise. State crosses the queues without locks.

The Bitcoin half exists twice. `breadwallet-core` is a C library in which every
connected peer has a thread, and the peer manager and the wallet have a lock
each; `BRPeerManager`, `BRPeer` and `BRWallet` are an Objective-C edition of the
same design by the same authors. The screens use the Objective-C edition and
`BCHSender` uses the C wallet. The models follow the C library: its locks and
threads say exactly what may interleave, and its comments say what is meant.

### Inventory

| Component | State | Operations | What is hard | What makes it correct |
|---|---|---|---|---|
| Packet reassembly, `NetworkManager_Wrapper.onConnectionReceivedData` | `unprocessedData`, `lastPacketLength`, pooled buffers | one chunk in, whole packets out; `reset` | chunks cut anywhere; buffers joined, grown, compacted and given back | the packets handed up are those sent, none held back |
| Buffers, `SerializedBuffer`, `BuffersStorage` | position, limit, capacity; free lists by size | write, compact, limit, reuse | silent refusals, recycled memory | nothing read that was not written |
| Connection lifecycle, `Connection`, `NetworkManager_Wrapper`, `Queue`, `PMTimer` | `_connection`, flags, retry count and timer, socket, queues | start, reconnect, close, timer, connected/closed events | three queues, late events, retry | one socket, no stall, both layers agree |
| Sending, `sendData`, `writeBytes`, `setReadyForRequest` | `transArray`, `transToDeleteArray`, the flag | queue a packet, flush, forget what was written | two arrays shared by three queues | every request once and in order |
| Key-value store, `BRReplicatedKVStore` | rows of a local database, `syncRunning` | set, del, syncAllKeys | answers that come after the row has changed; overlapping syncs; several devices | a marked row equals the server's; convergence |
| Wallet, `BR_Wallet.c` | transactions in order, heights, addresses of two chains, sums | register, confirm, undo, remove, look ahead for addresses, restart | contradicting transactions, reorganisations, a sum kept rather than recomputed, locks let go within a call | the balance is what is unspent |
| Block chain, `BR_PeerManager.c` | stored blocks, last block, orphans, saved blocks | a block relayed, fork, reorganisation, rescan, restart | blocks in any order from several peers; blocks freed to save memory | the longer branch wins, heights follow it |
| Publishing, `BR_PeerManager.c`, `BR_Peer.c` | list of those to be published, callbacks, relays and requests by peer, pongs | publish, ask, relay, time out, connect and disconnect | outcome decided by several peers and timers at once; objects with two owners | one outcome for each callback, and the right one |
| Chain download, `BR_Peer.c` and the filter of `BR_PeerManager.c` | what was asked for, known hashes, block waiting for its transactions, filter | headers, inv, merkleblock, tx, ping and pong, filter update, time out | blocks sent with an old filter; updates that interrupt the download | no payment missed, no honest peer dropped, the download ends |
| Session, `NetworkManager.swift` | `requestsMap`, `futureRequests`, `handshaked`, message ids | sendPacket, handshake, reset, processServerResponse | callbacks dropped by reset; handshake errors | not stated anywhere |
| Sign-in, `AppDelegate`, `User` | `willAuth`, `isAuthenticated` | authByToken, foreground/background, notifications | answers for a dead session | not stated anywhere |
| Keep-alive | a thread, `lastKeepAlive` | every 5 s: send or reconnect | cancelled thread against a new connection | one thread per live connection |
| Message store, `MessageManager` | messages, dialogs, last messages, users, groups | putMessage, updateMessageID, load | temporary ids replaced while lists hold them | indices agree |
| Files, notification centres, media | parts in progress, observer lists, waiting lists | part, answer; post; request, save | lost answers, re-entrancy | |
| PIN, Ether wallet, screens, wire objects, vendored code | – | – | – | – |

The rows from "Session" on are not modelled; section 6 and `PROJECT.json` say why.
`PROJECT.json` also lists the hazards met, those of unmodelled parts included.

## 2. Modules

### SerializedBuffer, PacketFraming, PacketStream

`PacketStream` is the promise: on one connection, the bodies delivered are the
bodies sent, in order. `PacketFraming` is `onConnectionReceivedData`, branch by
branch; the prologue is one of the four `Receive...` actions and each turn of the
while loop is one of `CutHeader`, `InvalidLength`, `CutBody`, `Deliver`,
`LoopEnds`. `netQueue` is serial, so nothing interleaves with a handler.

A byte is represented by its offset in the stream. A buffer that mixes up two
chunks, repeats one or reads stale memory then holds wrong offsets, so the
refinement notices it without any real contents. Memory from the pool holds
`Stale`. After a length the parser refuses (`sync = "lost"`), or a `reset()` in the
middle of a connection, which restarts the cipher (`sync = "garbled"`), headers are
read from misaligned or wrong bytes: `Junk` gives what the parser sees there. The
promise is off until the next connection, but the handler must stay well defined.

The model keeps one slip of the source. After a delivery `unprocessedData` may be
reused while the local `buffer` still points to it, and the loop condition reads
it once more. A buffer larger than every pool class is deleted by `reuse`, so that
is a read of freed memory: `ReadFreed` is a choice between what the freed memory
still says and `pc = "undefined"`.

### ConnectionLifecycle

Every serial queue is a sequence of *frames*: stretches of code between a test and
what relies on it. A call to another queue appends a frame; a call on the own
queue puts frames in front. This is `Queue.run`. The own queue is recognised by
the address of the queue's name, and the manager and the connection use the same
string literal: whether the linker merged the two is chosen at the start
(`sharedKey`). If it did, each of the two queues runs the other's blocks in place,
at the same time as it. Frames are then what interleaves.

`NetworkManager.swift` is present with `isConnected` and the connection it last
reset itself for (`session`). `stop`, `dealloc` and the reachability callback are left
out: nothing in the program calls or registers them.

### SendQueue

`sendData` is the sequence of steps netQueue takes (`purge`, `clear`, `append` twice and
`ready`); the steps of other queues come between them. Requests are numbered in
the order they are made and `wire` is the history of what was written on the present
connection. `link` and `connected` are the little of `ConnectionLifecycle` that the writer
sees. Changing `transArray` while the connection's queue enumerates it raises an
exception; this is the action `RaiseMutation`, after which nothing happens. In the
behaviours with `spaced` a packet is sent, and a connection comes up, only when the queues
are at rest.

### KVReplication

One key, several devices and the server, with every database transaction an action
of its own and every request three actions (ask, serve, take the answer). Values are
write numbers, clocks are readings from a small set. The server is external and is
modelled from the adaptor in `BRAPIClient.swift`: it versions objects, refuses a
request that does not name its version, and answers a `get` with its newest object.
A request that the server has not served when the app gives it up is never served.
A `world`, chosen at the start, says how clocks relate ("skewed": they differ,
"shared": they agree but may stand still, "ticking": they advance with every
reading), whether devices sync one at a time, how many syncs of a device may
overlap, and how many faults happen.

`_syncKey` is called for at most ten keys at a time (a semaphore); since keys do not
influence each other one is enough, and a run with one key is a run below that limit.

### Wallet

A section under `wallet->lock` is an action. `RegisterTransaction` and `RemoveTransaction`
let the lock go in the middle: the first while it generates the addresses after
those it found used (`filling`), the second for each transaction that depends on
the one to be removed (`removing` is the stack of those calls). The peer manager
calls both under its own lock, so they exclude each other; only `AskAddresses`
(the screens want an address) comes in between. `UpdateBalance` is `_BR_WalletUpdateBalance` as a fold over the
list, with `sum` for all it leaves behind. `chain` is what the peers say of the
blocks; `Confirm` adds a block with some of the
transactions, and `Reorganize` takes blocks away.

Timestamps are not kept; among transactions of one height the order of the list is the
order of arrival, which is what the code gives for equal timestamps. A `LockTime`
above all heights stands for a transaction that is too large, replaceable or pays
dust: all of these are pending until confirmed. `ordered` is a history variable: the
list has been in order of height at all times.

### BlockChain

The blocks are names in a tree. `Relay` is the whole of `_peerRelayedBlock` for one
block: verification, extension, a known block, an orphan, a fork, a reorganisation.
After it the thread lets the lock go and takes the orphan that waits for the block
(`hand`), so that two peers' chains of orphans interleave. Freed blocks leave
`blocks`; saved ones are what a restart finds. A walk that ends before it should sets
`lost`, after which the code would dereference a null pointer and the model is not
followed any further. Headers without transactions, the count of false positives,
the search for `lastOrphan` and getblocks messages belong to `ChainDownload` or are
left out.

`index` is the place of each transaction in the wallet's list. The order in which the wallet
came to list them (`Registered`) need not be that of their blocks, and confirming them does
not sort the list; only a restart inserts them by height again (`Sorted`). `Unconfirm` is
`BR_WalletSetTxUnconfirmedAfter`, which goes through the list from its end and stops at the
first transaction that is not above the join. `HeightsFollowChain` says what is left of the
promise: a transaction of the main chain has the height of its block, and any other
has none, unless one behind it in the list has a lower height.

### TxPublishing

One handler of a peer's thread, or one call of the app, is an action, except that
`PublishTx` lets the lock go between its test and its entry in the list (`checked`).
A peer that was asked something is followed by a ping, and what is to happen then
waits in `pongs`, in order; when a connection ends its thread calls what is left with
success = 0. Since a connection may end or time out whenever it is open, timeouts have
no clock, and since a peer may ask for, announce and send any transaction, what it has
been told is not kept. A transaction may exist as two objects: the caller's (`Own`)
and one parsed from a message (`Copy`); `freed` records which are gone. `due` is
the automatic `Connect` of a thread that has just ended; `failures` is
`connectFailureCount` with its twenty scaled down.

`excuse` is a history variable: of a transaction whose callback waits, the reason why nobody may
come to call it, as the code is. There are three. "alone": it was listed when there was no
connection and no attempt at one. "maximum": it was listed, or the user disconnected, with
peers in use but no download peer and the failures at the maximum. "unfound": `Connect` found
no peer. `StillTrying` is about the others; a connection, or a new download peer, ends every excuse.

### ChainDownload

The app, its download peer and the messages between them, in order. `AcceptHeaders`,
`AcceptInv`, `AcceptInvTx`, `AcceptMerkleblock`, `AcceptTx` and `AcceptPong` are the handlers
of `BR_Peer.c`; what they call in the manager is part of them. The manager's state is the
record `app`. The node is honest: it answers what it is asked, sends with a block those
of its payments its filter matches (or that pay to an address the filter holds), and
mines and announces on. A filter update is the four steps of the code, each after the
pong of the one before: the app starts to ignore blocks; it loads the new filter; it
asks again for the blocks it ignored; it asks for those after them.

The branches in which the app takes its node for a bad one (`Misbehaves`) stay in the
model. `AnswersAccepted` says that two of them are not taken: for headers that are too few, and
for a block whose transaction does not follow. The third, for block hashes that are too few, can
be (`HonestKept`, section 3). The boundaries in time (`Switch`, `Key`,
`Ignored`, `Recent`) are heights, because the node's blocks come in order of time.

## 3. Runs

| Run | Instance | Shows |
|---|---|---|
| `framing` | 10 bytes, five kinds of packet, two pool classes, fair queue | `DeliveredIsPrefix`, `NothingWithheld`, `NoParseAfterReuse`, `IndInv`; every step implements `PacketStream` (`ImplementsStream`); `EventuallyDelivered` |
| `lifecycle` | 5 connections; 3 failures or requests, or 2 with merged queue names | `SocketsOK`, `NoStaleData`, `NoStall`, `Agreement`, `EventuallyInSession` |
| `sending` | 3 packets at any moment and one lost connection, or spaced and two | `QueueOK`, `NothingLost`, `ExactlyOnce` |
| `kv_store` | 2 devices, 2 writes; clocks that differ and one fault, or 2 overlapping syncs, or one sync at a time, a clock that moves on and one fault | `RowsOK`, `FetchedIsNewer`, in the last of these worlds `EventuallyConverged` |
| `kv_one_sync` | overlapping syncs | violation of `OneSyncAtATime` |
| `wallet` | 4 transactions that depend on and contradict each other, 2 blocks, one restart | `ListOK`, `BalanceIsUnspent`, `BalanceIsFresh`, `HeightIsMinedInOrder`, `RemovedWithDependents`, `ToldIfValid`, `GapIsOpen` |
| `wallet_reorg` | the same without a restart | violation of `HeightIsMined` |
| `chain` | 11 blocks: two branches, an old fork, a bad block; 4 transactions, listed out of order; 2 peers; one rescan, restart or filter update | `WalksOK`, `BestChain`, `HeightsFollowChain`, `NoHonestRefused`, `OrphansWait` |
| `chain_rescan` | the same | violation of `LastIsStored` |
| `publish` | 2 peers and a new transaction, or a fixed peer and one with an unconfirmed input; 2 connections, one user event | `ObjectsOK`, `ToldOnce`, `FailedIsFinal`, `PublishedInWallet`, `RelaysConnected`, `StillTrying` |
| `download` | 8 or 9 blocks and 2 or 3 more that are mined; batches of 4; 2 lost connections, one degraded filter | `FilterOK`, `NothingMissed`, `AnswersAccepted`, `NoStall`, `Synced` |
| `download_honest` | 12 blocks and one that is mined; batches of 4, three headers messages of two; a payment beyond the filter | violation of `HonestKept` |

`SocketsOK`, `QueueOK`, `RowsOK`, `ListOK`, `WalksOK`, `ObjectsOK` and `FilterOK` each join a
module's type invariant with the invariant that says its state is well formed; in
`PacketFraming` the type invariant is a part of `IndInv`.

The bounds, and why they are enough to be interesting:

* `MaxBytes`: within 10 bytes one chunk can hold the end of a packet, a whole
  one and the start of a third; a header can be cut at each of its bytes; a body
  can be cut twice. The size classes are scaled down (`PacketFramingMC`) so that
  a cut header's buffer is too small for its packet and one packet exceeds every class.
* `MaxConns`, `MaxEvents`, `MaxSharedEvents`: every failure costs at most one connection,
  so there is always one connection more than failures, and the checks for deadlock
  and `NoStall` are not met by running out of connections.
* `MaxSends`, `MaxDowns`, `MaxSpacedDowns`: three packets are what it takes for one flush
  to run while the next packet is added and a third waits behind the flag.
* `MaxWrites`, `maxVer`, `maxFaults`, `Slots`: two writes conflict; a lost answer and a
  restart each cost one fault. `maxVer` bounds the versions from which a sync starts:
  two devices with tied clocks can overwrite each other without end. Because of it
  syncing may stop, so the run does not check deadlock. In the world `EventuallyConverged`
  speaks of it is never reached (20, and a clock of 24 moments): no behaviour of that world stops.
* `Wallet`: a payment with two outputs, two transactions that spend one of them, and a
  fourth that spends the other and the change of the second, to an address the wallet
  has not derived at first, so that it depends on the payment along two paths; two blocks are confirmed, undone and confirmed in another way. Gap limits of one.
* `BlockChain`: a difficulty interval of two, so that transitions, checkpoints and the
  freeing of blocks all occur within five heights; two peers make orphans and
  the interleaving of two threads.
* `TxPublishing`: two peers and two begun connections are what it takes for a peer that
  has the transaction to go while another is asked. `MaxFailures` of one makes every
  failure the last or the one before; chains of dependence are two transactions long.
* `ChainDownload`: `Tops` lie beyond one batch of block hashes and before the third; the
  payments go to addresses 1, 2, 4, 6 and 7 in this order, so that the spare addresses
  run out during the download and again when a block is announced.
* `CHECK_DEADLOCK FALSE`: in the framing and sending runs when all bytes or packets
  are used up, in the Bitcoin runs when the bounds on events are, nothing is left to do.

Fairness. `PacketFraming`: a serial queue runs its blocks, and a connection that
stays up delivers what was sent. `ConnectionLifecycle`: each queue runs its frames,
an armed timer fires, an attempt to connect that does not fail succeeds. All weak:
once enabled, these stay enabled. `KVReplication`: queues and server do their work
(weak); the user opens the wallet again and again, and
`MoneyViewController` starts a sync each time (strong, because the other device
may be syncing whenever this one would). `EventuallyConverged` asks for devices that
sync one at a time and a clock that moves on. With overlapping syncs two devices can
overwrite each other for ever, since the recorded time is that of the device at the
moment of recording, and ties go to the device. `ChainDownload`: the app connects, its
timeout fires, its thread takes the next message, and the node answers what it was
asked (weak); mining, announcing, losing a connection and degrading a filter need not
happen. The other specifications state no fairness: their properties are about safety.

What the Bitcoin models assume of the world:

* `BlockChain`: no fork as long as a difficulty interval, as the code does.
* `ChainDownload`: the node is honest, knows one chain, and always sends a block's
  transactions after it. A block has one payment at most, to an address no further ahead than
  the wallet looks, and none before the key time. The wallet is at least two hours old,
  no two hours pass without a block (a header at the boundary would be ignored and
  its successor never connect), and more than a batch of blocks is mined in a week
  (an honest node that announces fewer hashes than a batch while headers are ignored
  would be taken for a bad one). Known hashes are not trimmed (50000 in the code).

Every property has a mutant in `PROJECT.json`: a definition of the module changed the
way a slip in that code would change it (`Unlocked_Any`: no optimistic lock;
`Exhausted_Always`: the buffer given back too early; and so on), with which TLC
finds the property violated.

### What the runs found

* `kv_one_sync`: the group that `syncAllKeys` waits for ends with the blocks of `_syncKey`,
  and not with the answers they wait for. `syncRunning` is cleared while requests
  are in flight, and a second sync starts. The comment on `syncImmediately` says that
  only one sync can run at a time. `kv_store` shows that the optimistic
  lock of the transactions makes up for it.
* `wallet_reorg`: `BR_WalletSetTxUnconfirmedAfter` scans the list from its end and stops
  at the first transaction low enough, but `BR_WalletUpdateTransactions` sets heights
  without sorting. When transactions confirm in another order than they arrived in,
  a reorganisation leaves one with the height of a block that is gone. `wallet`
  shows that nothing goes wrong as long as the list is in order.
* `chain_rescan`: a block mined during a rescan is verified before the code finds that it is
  ahead of the rescan, and verifying frees the blocks the rescan has come to. The
  next block of the rescan does not find its previous one.
* `download_honest`: a payment that uses up the filter, announced while headers are downloaded,
  makes the app ignore headers until there is a new filter. It goes on asking for headers after the
  newest ones, and then for blocks after the last of them. Its last block stays behind, and with three headers
  messages or more the gap outweighs the hashes it knows. The closing inv message, of fewer hashes than a batch, then
  looks like too few (`BR_Peer.c:347`), though the node has announced every block it was asked for, and the
  connection ends. The app connects again and starts over from its last block: the wallet loses time and a
  node, not a payment (`NothingMissed`). `download` has too few headers messages for it.

And what is no disagreement with a text of the repository, but worth knowing:

* Sending: a flush that runs between two `writeBytes` writes `transArray` once more before
  what was written is taken out, and a connection's queue that enumerates `transArray`
  while netQueue changes it raises. `ExactlyOnce` is stated for spaced packets.
* Connections with merged queue names: `Agreement`, the single socket and
  `EventuallyInSession` no longer hold, and are stated for exclusive queues.
* Wallet: the user is not told of the removal of a valid payment when a transaction that
  contradicts it takes its place (`BR_Wallet.c:792`). With a list out of order, `RemoveTransaction`
  leaves a dependent behind. A pending transaction that is the last of the list
  leaves its inputs among the unspent outputs. A stranger's transaction that pays to an
  address derived later is never listed. After `BR_WalletUpdateTransactions` with
  `TX_UNCONFIRMED` the wallet's block height is that constant. After a restart only the addresses up to the
  gap limits are generated, fewer than the Bloom filter had generated before. A listed transaction that
  pays only to a further one is then no longer recognised: when it confirms before the
  addresses are generated again, `UpdateTransactions` frees it although it is listed, and the balance
  keeps what it no longer counts. With `ExtraGap` one and such a payment, TLC reaches this. The peer
  manager loads the filter (`BR_PeerManager.c:331`, 822, 846) before it takes blocks, which the model
  does not demand, so that in the program only payments beyond the new filter could meet it.
* Block chain: after a restart the chain begins at the last saved block, below transactions
  that keep their heights; if those blocks are replaced meanwhile, nothing repairs
  the heights until the transactions confirm again. The list out of order that `wallet_reorg`
  is about leaves a stale height here as well: without its last disjunct TLC finds
  `HeightsFollowChain` violated on the instance of `chain`, by t3, which confirms after t1 and is
  listed in front of it.
* Publishing: the callback of a published transaction may wait until the user connects again, or
  for ever, in three ways. The test that ends what is being published is for exactly the
  maximum of failures (`BR_PeerManager.c:916`): when the count is there before the last
  peer is lost, because the user disconnects before a download peer is found or because
  the lock was let go in `PublishTx`, the next failure passes it. A transaction may be listed
  after that lock when the last connection has gone. And an automatic `Connect` that
  finds no peer reports that the sync has stopped but calls none of the callbacks
  (`BR_PeerManager.c:1755`). `StillTrying` excepts these by name (`excuse`) and nothing else; with any
  one of the three taken out TLC finds it violated. The automatic `Connect` after a user's
  disconnecting is treated as a manual one. A connection that times out cancels what is being published, as the
  code's own "BUG" comment says. A removal can leave a dangling entry in the list;
  `MayGoOn` ends the model there.
* Download: a block that was announced alone and ignored during a filter update is not asked
  for when it is announced alone again (`BR_Peer.c:353`), so the download waits for the
  sync timeout, which counts against an honest node. An app that is not behind does not
  ask again for a block ignored during an update (`BR_PeerManager.c:440`) until the next one is mined.
  The flag of an update whose filter is already loaded stays set until the next pong. A payment
  that uses up that filter meanwhile (one announced far ahead, with a filter that had degraded)
  resets it (`BR_PeerManager.c:1054`), but no further update begins (496) and the present one makes
  no filter any more, so every block is ignored until the sync timeout. `FilterOK` holds on the
  instance of `download`, where no payment is so far ahead; with the filter's spare addresses set
  to one, payments to addresses 2 and 3 in the ninth and tenth block of eleven, a gap of two, and
  a chain of nine blocks at first, TLC reaches this.

## 4. Proofs

Each proof module has the same plan: the state predicates that make up the
inductive invariant, what the operations on queues and lists do to them, a lemma for each
part with a step per action, `Invariance`, and from it a theorem for each property. TLC has
checked every inductive invariant on the instance of its run before it was proved.

### PacketFramingProofs

First what the buffer operations guarantee: a fresh buffer has room for what it was asked
for, a write that fits copies exactly the remaining bytes and leaves the others alone, moving and
limiting keep a buffer well formed. Then the handler, for every set of packet kinds, every set of size classes with
least elements, every bound and every reading of misaligned bytes:

| Theorem | Statement |
|---|---|
| `Typed` | `Spec => [](TypeOK /\ BytesOK)` |
| `Invariance` | `Spec => []IndInv` |
| `PrefixDelivered` | `Spec => []DeliveredIsPrefix` |
| `NoneWithheld` | `Spec => []NothingWithheld` |
| `NoneParsedAfterReuse` | `Spec => []NoParseAfterReuse` |
| `Refinement` | `Spec => ImplementsStream` |

`DeliveredIsPrefix` is not inductive: it says nothing of the leftover. `IndInv` adds
what `unprocessedData` holds between chunks (`IdleOK`: nothing; or a cut four-byte header
of one to three bytes; or a cut body whose length is `lastPacketLength`) and what
the loop works on (`LoopOK`: the chunk; the joined buffer; one whole packet with the
rest of the chunk behind it; or an exhausted buffer), always tied to the offset
`Consumed` at which the first undelivered packet starts. `StreamOK` says that packets
lie one after the other. Each conjunct is needed: without `Carries` a joined buffer
could hold any bytes; without the equation for `received` a packet could be skipped.
The proof goes by the actions of `Next`, first for types, then for the place in the
stream. `Refinement` maps each `Deliver` to one `Deliver` of `PacketStream` and each other
step of the handler to a stutter.

### ConnectionLifecycleProofs

For any number of connections, failures and requests:

| Theorem | Statement |
|---|---|
| `Invariance` | `Spec => []IInv` |
| `OneSocket` | `Spec => []SocketsOK` |
| `NoLateChunk` | `Spec => []NoStaleData` |
| `NeverAtRest` | `Spec => []NoStall` |
| `OneOpinion` | `Spec => []Agreement` |

`IInv` has four parts, and the first three hold whether or not the linker merged the names
of the queues. `Shape`: each frame is on a queue that may run it, and speaks of a connection
that was made. `Going`: whatever the manager waits for is under way, a start, a retry or the
timer when it has no connection, the opening or the end of the present one otherwise;
`NoStall` alone says only what must not be left when everything has run. `Data`: while a chunk is handed over, no later
connection has come up, and on `netQueue` no later one is announced in front of it; this is
why the test that `NetworkManager_Wrapper` makes on another queue is enough.
`Apart` holds when the two connection queues exclude each other. `Heads`: a test and what
relies on it run in one piece, because their frame is the first of its queue. `SocketHeld` and
`ManagerHeld`: only the present connection has a socket. `NewsOnce`: that a connection came up
is told by one frame at a time. `Told`: what `NetworkManager` will believe once `netQueue` is
empty is what the manager believes, but for one loss that is still to be passed on.
`Agreement` is what `Told` says when nothing is left on the queues.

A frame that ends, goes on as another, calls or posts to another queue does to `Has`, `First`,
`Before` and `Once` what the lemmas `HasAfter`, `FirstAfter`, `BeforeAfter` and `OnceAfter`
say; the steps of the proof use these and never look into a sequence.

### SendQueueProofs

For any number of packets and lost connections:

| Theorem | Statement |
|---|---|
| `Invariance` | `Spec => []IndInv` |
| `HeaderBeforeBody` | `Spec => []QueueOK` |
| `NoneForgotten` | `Spec => []NothingLost` |
| `WrittenOnce` | `Spec => []ExactlyOnce` |

`QueueOK` speaks of what is written and `NothingLost` of a state at rest. Between them `IndInv`
keeps: what the manager's queue holds, which tells where the connection is (`Life`); how many
requests can have been made (`Counted`); that numbers grow along `trans` and along
`netQueue`, with each reset before the requests it is for (`Requested`); that a request made since
the last reset, done or to come, is on its way to `trans`, in it or on the wire
(`Remembered`), written after the one before it (`Ordered`), and that a flush is to come
for it (`Served`). `Spaced` follows a packet step by step when it has the queues for itself.

`Without`, the removal by the loop in `sendData`, is a recursive function; that it drops
the requests of `toDelete` and keeps the order of the others is proved by induction over
the length (`LeastNumber`, `SetInduction`, `WithoutIs`). Induction is stated over sets of
numbers, from the well-foundedness of inclusion on finite sets.

### KVReplicationProofs

For any number of devices and slots, any clock readings and worlds:

| Theorem | Statement |
|---|---|
| `Invariance` | `Spec => []IndInv` |
| `RowsMarked` | `Spec => []RowsOK` |
| `FetchedReplacesOlder` | `Spec => FetchedIsNewer` |

`IndInv` says of each sync what it knows (`Knows`): always, that the object it was told of
is the one the server has under that version; and of the row it has read, what it compared,
*unless the row has become newer since*. This last condition is the optimistic lock of
`_BR_ReplicatedKVStoreSet`, and it is what every step between reading and writing needs. A step of
the app or of another sync keeps it because rows are only replaced by newer ones and the
server forgets nothing (`KnowsKept`). `HistoryOK` says that the server's times do not go back.

### TxPublishingProofs

For any transactions of which none depends on one that depends on another, any peers, settings
and numbers of failures:

| Theorem | Statement |
|---|---|
| `Invariance` | `Spec => []IndInv` |
| `ObjectsHeld` | `Spec => []ObjectsOK` |
| `CalledOnce` | `Spec => []ToldOnce` |
| `FailureIsFinal` | `Spec => []FailedIsFinal` |
| `SuccessIsHeld` | `Spec => []PublishedInWallet` |
| `RelaysInUse` | `Spec => []RelaysConnected` |
| `NotGivenUp` | `Spec => []StillTrying` |

`IndInv` ties together, for each transaction, the entry in the list, the callback owed, the
objects that exist and the peers that were given it (`TxOK`): one whose callback waits is
listed or about to be (`Settled`), one that failed was refused before any peer asked for it
(`Refused`), one that is passed on is in the wallet (`Offered`, `Published`), and no pointer
kept is to an object that was freed (`Held`), but for an entry of the list whose
transaction has been removed, which the code leaves behind: `ObjectsOK` promises nothing about it.
`Trying` follows the connections: a download peer is in use (`DownloadInUse`), and when there is
none and the failures are used up, no transaction waits without an excuse (`NoneHopeful`). `NotGivenUp`
is therefore about the callbacks without one, as `StillTrying` is.

### WalletProofs

For any transactions, gap limits, reorganisations, removals and restarts:

| Theorem | Statement |
|---|---|
| `Invariance` | `Spec => []Inv` |
| `HeightsAreMined` | `Spec => []HeightIsMinedInOrder` |
| `RemovalsLeaveNoDependent` | `Spec => RemovedWithDependents` |
| `GapsAreOpen` | `Spec => GapIsOpen` |
| `KeptAlways` | `MaxReloads = 0 \/ Near` implies `Spec => [](Inv /\ Kept)` |
| `NoneIsFreed` | `MaxReloads = 0 \/ Near` implies `Spec => []ListOK` |
| `BalanceIsWhatIsUnspent` | `MaxReloads = 0 \/ Near` implies `Spec => []BalanceIsUnspent` |
| `BalanceStaysFresh` | `MaxReloads = 0 \/ Near` implies `Spec => []BalanceIsFresh` |

`Near` says that each transaction of the wallet pays to an address before the first gap limit of its
chain, or spends what was paid to one; the transactions of the run `wallet` do. It is needed only when
the app may start again, and section 3 describes a behaviour in which the list holds what was freed
without it.

`HeightIsMinedInOrder` is not inductive. `ChainOK` adds that a block's transactions have its height,
listed or not, and that the chain, wherever it is cut off, spends only what is in it and
nothing twice; else a transaction thrown out could be spent by one that stays. `OrderOK` says what the
history variable is for: a reorganisation stops its scan at the first transaction low enough, and in an
ordered list there is none above it (`After`). `RemovedWithDependents` needs, besides the order, that what
is being removed is unconfirmed (`RemovingOK`), so that the scan for dependents sees all that may spend it.
`GapIsOpen` needs that the external chain keeps its gap while the internal one is filled (`FillingOK`).

The balance is a fold over the list. `Worked` says what holds of an account at any place of the
list: what is spent, pending and invalid is of transactions before it, `balance` is the total of `utxos`
and the difference of received and sent. `Cleared` says more when no transaction is listed twice: each
output that counts and is not spent is there, once. Both are proved by induction along the fold
(`AccountWorks`, `AccountClears`, `UpdateWorks`), so that they hold of whatever `UpdateBalance` returns.
`BalanceIsFresh` then asks for which changes the fold would give the same: `UpdateSame` shows that
confirming transactions that count already changes nothing, provided the chain spends nothing
twice. `Kept` adds what makes this apply: the list is part of `allTx` and holds nothing twice, and each
listed transaction pays to the wallet or spends what a transaction it knows paid to it, so that
`UpdateTransactions` does not take it for one of others. Whatever pays to an address before the
first gap limit is listed once it is known, also when it is in the chain; this is what a restart relies on. That `Without`, `Generated`, the insertion into the
list and the scans find what they look for is proved by induction over numbers or positions
(`WithoutIs`, `GeneratedFacts`, `InsertFacts`, `DependentsFacts`).

### BlockChainProofs

For any tree of blocks, checkpoints, peers, announced heights, rescans and restarts:

| Theorem | Statement |
|---|---|
| `Typed` | `Spec => []TypeOK` |
| `Invariance` | `StartIsHighest` implies `Spec => []IndInv` |
| `LongerChainWins` | `StartIsHighest` implies `Spec => []BestChain` |
| `EarlyBlocksWait` | `StartIsHighest` implies `Spec => []OrphansWait` |

`StartIsHighest` says that the chain begins at the highest checkpoint, as that of a wallet
made after it does. A wallet that is restored begins below, and then a stored
checkpoint may be higher than the last block: a fork that ends right below one would be
stored, and its next block, in the list already, would be taken for known.

`BestChain` alone is not kept by verifying a block, which frees others, nor by a restart, which
loads what was saved. `High` adds that what is stored beyond the checkpoints, and what is
saved, is not below the start: the lines of stored blocks end there (`LineHigh`), because no
checkpoint is right above another (`NoNeighbours`). What verifying a block frees is an interval
below it, while the last block is one below it at most (`FreedIsLow`, `LastStays`). A block whose
previous one is stored is therefore never so far ahead that it has to wait again
(`NonePostponed`), and `OrphansWait` follows. Lines are recursive functions; that their
equation has a solution (`ChainIs`) and what holds along them (`ChainWithin`) is proved by
induction over heights, from the least element of a set of numbers.

### ChainDownloadProofs

For any chain of blocks and payments, any batches, lost connections, and filters that run out
of addresses or degrade:

| Theorem | Statement |
|---|---|
| `Typed` | `Spec => []TypeOK` |
| `Invariance` | `Spec => []IndInv` |
| `NoPaymentMissed` | `Spec => []NothingMissed` |
| `FilterReturns` | `Spec => [](updates = 0 => FilterOK)`, if `Gap <= Spare + 1` |
| `AnswersTaken` | `Spec => []AnswersAccepted` |

`NothingMissed` speaks of the blocks the app has; whether a block may be taken is decided when
the node sends it. `Sound` follows blocks on their way. `Matched`: what comes or waits as an orphan
without its payment pays to no address of the manager's filter, which is the node's, or will be when
all that is asked for is answered. `Flushed`: while an update waits, the blocks asked for before come
before its pong, and nothing is asked for after it; this is what lets the old blocks go by while
there is no filter, and what the order of ping and pong is for. `Ponged`: as many callbacks wait
as pings and pongs are on their way, two at most, and the flag says which. `Paired` and `TxFirst`:
a payment comes right after its block, or, if it was announced and asked for alone, before it.
The wallet looks `Gap` addresses ahead, so that the first block after the last one pays to an
address of the filter or to none, and so on along the orphans (`NextArePaid`).

`FilterReturns` needs a second invariant, `Filtered`, of the same shape, on top of `IndInv`. A payment
may take the filter away; an update begins only if none is under way (`BR_PeerManager.c:496`). So
none may do so after the update's filter was loaded and before the pong that ends the update. `Within`:
no payment on its way, nor what the node looks for, reaches beyond the filter or, while there is none,
beyond the address paid to last and the gap. Hence, when a filter is loaded, all that is on its way
fits it (`Loading`), if it has as many spare addresses as the gap, less one: the code has 100 and a
gap of 20, the instance of `download` one and two. Payments the node sends for the new filter come
after the pong. `updates = 0` says that no filter has degraded yet; a filter that is replaced while it
is still good lets payments reach further than a gap, and the theorem is then false (section 3).

`AnswersTaken` adds `Ahead` to `IndInv`: headers are asked for after blocks older than the key time
only, so that the answer, which is full or reaches the node's last block, reaches the block at which the app
changes to blocks; that a block's transaction follows is `Paired`. It rests on the assumption that
a batch of blocks has been mined since the key time (`PaysAssumption`).

The invariant is a predicate of the state, the messages and the height of the chain, not of the
variables; each function of the manager has a lemma that says it keeps it (`SendingKeeps`,
`LoadKeeps`, `ExtendStores` and so on), and a handler is a composition of these. That a set of
payments has a last address, and what `FlattenSeq` makes of a list of answers, is proved from the
well-foundedness of inclusion on finite sets and of the order of numbers.

### Assumptions

The theorems rest on the assumptions named in the modules, which TLC evaluates on every
run: sizes and bounds are naturals, the header buffer holds three bytes, a non-empty set of
classes has a least one, peers and transactions are finitely many, clocks read positive numbers.
`FilterReturns` and four theorems of `WalletProofs` state one more each, which the instance of the
run satisfies.
The bounds (`MaxConns`, `MaxSends`, `MaxWrites` and so on) are any numbers, so that what is proved
holds for behaviours of every length.

### Only model-checked

* Liveness: `EventuallyDelivered`, `EventuallyInSession`, `EventuallyConverged`, `Synced`. It needs
  `ENABLED`, which the prover does not handle.
* `HeightsFollowChain`, `NoHonestRefused` and `WalksOK` of `BlockChain`. They depend on how far a
  fork may lag behind: a thread that holds an orphan while others relay a whole difficulty
  interval, or a block that forks off right above the start after a restart, would look for
  blocks that are gone. The instance is small enough that this does not happen; in general it
  would take a bound on the delay of a thread, which the code does not give.
* `FilterOK` of `ChainDownload` when a filter has degraded: it does not hold for all constants then
  (section 3). Its `NoStall`, which depends on how the messages of a whole batch add up.
* `ToldIfValid` of `Wallet`. It compares what `IsValid` finds along the ancestors of a transaction that
  has left the sets, recursively, with the invalid transactions before; `AmountSent` adds up a set in an
  order that is not specified. The property relies on which transactions an instance
  lets depend on each other.

## 5. Plan

The parts of the program with a promise to check are modelled; what is left is to
prove more about them: `ToldIfValid` of `Wallet`, with a lemma for what `IsValid` finds among
transactions of which none depends on itself, and `NoStall` of `ChainDownload`, for which the batches under way
would have to be followed from the block asked for to the last one announced.

## 6. Not modelled, and why

* The session (`NetworkManager.swift`: message ids, callbacks, handshake), sign-in, the message
  store and file transfer: no comment or document says what a caller may rely on when
  a connection is lost, callbacks and requests are simply thrown away, and the server is
  not part of the repository. The hazards are listed; there is no invariant that the
  code is meant to keep. Keep-alive is a thread that compares times; the reconnection
  it asks for is an action of `ConnectionLifecycle`.
* The Objective-C `BRWallet`, `BRPeerManager` and `BRPeer`: a second edition of what is
  modelled from C.
* Creating and signing transactions, fees, DNS and the choice of addresses, handshake and
  wire formats of Bitcoin peers; Bloom filters and Merkle trees as data.
* Cryptography (`KeyGenerator.cpp`, the ciphers of the stream) beyond the order it imposes.
* Field-by-field serialization (`RPC.swift`), screens, images and files on disk, notification
  centres, the PIN, the Ether wallet, which calls Geth and a web service, the local web
  server of the Bitcoin code, which the app does not start.
* `syncKey`, reached only with `syncImmediately`, which nothing sets; database errors.
* Vendored libraries (`secp256k1`, `Pods`, `openssl`, `thirdparty`). Most of the repository's
  C and C++ lines are headers of these libraries and word lists, so that the modelled lines
  are a small share of all lines although they are most of the program's own
  concurrent code.
