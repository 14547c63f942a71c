---------------------------- MODULE KVReplication ----------------------------
(***************************************************************************)
(* BRReplicatedKVStore.swift: the wallet's key-value store, kept in a local *)
(* database on each device and replicated through a server by syncAllKeys.  *)
(*                                                                         *)
(* A sync asks for the server's keys, then runs _syncKey for each key on a  *)
(* concurrent queue.  _syncKey compares and may send one request; what its  *)
(* answer brings is written later, on the main queue.  Every access to the  *)
(* database is a transaction of its own.  Keys do not influence each other: *)
(* the module follows one key, on several devices.                          *)
(*                                                                         *)
(* Only the newest version of the key is kept here: nothing in the program  *)
(* reads an older one.  A value is the number of the write that made it.    *)
(***************************************************************************)
EXTENDS Naturals, Sequences

CONSTANTS
    Devices,    \* the devices that share the wallet
    Times,      \* the readings of their clocks
    Worlds,     \* what the devices may find themselves in, see World
    Slots,      \* the names of the syncs of a device that overlap
    MaxWrites   \* bound on the writes and removals the apps make

\* How the clocks of the devices compare ("skewed": they differ, "shared": they
\* agree and may stand still between two readings, "ticking": they never stand
\* still), whether one device syncs at a time, and bounds: on the syncs of a
\* device that overlap, on the readings of the clocks, on the local versions a
\* sync starts from, on lost answers and restarts.
World == [clocks : {"skewed", "shared", "ticking"}, solo : BOOLEAN,
          slots : SUBSET Slots, times : SUBSET Times, maxVer : Nat, maxFaults : Nat]

ASSUME TimesAssumption == Times \subseteq Nat \ {0} /\ Times # {}
ASSUME SlotsAssumption == Slots \subseteq Nat \ {0} /\ Slots # {}
ASSUME KVAssumption == Worlds \subseteq World /\ MaxWrites \in Nat

VARIABLES
    world,    \* the one that is the case, from the start
    row,      \* the newest row of the key in each device's kvstore table
    running,  \* syncRunning: the sync that set it, or 0
    op,       \* what each sync of a device is at
    hist,     \* the server's versions of the key
    clock,    \* the last reading of the clocks, when they agree
    writes,   \* writes of the apps so far
    faults    \* lost answers and restarts so far

vars == <<world, row, running, op, hist, clock, writes, faults>>

\* An object of the server, and what it says of a key it does not have.
Object == [val : Nat, del : BOOLEAN, time : Nat]
NoObject == [val |-> 0, del |-> FALSE, time |-> 0]

NoRow == [ver |-> 0, rv |-> 0, time |-> 0, del |-> FALSE, val |-> 0]

\* A sync: the step it is at, whether it still runs in the block the group
\* waits for, the remote version and object it goes by, the local version it
\* read, the remote version recorded with it and the value it sends, what it
\* asked the server for and the error in the answer.
Steps == {"idle", "keys", "list", "start", "compare", "remove", "record",
          "put", "del", "get", "answer", "apply"}
Idle == [step |-> "idle", block |-> FALSE, ver |-> 0, object |-> NoObject, lv |-> 0,
         recorded |-> 0, val |-> 0, req |-> "none", err |-> "none"]

Init ==
    /\ world \in Worlds
    /\ row = [d \in Devices |-> NoRow]
    /\ running = [d \in Devices |-> 0]
    /\ op = [d \in Devices |-> [s \in Slots |-> Idle]]
    /\ hist = <<>>
    /\ clock = 0 /\ writes = 0 /\ faults = 0

\* Date() on a device.
Reading(t) ==
    /\ t \in world.times
    /\ CASE world.clocks = "skewed"  -> clock' = clock
         [] world.clocks = "shared"  -> t >= clock /\ clock' = t
         [] world.clocks = "ticking" -> t = clock + 1 /\ clock' = t

-----------------------------------------------------------------------------
(* The transactions on the local database                                   *)

\* _set, _del and setRemoteVersion each insert a row after the newest one; a
\* set or a removal has no remote version yet.
SetRow(d, v, t) ==
    row' = [row EXCEPT ![d] =
        [ver |-> @.ver + 1, rv |-> 0, time |-> t, del |-> FALSE, val |-> v]]
DelRow(d, t) ==
    row' = [row EXCEPT ![d] =
        [ver |-> @.ver + 1, rv |-> 0, time |-> t, del |-> TRUE, val |-> @.val]]
SetRemoteVersion(d, rv, t) ==
    row' = [row EXCEPT ![d] =
        [ver |-> @.ver + 1, rv |-> rv, time |-> t, del |-> @.del, val |-> @.val]]

\* The optimistic lock: the caller must name the newest version, which is 0
\* only when the key is created.
Unlocked_Any(d, lv) == TRUE
Unlocked(d, lv) == row[d].ver = lv

\* The app writes or removes the key; with an older version in its hands it
\* gets an error and nothing changes.
AppSet(d) ==
    /\ writes < MaxWrites
    /\ writes' = writes + 1
    /\ \E t \in Times : Reading(t) /\ SetRow(d, writes + 1, t)
    /\ UNCHANGED <<world, running, op, hist, faults>>

AppDel(d) ==
    /\ writes < MaxWrites
    /\ row[d].ver > 0
    /\ writes' = writes + 1
    /\ \E t \in Times : Reading(t) /\ DelRow(d, t)
    /\ UNCHANGED <<world, running, op, hist, faults>>

-----------------------------------------------------------------------------
(* syncAllKeys                                                              *)

Become(d, s, o) == op' = [op EXCEPT ![d][s] = o]
At(d, s, step) == op[d][s].step = step

Alone(d) == \A e \in Devices \ {d}, s \in Slots : op[e][s] = Idle

\* A sync that finds syncRunning set returns an error at once.
SyncAllKeys(d, s) ==
    /\ world.solo => Alone(d)
    /\ running[d] = 0 /\ row[d].ver <= world.maxVer
    /\ At(d, s, "idle") /\ s \in world.slots /\ \A r \in world.slots : r < s => ~ At(d, r, "idle")
    /\ running' = [running EXCEPT ![d] = s]
    /\ Become(d, s, [Idle EXCEPT !.step = "keys", !.block = TRUE])
    /\ UNCHANGED <<world, row, hist, clock, writes, faults>>

\* The server lists its keys, removed ones too; the list arrives later.
ListKeys(d, s) ==
    /\ At(d, s, "keys")
    /\ Become(d, s, [op[d][s] EXCEPT !.step = "list", !.ver = Len(hist),
                     !.object = IF hist = <<>> THEN NoObject ELSE hist[Len(hist)]])
    /\ UNCHANGED <<world, row, running, hist, clock, writes, faults>>

\* No list: syncRunning is cleared and the sync has failed.
ListFails(d, s) ==
    /\ At(d, s, "keys")
    /\ faults < world.maxFaults /\ faults' = faults + 1
    /\ running' = [running EXCEPT ![d] = 0]
    /\ Become(d, s, Idle)
    /\ UNCHANGED <<world, row, hist, clock, writes>>

\* The completion of keys: the key is synced if either side has it.
TakeList(d, s) ==
    /\ At(d, s, "list")
    /\ Become(d, s, IF op[d][s].ver = 0 /\ row[d].ver = 0 THEN Idle
                    ELSE [op[d][s] EXCEPT !.step = "start"])
    /\ UNCHANGED <<world, row, running, hist, clock, writes, faults>>

\* The group waits for the block of _syncKey, not for the answer to the request
\* the block has sent.
InBlock(d, s) == op[d][s].block
EndSync(d) ==
    /\ running[d] # 0
    /\ ~ InBlock(d, running[d])
    /\ running' = [running EXCEPT ![d] = 0]
    /\ UNCHANGED <<world, row, op, hist, clock, writes, faults>>

-----------------------------------------------------------------------------
(* _syncKey                                                                 *)

\* The remote version recorded with the newest row is the server's: nothing to
\* do.
CompareVersions(d, s) ==
    /\ At(d, s, "start")
    /\ LET o == op[d][s]
       IN  Become(d, s, IF o.ver > 0 /\ row[d].rv = o.ver THEN Idle
                        ELSE [o EXCEPT !.step = "compare", !.recorded = row[d].rv])
    /\ UNCHANGED <<world, row, running, hist, clock, writes, faults>>

\* The local row is newer, or as old.
LocalWins_NotTies(lt, rt) == lt > rt
LocalWins(lt, rt) == lt >= rt

\* The request leaves, and the block ends.
Ask(req, v, r) ==
    [Idle EXCEPT !.step = req, !.req = req, !.ver = v, !.lv = r.ver,
                 !.val = IF req = "put" THEN r.val ELSE 0]
Then(step, block, v, lv) ==
    [Idle EXCEPT !.step = step, !.block = block, !.ver = v, !.lv = lv]

\* What the newest row, read again, and the listed object call for.
Compared(o, r) ==
    IF r.del /\ o.object.del THEN Then("record", TRUE, o.ver, r.ver)
    ELSE IF LocalWins(r.time, o.object.time)
         THEN IF r.del THEN Ask("del", o.ver, r)
              ELSE Ask("put", IF o.ver = 0 \/ o.ver < o.recorded THEN 1 ELSE o.ver, r)
    ELSE IF ~ o.object.del THEN Ask("get", o.ver, r)
    ELSE IF r.ver = 0 THEN Idle
    ELSE Then("remove", TRUE, o.ver, r.ver)

CompareTimes(d, s) ==
    /\ At(d, s, "compare")
    /\ Become(d, s, Compared(op[d][s], row[d]))
    /\ UNCHANGED <<world, row, running, hist, clock, writes, faults>>

\* The server's removal is newer.
RemoveLocally(d, s) ==
    /\ At(d, s, "remove")
    /\ LET o == op[d][s]
       IN  IF Unlocked(d, o.lv)
           THEN /\ \E t \in Times : Reading(t) /\ DelRow(d, t)
                /\ Become(d, s, Then("record", TRUE, o.ver, o.lv + 1))
           ELSE Become(d, s, Idle) /\ UNCHANGED <<world, row, clock>>
    /\ UNCHANGED <<world, running, hist, writes, faults>>

\* The last transaction of every way through _syncKey.
Record(d, s) ==
    /\ At(d, s, "record")
    /\ LET o == op[d][s]
       IN  IF Unlocked(d, o.lv)
           THEN \E t \in Times : Reading(t) /\ SetRemoteVersion(d, o.ver, t)
           ELSE UNCHANGED <<world, row, clock>>
    /\ Become(d, s, Idle)
    /\ UNCHANGED <<world, running, hist, writes, faults>>

-----------------------------------------------------------------------------
(* The server: a request is refused unless it names the version the server  *)
(* has.  Its clock does not go back.                                        *)

ServerTime(t) == Reading(t) /\ \A i \in DOMAIN hist : t >= hist[i].time

Answered(d, s, v, e) ==
    Become(d, s, [op[d][s] EXCEPT !.step = "answer", !.ver = v, !.val = 0, !.err = e])
Refused(d, s, e) == Answered(d, s, 0, e) /\ UNCHANGED <<world, hist, clock>>

ServePut(d, s) ==
    /\ At(d, s, "put")
    /\ IF hist = <<>> \/ op[d][s].ver = Len(hist)
       THEN /\ \E t \in Times :
                  /\ ServerTime(t)
                  /\ hist' = Append(hist, [val |-> op[d][s].val, del |-> FALSE, time |-> t])
            /\ Answered(d, s, Len(hist) + 1, "none")
       ELSE Refused(d, s, "conflict")
    /\ UNCHANGED <<world, row, running, writes, faults>>

ServeDel(d, s) ==
    /\ At(d, s, "del")
    /\ IF hist # <<>> /\ op[d][s].ver = Len(hist)
       THEN /\ \E t \in Times :
                  /\ ServerTime(t)
                  /\ hist' = Append(hist, [val |-> 0, del |-> TRUE, time |-> t])
            /\ Answered(d, s, Len(hist) + 1, "none")
       ELSE Refused(d, s, IF hist = <<>> THEN "notFound" ELSE "conflict")
    /\ UNCHANGED <<world, row, running, writes, faults>>

\* The newest version, which may be another than the one asked for.
ServeGet(d, s) ==
    /\ At(d, s, "get")
    /\ LET n == Len(hist)
       IN  Become(d, s, [op[d][s] EXCEPT !.step = "answer", !.ver = n, !.object = hist[n],
                         !.err = IF hist[n].del THEN "tombstone" ELSE "none"])
    /\ UNCHANGED <<world, row, running, hist, clock, writes, faults>>

\* The request or its answer is lost: the answer becomes an error.
LoseAnswer(d, s) ==
    /\ op[d][s].step \in {"put", "del", "get", "answer"}
    /\ faults < world.maxFaults /\ faults' = faults + 1
    /\ Answered(d, s, 0, "unknown")
    /\ UNCHANGED <<world, row, running, hist, clock, writes>>

\* The completion of put, del or get, on the main queue.  An error ends the
\* sync of the key.
TakeAnswer(d, s) ==
    /\ At(d, s, "answer")
    /\ LET o == op[d][s]
       IN  Become(d, s, IF o.err # "none" THEN Idle
                        ELSE IF o.req = "get" THEN [o EXCEPT !.step = "apply"]
                        ELSE Then("record", FALSE, o.ver, o.lv))
    /\ UNCHANGED <<world, row, running, hist, clock, writes, faults>>

\* _set with what was fetched.
ApplyFetched(d, s) ==
    /\ At(d, s, "apply")
    /\ LET o == op[d][s]
       IN  IF Unlocked(d, o.lv)
           THEN /\ \E t \in Times : Reading(t) /\ SetRow(d, o.object.val, t)
                /\ Become(d, s, Then("record", FALSE, o.ver, o.lv + 1))
           ELSE Become(d, s, Idle) /\ UNCHANGED <<world, row, clock>>
    /\ UNCHANGED <<world, running, hist, writes, faults>>

-----------------------------------------------------------------------------
\* The app is killed: the database stays, the rest is gone.
Restart(d) ==
    /\ faults < world.maxFaults /\ faults' = faults + 1
    /\ running[d] # 0 \/ \E s \in Slots : op[d][s] # Idle
    /\ running' = [running EXCEPT ![d] = 0]
    /\ op' = [op EXCEPT ![d] = [s \in Slots |-> Idle]]
    /\ UNCHANGED <<world, row, hist, clock, writes>>

\* What a sync that has begun will do.
SyncStep(d, s) ==
    \/ ListKeys(d, s) \/ TakeList(d, s)
    \/ CompareVersions(d, s) \/ CompareTimes(d, s) \/ RemoveLocally(d, s)
    \/ ServePut(d, s) \/ ServeDel(d, s) \/ ServeGet(d, s)
    \/ TakeAnswer(d, s) \/ ApplyFetched(d, s) \/ Record(d, s)

Next ==
    \E d \in Devices :
        \/ AppSet(d) \/ AppDel(d) \/ EndSync(d) \/ Restart(d)
        \/ \E s \in Slots :
              \/ SyncAllKeys(d, s) \/ SyncStep(d, s)
              \/ ListFails(d, s) \/ LoseAnswer(d, s)

Spec == Init /\ [][Next]_vars

\* The app syncs again and again, and queues and the server do their work.
FairSpec ==
    /\ Spec
    /\ \A d \in Devices :
          /\ WF_vars(EndSync(d))
          /\ SF_vars(\E s \in Slots : SyncAllKeys(d, s))
          /\ \A s \in Slots : WF_vars(SyncStep(d, s))

-----------------------------------------------------------------------------
TypeOK ==
    /\ row \in [Devices -> [ver : Nat, rv : 0 .. Len(hist), time : {0} \cup Times,
                            del : BOOLEAN, val : 0 .. writes]]
    /\ running \in [Devices -> {0} \cup Slots]
    /\ \A d \in Devices, s \in Slots : op[d][s].step \in Steps /\ op[d][s].ver <= Len(hist) + 1
    /\ hist \in Seq(Object)
    /\ clock \in {0} \cup Times /\ writes \in 0 .. MaxWrites /\ faults \in 0 .. world.maxFaults

Same(r, o) == r.del = o.del /\ (r.del \/ r.val = o.val)

\* A row that carries a remote version holds what the server has, or had, under
\* that version: _syncKey returns at once when the two versions agree, so a
\* row marked wrongly would never be synced again.
MarkedIsSame ==
    \A d \in Devices : row[d].rv > 0 => Same(row[d], hist[row[d].rv])

\* Together: every row is well formed, and its remote version is one the server
\* gave to just what the row holds (_syncKey, setRemoteVersion).
RowsOK == TypeOK /\ MarkedIsSame

\* A fetched value replaces only a row that is older than it, although the app
\* may write, and other syncs of the device may run, while it is fetched.
FetchedIsNewer ==
    [][\A d \in Devices, s \in Slots :
          At(d, s, "apply") /\ row[d] # row'[d] /\ op[d][s] # op'[d][s]
              => row[d].time < op[d][s].object.time]_vars

\* Once the apps stop writing, every device comes to have what the server has,
\* whatever was lost, restarted or written during a sync, if the devices sync
\* one at a time ("concurrency will be so low", says _syncKey) and the clock
\* has moved on between a write and the next.
Converged ==
    \A d \in Devices :
        IF hist = <<>> THEN row[d].ver = 0 \/ row[d].del
        ELSE IF row[d].ver = 0 THEN hist[Len(hist)].del
        ELSE Same(row[d], hist[Len(hist)])
EventuallyConverged == world.solo /\ world.clocks = "ticking" => <>[]Converged

-----------------------------------------------------------------------------
(* What the comments of the source say.                                     *)

\* "only one sync can run at a time".
OneSyncAtATime ==
    \A d \in Devices, s, r \in Slots : op[d][s] # Idle /\ op[d][r] # Idle => s = r
=============================================================================
