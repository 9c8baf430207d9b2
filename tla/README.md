# TLA+ models of the Gorigin RPC layer

These modules model the RPC layer of `src/network`: its framing, reassembly,
call correlation, connection cache, call router, inbound dispatch, the
watcher's registry, and the ticker of `src/timer` that drives the
periodic work. They are checked with TLC. Every definition is
translated from the Go source; `PROJECT.json` maps each one to the lines it
stands for.

## The system

A node (`rpc.NodeDetail`) is both a client and a server.

- **Codec** (`rpc/encode.go`). Every message is cut into fixed-size frames:
  - TCP frames are 1444 bytes and UDP frames are 534.
  - The header carries a 3-byte correlation id, a kind, a 2-byte function id,
    the chunk count, and the chunk index or length.
  - `MakeReqBody` and `MakeRspBody` build the frames; `parse` reads one back.
- **Reassembly** (`NodeConn.ParseResp`, `rpc/conns.go`). Chunks of one
  payload are joined in the connection's `list` map, keyed by correlation
  id. The map is locked only around each load, store and delete.
- **Server inbound** (`tcpAccept`, `UdpListen`).
  - Each frame read starts a goroutine that runs `ParseRspByte`: `ParseResp`,
    then `builtin` (function id < 30) or the registered handler (`findCall`),
    then `MakeRspBody`. It writes the reply frames back.
  - A UDP listener has one `NodeConn` for all its peers.
- **Client calls** (`connsCall` + `WaitRsp`, `MasterCall` + `ProtoWaitRsp`).
  - The caller takes a correlation id: `serial` for user calls, `WatchNode.count`
    for watcher calls.
  - It writes the request frames, then registers a one-slot channel in the
    connection's `rc` map (`NewChan`) and selects on it and on the context.
    A deferred `DelChan` removes it.
  - The read loops (`ReadRespTCP`, `ReadRespUDP`) run `ParseResp`, look the id
    up in `rc` and send the payload on the channel.
  - `TestConn` writes ping frames (correlation id 1) on the same socket.
- **Connection cache** (`rpc/conns.go`, `rpc/fmsg.go`).
  - `NodeBaseToConn` and `PutConn` dial a peer or reuse its cached conn
    after a `TestConn` ping, which redials on failure.
  - `RefreshConn` dials and starts `ReadRespTCP`.
  - `TimerCheck` tests flagged conns; `ClearConn` evicts old ones every 10 s.
- **Router** (`rpc/invoke.go`, `rpc/api.go`, `rpc/fmsg.go`).
  - `send`, `call`, `multi` and `sendall` resolve an api name with
    `QueryFunc` (the local `funcmap`, else `GetFuncMsg` to the watcher).
  - They check the api's type, then run locally or pick conns with
    `GetRemoteConn` (probe each provider, drop dead ones with `UpFuncNode`)
    or `GetAssignConn` (a uuid: the cached conn, else `GetNodeMsg`).
  - `CallRemoteByte` is the byte-level entry used by the HTTP bridge.
- **Inbound dispatch** (`ParseRspByte` in `rpc/encode.go`).
  - Ids of 30 and above are resolved with `QueryFunc(fid, "")`, so dispatch
    on a node can itself call the watcher, which dispatches the same way.
- **Timer** (`src/timer`). Each node has a ticker (`NewTimer(200 ms)`,
  so `part` is 1 s) on which `InitTimer` adds the heartbeat (2 s) and
  `ClearConn` (10 s), `TimerCheck` adds its probe, and the watcher adds
  `ClearNodeExprie` (5 s).
  - Functions due within `part` wait in the `sync.Map` `one`, later ones
    in `two`.
  - Each tick, the ticker goroutine ranges over `one`. For a due function
    it starts `go s.run(v)` and then deletes the key.
  - `run` calls the function, moves `next` one interval on and re-puts it.
  - Every fourth tick starts a `checkSave` goroutine, which stores soon-due
    functions in `one` and then deletes them from `two`.
- **Watcher client** (`rpc/watch.go`, `rpc/node.go` `InitTimer`).
  - `WatchRegister` sends `Registered` with the node's api list and caches
    the function ids of the reply in the node's `funcmap`.
  - A timer calls `Heartbeats` every 2 s; every third failure registers again.
- **Watcher registry** (`watch/`). The watcher serves each request in a
  goroutine of its own; its maps are `sync.Map`s with no further locking.
  - `Registered` runs `PutApi` for each api: look the name up, mint an id
    (`atomic.AddUint32`), store it, or append the uuid to the node list.
    Then `PutNodeDetail` stores the node.
  - `Heartbeats` refreshes the node's stamp (`UpHeartbeat`); a 5 s timer
    deletes nodes older than 4 s (`ClearNodeExprie`).
  - `GetApiConn` reads an api's node list, keeps the uuids that are still
    stored, and writes the pruned list back.

## Modules

| Module | Models | State | Actions |
|---|---|---|---|
| `Codec` | `encode.go` | none (operators) | `MakeReqBody`, `MakeRspBody`, `buffPrefix`, `PingBytes`, `parse` |
| `Reassembly` | `ParseResp` | `list` (id → entry), `heap` (every `*ReadLink` ever made; pointers outlive deletion), `task` (per goroutine) | `Lookup` (parse, early returns, RLock'd load), `Check`, `Fill` (the unlocked `recv++` and slot store), `Complete` (scan, locked delete), `Create` (locked store) |
| `MCReassembly` | a server `NodeConn` reading the frames of a few payloads | `wire`, `delivered` | `Receive` (read loop hands a frame to a goroutine), `Deliver` |
| `RpcConn` | one client `NodeConn` and its server | `reqnum`, `count`, callers `cl`, `rc`, channels `chan`, the two directions `c2s`/`s2c`, the read loop `rl`, and two `Reassembly` instances (`Cli`, `Srv`) | `Call` (`serial`'s first `AddUint32`, or `count`'s), `SerialSwap`, `SerialReadd` (its `SwapUint32` and second `AddUint32`, each a step), `Write` (one frame), `NewChan`, `Receive`, `Timeout`, `Ping`, `SrvRead`, `SrvStep`, `SrvDispatch`, `SrvWrite`, `CliRead`, `CliStep`, `CliDispatch`, `CliSend`, `Drop` |
| `MCRpcConn` | call scenarios (constants that a `.cfg` cannot write) | | |
| `ConnLife` | `conns.go` `RefreshConn`, `TestConn`, `Close`, `TimerCheck`; `fmsg.go` `PutConn`, `GetNodeConn`, `DelConn`, `ClearConn`; `node.go` `NodeBaseToConn` | peers `up`, sockets `sock`, read loops `readers`, `conns` (uuid, wrong, tconn, stamp, check), the cache `ser`, per goroutine `act`, `crashes`, `ticks` | `Announce`, `PushLookup`, `Lookup`, `Test` (`TestTcpConn` in three unlocked steps: `TestPing` on the current `tconn`, `TestDial` assigning `tconn`, `TestReping` on `tconn` as it is then; shared by `NodeBaseToConn`, `PutConn` and `GetRemoteConn`), `Close` (on whatever `tconn` holds), `Del`, `Dial`, `Arm`, `PutLoad`, `PutStore`, `Return`, `CheckTick` (`TimerCheck`'s run: `CheckStart`, the same three test steps, `CheckClose`, `CheckRefresh` and `RefreshConn`'s test), `ClearConn`, `ReaderStep`, `Crash`, `Restart` |
| `MCConnLife` | peers, goroutines, bounds | | |
| `WatchRegistry` | `watch/fmsg.go` `PutApi`; `watch/node.go` `PutNodeDetail`, `UpHeartbeat`, `ClearNodeExprie`; `watch/api.go` `Registered`, `GetApiConn`; `rpc/node.go` heartbeat callback; `rpc/watch.go` `WatchRegister` | `num`, `ids` (id → name, node list), `str` (name → id), `nodes` (uuid → stamp), `now`, per node its handler `h` and `wrong` (`heartbeatsWrong`), per querier `q`, the client cache `fids` | `PutApiCheck`, `PutApiMint`, `PutApiStoreIds`, `PutApiStoreStr`, `PutApiAppend` (one step per shared-map access), `PutNodeDetail` (with the reply's `StoreFuncs`), `Heartbeat`, `ClearNodeExprie`, `Tick`, `GetApiConnLoad`, `GetApiConnStore` |
| `MCWatchRegistry` | two providers of one api | | |
| `Timer` | `timer/timer.go` the Add calls, `checkTime`, `CloseAndExit`; `timer/cache.go` `newTimer`'s ticker loop, `run`, `put`, `checkSave`; `timer/common.go` `RunFunc` | the clock `now`, the maps `one` and `two` (as sets of uniq keys), `data` (next, times), `st`, the tick count `cnt`, the ticker `tk`, run goroutines `rn` (counts per step), `checkSave` goroutines `cs` | `Add` (`AddDuration`, `AddBoolean`, `AddTimerRun`), `Tick`, `RangeStart`, `Visit`, `Delete`, `Stop`, `CloseAndExit`, `Run`, `Put`, `SaveStart`, `SaveVisit`, `SaveDel`, `Clock` |
| `MCTimer` | a node's ticker with the heartbeat | | |
| `Router` | `invoke.go` `send`, `call`, `multi`, `sendall`, `remoteCall`, `remoteMulti`, `CallRemoteByte`, `GetRemoteConn`, `GetAssignConn`; `fmsg.go` `PutMsg`, `Query`, `GetFuncConn`, `UpFuncNode`; `node.go` `QueryFunc` | `ConnLife`'s state plus `fdata` (api name → node list), `ids`, `str`, per caller `rt`, `issued` | `Begin` (entry, type and local checks), `Ask` (`QueryFunc` round trip), `FuncConn`, `ApiConn` and `Assign` (the watcher answers, fails, or, under `context.TODO`, never answers: `Hang`), `Probe` (`GetNodeConn`, then `ConnLife`'s test steps), `Probed`, `Got`, `UpNode`, `Finish`; it reuses `ConnLife`'s `Dial`…`Return` for `NodeBaseToConn` and `PutConn` |
| `MCRouter` | api names, their ids, types and providers | | |
| `Dispatch` | `ParseRspByte`, `QueryFunc`, `Query`, `MasterCall`/`SlavesCall`, `WatchApi.GetFuncMsg` | `handled` | `Request`; `QueryFunc` and `ParseRspByte` are mutually `RECURSIVE` operators |
| `MCDispatch` | the watcher and one registered node | | |

Abstractions:

- **Payloads** are short byte sequences.
- **The frame profile** is a constant. The runs use TotalSize 16 and
  BodySplit 2, so a 3-byte payload already takes two frames. Every branch of
  the encoder and the decoder is exercised.
- **Handlers** are an echo of the request, or an error for ids in `Fails`.
- **Api names, ids and uuids** are model values. A `funcmap` is kept as
  its key sets and node lists. The watcher's answers to `GetFuncMsg` and
  `GetNodeMsg` are a nondeterministic choice in `Router`.
- **Counters** keep their Go width: `reqnum` and `count` are `uint32`, and
  correlation ids are taken modulo 65535 as in the code.

## Runs

| Run | Expect | Shows |
|---|---|---|
| `reassembly_seq` | pass | One reader, frames of four payloads (3, 2, 1, 0 chunks) in any order: each is joined intact (`DeliveredIntact`), and all are delivered with `list` left empty (`AllDelivered`). |
| `reassembly_dup` | violation | Two goroutines on a TCP connection: the last two chunks both complete the entry, and the request is dispatched twice (`DeliveredAtMostOnce`). |
| `reassembly_peers` | violation | UDP listener: two peers' requests with the same id (each node's `serial` starts at 101) are joined into one (`DeliveredIntact`). |
| `rpc_serial` | violation | Two callers with deadlines on one connection of a node that has made no call yet (`reqnum` 0), over TCP with one ping or UDP. `serial`'s `AddUint32`, `SwapUint32` and `AddUint32` are three atomic steps: both callers get an Add result below 100, one swaps and adds (101), the other swaps `reqnum` back to 100 and adds (101 again). Both register `rc[101]`, and one caller returns the other's reply (`CorrelationIsolation`, 20 states). |
| `rpc_hang` | violation | `CallAuto` has no deadline, and the handler returns an error. The call hangs (`CallsReturn`) for two reasons. First, the Failed reply is parsed as id 0, so the waiter never gets the error (this is TLC's trace). Second, a reply read before `NewChan` registers the waiter is dropped, because the write comes first (the trace with `Fails = {}`). |
| `connlife_race` | violation | Two handler goroutines, a peer crash and restart, `TimerCheck` and a `ClearConn` tick. After the restart, `NodeBaseToConn`'s and a `PutConn`'s `TestTcpConn` on the same cached conn both fail the ping and both redial; the read loop moves to the first new socket and the second redial replaces `tconn`, so the loop reads a socket no request is written on (`ReaderOnCurrentSocket`, 18 states). |
| `connlife_redial` | violation | After a peer restart `TestConn` redials a cached conn without starting `ReadRespTCP`; the cache then holds a conn whose replies are never read (`ReaderAttached`). |
| `connlife_evict` | violation | `NodeConn.stamp` is never set, so `ClearConn` evicts a healthy conn, without closing it; its socket and read loop leak (`NoReaderLeak`). |
| `router` | pass | One goroutine making two calls (call, multi, sendall, `CallRemoteByte`; by name, by uuid, by "self") with a crash, a `ClearConn` tick and `TimerCheck` racing it: a call fails for want of a conn only when the peer was down or crashed meanwhile (`NoSpuriousFailure`), although the probe's `TestTcpConn`, `TimerCheck`'s and `ClearConn` interleave with it step by step. The watcher may answer, fail or never answer; a call under `context.TODO` whose `GetApiConn` or `GetNodeMsg` gets no answer hangs, so no run claims that every call returns. |
| `watch_provider` | violation | Two nodes register the same api while a goroutine serves `GetApiConn`. A registered, live node must be listed under the id its api name maps to, and that id must be the one it was told (`ProviderListed`). It is not: a `GetApiConn` between `PutApi` and `PutNodeDetail` prunes the node for good, and concurrent `PutApi`s of a new name mint two ids. |
| `timer_drop` | violation | A node's ticker with the heartbeat added to run forever (`NeverDropped`). A `checkSave` stores the heartbeat in `one` and stalls before deleting it from `two`. Meanwhile the ticker runs it, and the run re-puts it into `two`. The `Delete` then removes it, and the heartbeat never runs again. With `checkSave` made atomic, the ticker's own go-then-`Delete` loses it the same way, when the run re-puts into `one` first. |
| `dispatch_watcher` | violation | `Query` misses on every id, so `QueryFunc(fid, "")` asks the watcher, whose `WatchNode` has no master or slave: the watcher cannot dispatch its own `WatchApi` methods, and no node dispatches a registered method (`ServedRequestsDispatched`). |

Each property of a passing run has a mutant in `PROJECT.json`: a plausible
bug in a mapped definition under which TLC finds the property violated. The
mutants are:

- a stale index stored by `Create`;
- `parse` keeping the trailer;
- `Complete` not deleting the entry;
- `PutMsg` storing a stale index;
- `GetRemoteConn` ignoring the conn it got.

`RpcConn` and `ConnLife` have no passing run of their own: with `serial`
and `TestTcpConn` split into their real atomic steps, their central
properties fail (`rpc_serial`, `connlife_race`). `ConnLife`'s actions run
in the `router` run, under `RTypeOK` and `NoSpuriousFailure`.

## Bounds

- **Callers and ids.** Two callers (`a`, `b`) cover every two-actor order of
  `serial`'s three steps, the writes, `NewChan` and the read loop.
  Correlation ids come from the real `serial`, starting at 0 as on every
  node; the shared id needs both callers' first Add below 100.
- **Pings.** `MaxPings` is per transport: one ping on TCP, which is enough
  to collide with id 1. None on UDP, where reordering and loss already
  produce every arrival order, and a ping would only multiply the states.
- **Server goroutines.** One server goroutine in the RpcConn runs keeps them
  under 5 minutes. The goroutine races of the server are checked in
  `MCReassembly` with two goroutines, and two are enough to produce every
  race found.
- **Loss.** Loss is bounded by the finite frames.
- **ConnLife and Router.** One peer, one crash (`MaxCrashes`), one
  `ClearConn` tick (`MaxTicks`), up to 8 sockets (`MaxSockets`; 7 in
  `router`) and 4 conns (`MaxConns`). A goroutine or a `TimerCheck` run
  starts only when the sockets it may dial (4 for a handler, 3 for a timer
  run) are free, so none stops on the bound mid-way. `connlife_race` has
  two goroutines, which is what the `TestTcpConn` race needs. `router` has
  one goroutine (a second one, serving `DialRegister`, takes the run past
  15 minutes) and two
  calls (`MaxCalls`), since every call appends to `fdata` (`Query` never
  hits); two api names, one with a provider and one served locally, reach
  every branch of `send`/`call`/`multi`/`sendall` and both conn pickers.
- **WatchRegistry.** Two nodes with one api, which is the least that races
  two `PutApi`s of one name. One querier serving two `GetApiConn`s. A clock
  up to 5 s against the 4 s expiry (`TimeOut`), so a node can expire and
  re-register through three failed heartbeats. Both traces are at
  most 10 states long.
- **Timer.** One function, the heartbeat: interval 2 and `part` 1, in
  seconds as in the code. The clock runs to 5 s, which allows two heartbeat
  periods and a late tick. Eight ticks allow two `checkSave` goroutines.
  The drop needs one function, one `checkSave` and one run.
- **Dispatch.** The watcher and one node, the four watcher method ids
  and one minted id: the violation happens on the first request.

## Fairness

Each caller, each server goroutine and the client read loop get weak
fairness. Goroutines are scheduled, and a context with a deadline is
eventually done. `Timeout` is enabled only when `Deadline[c]`, because
`context.TODO` is never done. Pings and datagram loss are not forced.
In `ConnLife` each goroutine and each read loop is weakly fair. In
`Router` the caller's steps are weakly fair; read loops are not, since no
call there waits on a read loop. No run checks a liveness property of
`ConnLife` or `Router`: the call they would say returns can hang in the
code (`Hang`). Crashes, restarts, ticks and the
watcher's answer are never forced. `WatchRegistry` and `Timer` are checked
for safety only and assume no fairness. In `Timer` the clock advances on
its own, since goroutines get no timing guarantee. A tick, a run or a
`checkSave` may therefore come late, as under load.
`CHECK_DEADLOCK FALSE` is set because every run ends in a state where all
callers are done and the loops wait on a read forever, which is how the
program idles.

## Not modelled

These are left out:

- HTTP transport, marshalling, logging and the monitor: pure I/O or
  formatting.
- In `Timer`:
  - `SetTimeZone` (string parsing that only shifts clock stamps) and
    `TimeSplit` (never called).
  - `checkTime`'s arithmetic: it is taken as the next instant at most one
    interval ahead.
  - The callbacks' own effects: the heartbeat is in `WatchRegistry`, and
    `ClearConn` and `TimerCheck` are in `ConnLife`. Those modules take their
    timers as firing whenever enabled. `timer_drop` shows that this is
    optimistic.
- Service registration (`rpc/service.go`). The reflection-based method
  classification is configuration, not concurrency. `LocalMulti`'s panic is
  modelled in `Router` as the outcome of a local multi.
- Watcher election: `watch/elect.go` holds only stubs.
- Env-file persistence (`InitEnvFile`, `addEnvFile`). On restart
  `InitEnvFile` calls `PutApi("", msg)`, which rejects the empty uuid, so
  nothing is restored, and then it removes the file. Row parsing depends on
  protobuf types that are not in `src`.
- In `WatchRegistry`: `PutMsg` (never called), the read-only `GetFuncMsg`
  and `GetNodeMsg`, and `ClearNodeExprie` interleaved with `UpHeartbeat`
  (taken as one step). It also leaves out the watcher conns that
  `WatchRegister` builds and `InitWatchConfig`. With the code as written,
  no `WatchApi` request is dispatched at all (`dispatch_watcher`), so
  `watch_provider` shows what happens once that is fixed. `Router` treats
  the watcher's answers as a nondeterministic environment.
- In `Router`: three-part names (a node name; `GetAssignConn` returns no
  conn for them), `sendall`'s per-conn writes and its shared error (it
  always returns nil), and `CallRemoteByte` after a cache hit (`Query`
  never hits).
- An abstract call spec refined by `RpcConn` (a call returns its own reply
  or a timeout) is not written yet.
