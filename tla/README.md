# A TLA+ model of cropstun

cropstun turns a TUN device into TCP and UDP connections: a device per operating
system (wintun on Windows, utun on macOS, `/dev/net/tun` on Linux), a gVisor stack
on top of it, and a handler per connection. This directory holds TLA+ modules for
the parts in which order, concurrency and failure matter, the TLC configurations
that check them, and TLAPS proofs. Paths below are relative to the repository.

## 1. Inventory

| component | state | operations | what is hard |
|---|---|---|---|
| Windows device, `tun_windows.go` | wintun session and adapter, `readWait` event, `close` flag, `running` wait group, `closeOnce`, rate counters | `ReadFunc`, `ReadPacket`, `Write`, `write`, `Close` | nothing locks the session; only the order of flag, event and wait group keeps it from being used after `End` |
| Windows configuration, the same file | addresses, routes, filter engine session | `New`, `configure`, `Close`, `SetupDNS` | many system calls, each may fail; filters in force while half of them are there, or after `New` failed |
| stack, `stack_gvisor.go` and the link endpoints `tun_*_gvisor.go` | dispatcher, forwarders, requests in flight, one endpoint and goroutine per flow | `Start`, `Close`, `Attach`, `dispatchLoop`, the two forwarder functions, the once closers | the loop reads the dispatcher without a lock; `Close` races handshakes, deliveries and handlers |
| Linux device, `tun_linux.go` | descriptor, link, routes in a table of its own, policy rules, `ruleIndex6` | `New`, `open`, `configure`, `setRoute`, `unsetRoute`, `setRules`, `unsetRules`, `rules`, `nextIndex6`, `Close` | a netlink call after the other, each may fail; a crash leaves rules; two processes share the table and the priorities |
| macOS device, `tun_darwin.go`, and options, `tun.go`, `tun_rules.go` | utun socket, addresses, routes; `Options` | `NewTunDevice`, `CalculateInterfaceName`, `BuildAutoRouteRanges`, `New`, `configure`, `Close` | the name is picked from a list that is stale when it is used; everything after `connect` goes by name |
| change handlers, `internal/winipcfg/*_change_handler.go` | map of callbacks, notification handle, two mutexes, a wait group per callback | `Register`, `Unregister`, the notification | a callback that runs while it is unregistered; `removeIt` is used after the unlock |
| wintun loader, `internal/wintun` and `memmod` | `lazyDLL`, `lazyProc`, mapped image, imports, address ranges, the hook | `Find`, `Load`, `LoadLibrary`, `Free` | double-checked locking, a dozen steps that may fail, page arithmetic |
| interface cache and binding, `iface`, `bind` | table of interfaces, `Control` and `ControlContext` of a dialer or listener | lookups, `FlushCache`, `BindToDeviceForConn`, `BindToDeviceForPacket`, the hook | stale entries, hooks that wrap hooks, two socket options of which one fails |
| slice allocator and buffers, `common/buf` | eleven pools; `start`, `end`, `capacity`, `refs` of a buffer | `Get`, `Put`; cursor operations, `Release` | bit arithmetic at the boundaries; long sequences of cursor operations |
| vectorised writers, `common/bufio` | a list of iovecs that is kept, a mutex | `WriteVectorised` | concurrent writers, retries, release on every path |
| default route, `route` | none | `DefaultRouteInterface` on three systems | the tunnel's own routes are in the table, metrics wrap, the table changes before the answer is used |
| process lookup, `process` | the functions of Windows that were found | `FindProcessName` on three systems | several queries, between which processes exit and pids and inodes are used again |
| addresses, routes and DNS of an interface, `internal/winipcfg/luid.go`, `netsh.go` | those of Windows | the methods of `LUID`, `SetupDNS` | flush and add, call by call, on a copy of a table that others change too |
| relay, `example/relay` | two connections, two goroutines, a channel | the two handlers, `copyPacketData`, `ReadFrom` behind the symmetric NAT | one direction ends while the other is blocked; packets of strangers |
| `internal/winfw`, `winsys`, `windnsapi`, winipcfg types | none | system calls and struct layouts | none of its own |

How they interact: the stack calls the device (`ReadFunc` in the dispatch loop,
`write` from gVisor's `WritePackets`, through a vectorised writer on Linux and macOS,
`Close` from `GVisor.Close`); gVisor calls the forwarder functions, TCP in a goroutine
of its own and UDP in the dispatch loop; the handler runs in a goroutine per
connection and, in the relay, looks up the process of the connection, dials with a dialer
bound to the interface of the default route and copies both ways; Windows calls the change handlers from its
own threads; the first call of a wintun function loads the library.

What makes each part correct:

* device: a call never reaches a session that has ended; `Close` returns, once for
  all callers, with everything torn down; no packet or ring slot is lost.
* Windows filters: the process itself is never cut off; other processes do not get
  past the tunnel while it is up, and get through it; no filter stays for ever.
* stack: each flow ends with its endpoint closed exactly once; each request gives its
  slot back; `Close` leaves nothing of what it found, and the loop ends.
* Linux device: whatever happened before, a device that is up has its own rules and
  no others, traffic goes where it should, two processes do not share a table, and
  `Close` removes what `New` added.
* macOS device: only the process's own interface is touched, all traffic of its
  families goes to it, and nothing is left behind.
* change handlers: after `Unregister` the callback is quiet; while a callback is
  registered there is a subscription; `Unregister` returns.
* loader: one library, never freed while an address into it is known; of a load that
  failed no memory, import or attached library is left; the pages of a section have the access that it asks for.
* binding: the last bind decides, the caller's own hooks still run, and a socket bound to
  the default route does not send into the tunnel (section 5 has the one exception).
* process lookup: the process that is named owns the socket that was found.
* `LUID`: a call that returns nil did what it was asked, and touched nothing else.
* relay: each peer gets what the other sent, up to the size of the buffer, and nothing
  else; the handler ends unless a TCP peer neither reads nor goes.
* buffers: each is a queue of bytes of its own; an array never ends up in a wrong pool.
* writers: packets go out whole, once, or with an error; no array is lost.

The hazards behind these properties are listed, with their lines, in `PROJECT.json`.

## 2. Modules

| module | models |
|---|---|
| `TunDevice` | abstract device: open, closing, closed, with calls that hold the session |
| `WinTunIO` | the read, write and close half of `tun_windows.go`; implements `TunDevice` |
| `WinConfigure` | `New`, `configure` and `Close` of `tun_windows.go` with the filter platform |
| `GVisorStack` | `stack_gvisor.go` and the endpoints' `Attach` and `dispatchLoop` |
| `LinuxTun` | `tun_linux.go`, with the kernel's routes and rules |
| `DarwinTun` | `tun_darwin.go`, the naming of `tun.go`, the ranges of `tun_rules.go` |
| `ChangeHandler` | the three change handlers, which are the same code |
| `WinLoader` | `dll_windows.go`, `LoadLibrary` and `Free` of `memmod_windows.go` |
| `PEImage` | the layout of `LoadLibrary`, `copySections` and `finalizeSections` of `memmod_windows.go` |
| `LUID` | `luid.go`, `netsh.go`, and `SetupDNS` of `tun_windows.go` |
| `DefaultRoute` | package `route`, pure functions of a routing table |
| `Bind` | packages `iface` and `bind`, and how the relay's `main` uses them with `route` |
| `ProcessLookup` | package `process` |
| `Relay` | the handlers of `example/relay/main.go` |
| `ByteQueues` | abstract buffers: queues of bytes |
| `Buffer` | `common/buf/buffer.go`; implements `ByteQueues` |
| `BufAllocator` | `common/buf/alloc.go`, `pool.go`, pure functions |
| `VectorisedWriter` | the writers of `common/bufio` |
| `MC*` | instances for TLC; `MCOutbound` (`Bind`, `ProcessLookup`), `MCWinIPCfg` (`ChangeHandler`, `LUID`), `MCWinLoader` (`WinLoader`, `PEImage`) and `MCTraffic` (`VectorisedWriter`, `Relay`) hold two parts that share no state, of which a behaviour follows one |
| `*_proofs` | theorems; `Traffic_proofs` (`GVisorStack`, `Relay`, `VectorisedWriter`, `Buffer`, `BufAllocator`), `Outbound_proofs` (`Bind`, `DefaultRoute`, `ProcessLookup`), `WinLoader_proofs` (`WinLoader`, `PEImage`) and `WinIPCfg_proofs` (`ChangeHandler`, `LUID`) cover parts that share no state |

Each property stands beside a few definitions that no specification uses
(`CloseWaitDropped`, `UnsetListShort`, `BoundaryOnce`, ...). They are the plausible bugs
against which the properties were tried out: with the definition below them replaced
by such a variant, TLC reports the property that `PROJECT.json` names as violated.

**WinTunIO.** `pc` gives the next step of each goroutine; `running`, `close`, `once`,
`readWait` are the fields of `NativeTun`; `session`, `adapter`, `fwpm` what `Close`
tears down; `arrived`, `taken`, `released`, `pkt`, `lent` follow the packets of the
receive ring, `txUsed` and `txReady` the slots of the send ring. Each atomic
operation of the code (a load of the flag, an `Add`, a driver call) is one action.
`ReadFunc` and `ReadPacket` share their actions; readers in `Lenders` use
`ReadPacket`, whose packet is released by its caller (`ReleaseLent`). Spinning
against waiting is a free choice, which abstracts the rate and the clock. Two
ends of the process are modelled: `Wait` panics when `Add` comes between the last
`Done` and the moment the waiter runs (`CloseWoken`), and a packet lent by
`ReadPacket` is released on an ended session.

**WinConfigure.** One action per system call of `New` and `configure`, each of which may
fail; `Slots` is the list of filters in the order of the code, `Wanted` the conditions
under which each is added, and a session of the filter engine is the options it was
opened for and how far it got. `abandoned` are the sessions that a failed `New` leaves
open. `AlwaysPasses` and `NeverPasses` are the filtering platform's verdict on a
connection given by process, family, interface and whether it is DNS: the heaviest
filter that matches in each session decides.

**GVisorStack.** `ctl` is the position in `Start` and later in `Close`; `loop`,
`packet` the dispatch loop; `inflight`, `demux` gVisor's forwarder and
demultiplexer; `cpc`, `ep`, `once`, `closes` each connection's goroutine, endpoint
and once closer. `e.dispatcher` is read and cleared without a lock: while it is
cleared (`torn`) the loop may see the old value, none, or one that panics. `young`
and `late` are history variables for the properties.

**LinuxTun.** `links`, `routes`, `rules` are the kernel; the rest is one process per
instance. Every netlink call is a step that succeeds or fails, `Crash` is possible
everywhere, and an instance starts again with any options. `AutoRules` keeps the
rules of `rules()` with their priorities, selectors and actions; `Outcomes` is the
kernel's evaluation of them for a packet given by family, incoming interface, source,
destination and whether it is DNS.

**DarwinTun.** `owner`, `addrs`, `routes` are the kernel, shared with other programs
(`OtherUp`, `OtherDown`). A name is its number and whether it is the name of that unit,
which is all that `Sscanf` of `"utun%d"` tells apart. Closing the socket removes the
interface with what hangs on it.

**ChangeHandler.** `callbacks`, `handle`, `wait` are the package variables of a
handler, `addRemove` and `mutex` the two locks, `delivering` and `todo` a
notification in progress. Each `Register` makes a new struct, so two of them may hold
the same function.

**WinLoader** has one action per step of `Find`, `Load` and `LoadLibrary`; a block stands
for the address range of one allocation, and `mod` is the `Module` being built. `Free`
runs in the deferred function of `LoadLibrary` and takes back what the code takes back.
**PEImage** is one step of such a load, `finalizeSections`, round by round: `file` is what
the headers say, `base` where the image was put, `i` and `sectionData` are those of the loop,
and `pages` is the access of each committed page. A load that fails, here or later,
begins again at another base (`LoadAgain`).

**Bind.** `os` are the interfaces, `record` the cache, `hooks` the two chains of functions
behind `Control` and `ControlContext`, `sock` the socket that is made with them, how many
of the hooks ran on it (one per step, `Control`) and what came of each system call. It extends **DefaultRoute**, in which `DefaultRouteInterface` is
the set of names that the lookup of a system can return for any table of two rows while
given interfaces exist; `BindDefault` binds to one of them. That the tunnel's routes are in
a table of their own (Linux), begin at `1.0.0.0` (macOS) or lie on a virtual adapter
(Windows) is what `tun_linux.go`, `tun_rules.go` and wintun make of them.

**ProcessLookup** has one action per query of the system, in the order of each platform's
code, and four for the other processes: a socket is closed or opened, a process exits or
starts, with a pid that was used before as another `incarnation`. A port and family are
fixed; the sockets differ in process, local address and TCP state, which is what the code
compares.

**LUID.** `rows` is the table of addresses or of routes of all interfaces, `dns` the name
servers; `call` is the method that runs: the list still to be added, the copy of the table
still to be walked, the error so far. Each call of Windows is a step that may fail, and
`Interfere` is another program. `legacy` chooses the netsh fallback.

**Relay.** `queue` is what waits on each side, `peer` whether it still sends, `shut` what
the relay closed, `copier`, `chunk` and `to` the goroutines, `errCh` the results in the
channel. A packet of UDP that comes from elsewhere is `Stranger`. `io.Copy` and
`copyPacketData` differ in the deadline, in the address and in the buffer: `io.Copy` reads a
stream on from where it stopped, `copyPacketData` loses what a packet has beyond 10240 bytes.
`long` are the packets that are longer, `Filled` what is left of one (`-n` of packet `n`), and
`ReadTooLong` the error that Windows gives for it instead. A TCP write to a peer that is
connected may block for as long as it likes; nothing in `io.Copy` bounds it.

**Buffer** keeps the arrays with their bytes, the pool and the cursors; `answer` is what a
call accepted or returned. **ByteQueues** says what a call may do to the queue it is made
on and that it does nothing to the others. **BufAllocator** keeps the 16-bit arithmetic
of the index.

**VectorisedWriter** has both writers: the one with a kept list of iovecs under a mutex
and the one that copies. Arrays go back to the pool and are filled by others, so that a
pointer kept too long shows as a mixed packet on `wire`. `buffers` is the list that a call
was given; an array holds one part of a packet or, of the writer that copies, a whole one.

## 3. Runs

| run | checks | size |
|---|---|---|
| `wintun` | `SessionCallsSafe`, `CloseMeansClosed`, `NothingInFlightAtEnd`, refinement of `TunDevice`, `CloseReturns` | 2 readers (one with `ReadPacket`), 2 writers, 2 closers, 1 packet, send ring of 1; 627,708 states |
| `win_filters` | `SelfNeverBlocked`, `TunnelOnly` (nothing gets past the tunnel, everything gets through it), `FiltersEnd` | all options, 2 interface indexes, up to 2 abandoned sessions; 798,542 states |
| `stack` | `EndpointsClosedOnce`, `OneLateDelivery`, `OnlyYoungSurvive`, `DispatchEnds`, `RequestsComplete` | 2 TCP flows, 1 UDP flow, 2 connections, forwarder limit 1; 395,845 states |
| `linux_restart` | `TrafficGoesRight`, `CloseLeavesNothing`, `DeletesItsOwn` | 1 process, all options, any number of crashes and restarts; 455,196 states |
| `linux_pair` | `ExclusiveTable` | 2 processes with IPv4 and AutoRoute; 2,373,106 states |
| `darwin` | `TouchesOwnOnly`, `NothingLeft`, `UpTakesAllTraffic` | 2 processes, 2 units, ranges of 8 bits, names that do not fit; 83,922 states |
| `winipcfg` | `QuietAfterUnregister`, `RegisteredIsSubscribed`, `UnregisterReturns`; `SetMeansSet`, `OthersUntouched` | 2 clients, 2 notifications, 2 callbacks, 2 goroutines each; 3 rows of the interface and 1 of another, any sequence of calls; 64,974 states |
| `loader` | `AddressesLive`, `OneLibrary`, `FindReturns`; `SectionsUsable` | 2 goroutines, 3 functions (one not exported), 4 blocks of which 2 cross a boundary; images of up to 3 sections, 3 bases; 158,006 states |
| `outbound` | `LastBindWins`, `NoLoop`, `CallerHookRuns`; `RightProcess` | 3 systems, the outbound interface and the tunnel, 2 indexes, 2 hooks, every routing table of 2 rows; 3 processes of 2 users, 2 sockets, 2 events during a lookup; 4,441,634 states |
| `bind_wildcard` | what a comment of `bind_windows.go` says: violated | Windows, 1 interface |
| `buffer` | refinement of `ByteQueues`; `PoolsFit` | 2 buffers, 2 arrays of the pool and one of the caller, 2 bytes each; the allocator on every size next to a power of two up to 2^17; 217,206 states |
| `traffic` | `PacketsWhole`, `NothingKept`, `CallsReturn`; `NothingMixedUp`, `HandlerEnds` | 2 goroutines with 2 packets each, 4 arrays; 2 chunks each way over TCP or UDP, of which the first may be too long for the buffer, strangers at any time; 142,713 states |

Bounds. Two goroutines of a kind are enough for every race between kinds and within
one; a ring of one slot is full as soon as one writer is in it. One packet is enough for
two readers to race for it and for one of them to find the ring empty; that none is lost of more is
the theorem `NothingLost`. `MaxPackets`,
`Conns`, `MaxLeaked`, `MaxAbandoned`, `MaxHooks`, `MaxRefs`, `MaxCalls`, `MaxInFlight`,
`MaxSent`, `MaxQueue` and `MaxEvents` bound what would be counters for ever; a packet for a new flow when all of `Conns` are
used is dropped, as at the forwarder's limit. The sizes of the allocator are all those
at which the index changes. Two rows are enough for a choice between routes, with metrics
modulo 4 that wrap like the 32-bit ones; two events are a pid or an inode used again. Images have a page of two units, with sections shorter,
as long and longer than it, which gives every way of sharing a page. `linux_pair`
leaves IPv6 out to keep the product of two processes small; the theorem covers every
option. Symmetry is used in `linux_pair` (processes) and `buffer` (buffers, and arrays of
the pool), which check no liveness. Deadlock checking is off for the stack, which may
come to rest after `Close` or a panic, for writers, relay and lookup, which end, as in
`traffic` and `outbound`.

Fairness. Weak fairness of the steps of a goroutine inside a call: Go schedules it and
system calls return. Nobody has to make a call, no packet has to arrive, no handler
has to return. Steps that take a Go mutex are strongly fair, because it hands over to
a waiter that starves (`ChangeHandler`, `LockProc` and `LockDLL` in `WinLoader`, `Lock` in
`VectorisedWriter`); so is `Copy`, which waits for an array of a pool that in the code is
never empty. A write to a descriptor that would block is only sure to return once the
descriptor is closed. In `Relay` the goroutines run, a deadline passes, a dial ends (the
dialer has a timeout), a datagram is taken by the network, and a write to a connection that is
closed or reset fails. Nobody has to send, to end, or to read what TCP sends: `Write` to a connected TCP
peer is not fair, and `HandlerEnds`, which speaks of TCP only from the moment one side has
ended, makes an exception for a write that stays blocked (`Blocked`).
`CloseReturns` makes two: `LeftWaiting`, the two blocked readers of section 5, and `WritersOverlap`,
writers that go on calling so that at every moment one of them is inside. A reader cannot do
that, since its loop ends with the first error. Without its exceptions each of
the two properties is violated.

## 4. Proofs

TLAPS checks them for every value of the constants.

* `WinTunIO_proofs`. `TypeCorrect`, `SessionSafe`, `CloseComplete`, `NothingLost`,
  `Refinement`, for finitely many readers and writers and any set of closers
  (`WinTunAssumption`). None of the invariants is inductive by itself. The typing
  invariant adds that `running` is the number of goroutines inside a call and that the
  slots of the send ring are the committed ones plus the writers about to commit
  (`RunningCounts`, `TxSlots`); `TypeCorrect` states all of it (`InvType`). The safety invariant adds who may be in the body of
  `Close` and what it has done (`OnceInv`, `BodyInv`), the account of packets
  (`PacketInv`), and the heart of the argument, `QuietInv`: from the moment `Wait`
  returned, everybody inside a call still has to read the flag, which is set. The
  refinement maps `phase` to flag and session, and `busy` to the goroutines between
  their last check and their last driver call.
* `WinIPCfg_proofs`. `UnregisterIsQuiet`, `AlwaysSubscribed`, `WaitGroupRule` (no
  `Add` on a group that an `Unregister` waits for). `LockInv` says what the holder of a
  mutex implies, `ClientInv` that `removeIt` stays true while it is used because
  `addRemove` is held, `RetiredInv` that a retired callback is out of the map with its
  group at zero. `SetMeansWhatItSays` and `OthersAreSafe` are about `LUID`, for any rows
  and lists of any length (`LUIDAssumption`). `EntryProgress` follows a call: what was asked is
  in the table or still in the list, and what else the interface has is still in the copy that
  the flush walks; `JobProgress` is the same for name servers. Every step of a call filters
  by interface and family before it deletes, so that a stale copy does no harm.
* `LinuxTun_proofs`. `TableIsALock`: the kernel has one route per family in the table,
  and an instance holds all of its routes from the end of `setRoute` to the beginning
  of `Close`. `ClosesClean`, `DeletesOwnRule`, `TrafficRight` are about an instance that runs
  alone, after any history of crashes. `RunInv` tells for each stage of the run what is
  left in its range of priorities. The difficult part is `unsetRules`: a deletion goes by family
  and priority and may hit another rule than the one listed, so that what is left is never a
  subset of the list; `Matched` says instead that each rule left has an entry of its own in the
  list, so that the last entry deletes the last rule. `Mine` says that the remembered priority
  belongs to one rule only; it does not hold of priority 0, which `nextIndex6` can pick
  without looking. `TrafficRight` then evaluates the rules: `Decided` reduces `Outcomes` to one
  rule that decides, and there is a lemma per family and kind of packet. The assumption
  (`LinuxAssumption`) keeps the names of instances apart from the words of the selectors.
* `WinConfigure_proofs`. `SelfPasses`: the permit for the process itself is added first
  and is the heaviest, so that it is in every session that has any filter
  (`SessionSparesSelf`), in whatever number sessions were abandoned. `FiltersGo`: every
  session is dynamic (`EngineInv`) and ends with the process. `UpTunnelsAll`: the session of
  a device that is up is its own and complete (`OwnSession`), and `RouteInv` follows the loop
  over the ranges, of which only the last error is looked at.
* `WinLoader_proofs`. `AddressesStayLive`, `LoadedOnce`. `LoaderInv` follows the step of the
  load that the holder of `d.mu` is at: what has been allocated, imported and attached
  so far is what `mod` says, nothing is published, and nothing is there when nobody
  holds the mutex and no module is published (`AtRest`). The exception tables and address ranges,
which `Free` does not take back, have an invariant of their own (`RegistryInv`): a load has them
from the hook on (`AtHook`), and before the hook was first tried there are none. `ImagesAreUsable` is about `PEImage`,
  for any page size, any totals in the header, any bases, and any files whose sections are
  aligned and lie apart (`PEImageAssumption`, in `MCWinLoader`). `Part` says what `sectionData`
  stands for: the sections from some `f` to the last one that the loop has come to, whose data
  it reaches to the end of, with the access of all of them, discardable only if all are.
  The sections before `f` are usable (`Protected`), and the pages from `f` on are as they were
  allocated (`Untouched`), which is why the zeroed end of a writable section stays writable.
  The arithmetic: an address that went through the 32 bits of the section header comes back
  because the image crosses no boundary (`AddressesRight`), every section is inside the image
  because `LoadLibrary` compared the two ends (`RoomForSections`), and a section that starts a
  new part starts on a page behind the old one (`PartPages`).
* `DarwinTun_proofs`. `OwnInterface`, `NothingIsLeft`, `RoutesAreExclusive`, `AllTrafficTaken`. The invariant
  pairs the unit of a socket with the owner of the interface and says that addresses
  and routes hang only on interfaces of a process that is past the check of its name. For
  `AllTrafficTaken` the loop over the ranges leaves none out, and each range ends where
  the next one begins (`RangeIs`), so that a first byte is in one of them (`OneRange`).
* `Traffic_proofs`, the stack: `ClosedOnce`, `LateAtMostOnce`, `CloseEndsTheOld`, for any flows,
  connections and limit of the forwarder (`StackAssumption`). `ConnInv` ties the once closer,
  the number of closes and the endpoint to where the goroutine of a connection is; `DemuxInv`,
  that a live endpoint is registered, is why `stack.Close()` finds all of them; `LateInv` is
  why only the packet for which the loop already holds a dispatcher can come late.
* `Traffic_proofs`, the relay: `RelaysInOrder`, for any number of packets. `CopierInv`: what the
  peer got, what the copier holds and what waits are the packets from 1 to the last one sent,
  each once, with strangers' packets only in the queue (`Ordered`); those that were read are whole
or cut as `Filled` says.
* `Traffic_proofs`, the writers: `PacketsGoWhole`, `NothingIsKept`, for any goroutines and
  arrays and packets of any number of buffers (`VectorisedWriterAssumption`, in `MCTraffic`). `Own`:
  the arrays of a call hold its own packet until it releases them; `PoolInv`: each array is in
  the pool or held by exactly one call, which is why a new packet overwrites nobody's; `ListInv`:
  the list belongs to the holder of the mutex, and an entry that points somewhere is of a call
  that has still to clear it or has panicked; `WireInv`: the packet of the last call is on
  the wire once or not at all, as its result says.
* `Traffic_proofs`, the buffers: `BuffersAreQueues`, for any buffers, arrays of any length and
  arrays of the caller (`BufferAssumption`, in `MCBuffer`). The queue of a buffer is the part of its array
  between the cursors (`ShowsIs`). `QueueInv`: the cursors are in order and inside the array, and
  an array belongs to one buffer or is in the pool, never both; without the second part a
  write would change what another queue holds. Each operation is then shown to be the one
  of `ByteQueues` with the same answer.
* `Traffic_proofs`, the allocator: `PoolsAlwaysFit`, for every size (`RequestsAssumption`). `MsbIs`
  is that `msb` finds the one power of two below a size; `GetFits` and `PutFits` follow the
  16-bit arithmetic of the two indexes on both sides of a power of two.
* `Outbound_proofs`. `NamesTheOwner`, for any pids, sockets and events (`LookupAssumption`): a row
  that was read stays true of its socket until the socket is touched (`RowTrue`), also
  when its pid was given to another process in between. `LastBind`, `NeverLoops`, `CallerFirst`, for
  any names, indexes and number of hooks (`BindAssumption`): `ChainInv` says what the
  hooks of a chain remember, `SockInv` that a socket on which the hooks have run without error
  is bound by the last of them (`BoundBy`), for each family that the hook is sure to have set
(`Sure`): on Windows IPv4 of an IPv6 socket only if that option was set; and `AvoidsTunnel` that `DefaultRouteInterface`
  does not return the tunnel on any of the three systems.

Every invariant and both refinements that the runs check are proved. Only model-checked are
the liveness properties (`CloseReturns`, `UnregisterReturns`, `DispatchEnds`,
`RequestsComplete`, `FindReturns`, `CallsReturn`, `HandlerEnds`): fairness is out of the prover's reach. The
theorems about `PEImage`, `VectorisedWriter`, `Relay`, `Buffer` and `LUID` are about
these specifications themselves, of which an `MC` module shows TLC one at a time.

## 5. What the model says about the code

* `bind_windows.go:63`: a listener on every address fails when only its IPv6 option fails,
  although the comment above says that this is ignored (`bind_wildcard`).
* `Close` of the Windows device can make `running.Wait` panic when a write or a read
  starts between the last `Done` and the waiter's wake-up; with two blocked readers
  it can wait for ever, because the event wakes one of them. Writers can keep it waiting too:
  `write` enters the wait group before it looks at the flag (`tun_windows.go:452`), gVisor writes
  from many goroutines, and while their calls overlap the counter does not come to 0.
* `tun_windows.go:123` drops the error of a route when a later range succeeds: `New`
  can return a device without its IPv4 route. A `New` that fails after the engine was
  opened leaves the engine session, and when the session cannot be started the adapter.
* `Close` of the Linux device gives the table back before it deletes the rules: a
  process started in between comes up and then loses its rules. `TrafficGoesRight` is
  therefore stated for a device that ran alone.
* With AutoRoute and IPv6, the rule for packets from the device's own address is
  never reached: both halves of the source space jump over it. With IPv4 it is.
* `nextIndex6` looks for a priority below the rules it finds and takes 0 below a rule at 1
  without looking at the rules that have it (the kernel's rule for the local table is one);
  `unsetRules` could then delete one of them. `DeletesItsOwn` leaves this priority out.
* Rules left by a crash with AutoRoute stay when the next run has AutoRoute off.
* A panic is possible in the dispatch loop when `Attach(nil)` clears the dispatcher
  while it is read.
* Registering a function twice registers it twice, although
  `interface_change_handler.go:27` says that the second call silently returns.
* `Free` of the loader leaves the exception table and the entry of the address ranges
  of a load that failed after they were made; an error of the hook stays for all later
  loads. Sections that share a page without sharing an alignment unit are not put
  together (`memmod_windows.go:194`): `PEImageAssumption` takes the alignment for a multiple of
  the page, as linkers produce it. A section that is to be written and executed may
  be only written in the zeroed part behind its data, which `VirtualProtect` does not cover.
* After an interface was renumbered, Windows and macOS bind to the old index until the
  next bind after a flush. A listener on `0.0.0.0:0` and, on macOS, a raw IP socket are
  left unbound.
* The UDP socket of the relay, `ListenPacket("udp", "")`, is an IPv6 socket that sends IPv4 too.
  On Windows its hook returns nil when only the IPv4 option failed (`bind_windows.go:49-67` looks
  at the error of the IPv6 option alone): its IPv4 packets are then not bound and can go into the tunnel.
  `NoLoop` holds of every family a socket sends in but for this case.
* `Reserve` can put the capacity of a buffer below its contents, after which `WriteByte`
  and `WriteZero` write into the reserved part and `Write` panics; `ReadFrom` returns 0 with
  `ErrShortBuffer`; `Release` of a referenced buffer does nothing, and `DecRef` never
  releases. The allocator wastes more than half below 32 bytes.
* When one direction of a relayed connection ends, the handler closes both: what is under way
  in the other direction is lost, also after an orderly half close. A UDP session ends when
  one direction is silent for ten seconds, however active the other is.
* A datagram of more than 10240 bytes is cut by the relay (`main.go:67`). On Windows reading one
  from the remote side is an error that ends the session, a stranger's too: it comes without an
  address, so that `ReadFrom` does not drop it.
* A TCP peer that stays connected and does not read keeps the handler although the other side
  has ended: `io.Copy` (`main.go:39`) sets no deadline for its writes.
* The lookup of a process on Linux does not compare addresses, so that of two sockets of one
  port it may find the other; a process that exits during the walk through `/proc`, related or
  not, ends it with an error. On macOS a later socket of UDP whose path cannot be read
  makes the lookup forget an earlier one. On Windows the error of `initWin32API` is dropped
  and `sync.Once` does not repeat it: the next call is to address zero.
* `FlushIPAddresses` ignores an address that it could not delete, `FlushRoutes` reports a
  route: after a `SetIPAddresses` without error old addresses may still be there.
* `DefaultRouteInterface` looks at the destination, not at the mask, on Linux and macOS, and
  on Windows never chooses a route whose metrics add up to the largest number.
* A buffer of length zero panics in the vectorised write; a short `writev` is taken for a
  whole one.

## 6. Not modelled, and the plan

Not modelled: data of packets; checksum offload; DNS set-up on Linux and macOS (external
commands, which start in no order with respect to `TeardownDNS`); the instructions that
`performBaseRelocation` patches; struct layouts, getters and generated system calls (the
types of `winipcfg` and the bindings of `winsys` and `memmod`, a quarter of the code);
`internal/winfw`, which nothing calls; `NetVectorisedWriterWrapper`, which hands its buffers
to package `net`; the branches of `BufferedVectorisedWriter`, a writer
that nothing constructs, for one buffer and for none (`vectorised.go:47-54`). Simplified: a route of macOS names the unit of
its interface in the model and the gateway address of it in the code.

Next, in this order:

1. `Close` of the stack before `Start` has returned; `WritePackets` against `Close`.
2. `rateJuggler`: the decision between spinning and waiting, its two counters under
   concurrent readers; then `WinConfigure` as the environment in which `WinTunIO` starts.
