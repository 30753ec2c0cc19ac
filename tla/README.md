# pikonode: models, checks and proofs

pikonode keeps a WireGuard mesh: a daemon (`cmd/pikonoded`) asks a rendezvous
server which devices share a network with this one, mirrors them into a kernel
WireGuard interface, answers DNS queries for their names, and finds peers of
the same network segment by multicast.  A command line tool (`cmd/pikonodectl`)
logs in and edits networks.  This directory holds TLA+ modules that
model the daemon and its libraries, TLC configurations that check them on small
instances, and proofs that TLAPS checks.

Line numbers refer to the sources beside this directory.  `PROJECT.json` has the
same information for tools: components, runs, the map from definitions to lines,
the hazards, the mutants and the findings.

## The system

| component | source | state it keeps | operations |
|---|---|---|---|
| engine | `piko/engine.go` | `ourDevice`, `nwState` (cached networks), `peerState` (peer list), callbacks; one mutex | `handleGwMsg` and its handlers `rebuildState`, `handleJoin`, `handleLeave`, `handleUpdate`; `updatePeers` after each |
| REST client | `api/api.go`, `api/types.go` | none | requests for networks and devices |
| gateway | `api/gateway.go` | `a.ws`, `wsLock`, the backoff delay and timer; it fills the engine's channel `gw` (100 messages) | the dial loop, the read loop, `GatewaySend` |
| WireGuard mirror | `cmd/pikonoded/wg.go` | `wgLastPeers`, `wgLock` | `wgUpdatePeers`, `wgOnRebuild`, `wgOnUpdate` |
| device and interface | `net/wg`, `net/ifctl` | the kernel's peers; `li.routes` | `AddPeer`, `RemovePeer`, `AddRoute`, `SetIP` |
| local discovery | `cmd/pikonoded/broadcast.go`, `net/discov` | `seenPeers`, `seenMut`, the Hello ticker | `listenBroadcast`, `sendDiscovHello`, `onDiscovMessage`, `localPeer` |
| DNS server | `net/dns/server.go`, `parser.go`, `serializer.go` | a pool of buffers; a goroutine for each query | `Listen`, `handleQuery`, `fallbackResolve`, `fail` |
| name map | `cmd/pikonoded/dns.go` | `dnsMap`, `dnsMut` | `dnsUpdatePeers`, `lookupDns` |
| daemon | `cmd/pikonoded/daemon.go` | the globals above; `wgDev`, the signal channel; in the kernel the interface, in the system the resolver's record | `main`, `startup`, `bringupDns`, `takedownDns`, `startPikopunch`, `updateAddr` |
| punch client | `cmd/pikonoded/punch.go` | a socket for each call | `fetchEndpoint`: one call two seconds after startup and then every 20, the request repeated every 5 seconds, 30 seconds at most |
| configuration | `internal/config/config.go` | `Cfg`, and its JSON in a file that all programs share | `ReadConfigFile`, `SaveConfigFile` |
| command line tool | `cmd/pikonodectl` | none | `login`; commands that make one request |
| resolver | `net/dns/resolvconf` | the record `resolvconf` keeps for an interface's name | `SetDNS`, `UnsetDNS` |

How they interact:

- The gateway's goroutine **sends messages on a channel** to the engine's goroutine:
  `Connect`, `Disconnect`, and what the server pushes (`NetworkJoin`,
  `NetworkLeave`, `DeviceUpdate`).
- The engine **calls the REST API** while it handles a message: on `Connect` it
  rebuilds its cache, on a join of this device it fetches the network.  The
  answer is newer than the messages still queued.
- The engine **calls back** the mirror and the name map, from inside its handlers
  and under its own mutex.  The mirror takes `wgLock`, then `seenMut`; the name
  map takes `dnsMut`.
- Discovery **bypasses** the callbacks: a HELLO of a peer goes straight to the
  device, under the engine's mutex and `wgLock`, after `seenMut` was released.
- The DNS server **reads** the name map in its own goroutines.
- The punch goroutine **reports over the gateway** what the punch server answered:
  it waits for `wsLock`, which the gateway keeps while it is not connected.
- Several processes **share** the configuration file, the name of the interface
  and the record of the resolver, without a lock.

What is hard, and hard to test:

- *Snapshots that cross messages.*  The cache is rebuilt from an answer newer than
  the queue; the messages queued before are handled after.
- *Lost messages.*  A connection that drops loses what was not read; only a
  rebuild repairs that.  A rebuild may fail.
- *Slices that share an array.*  `fetchNetwork` returns the address of a copy:
  some writes reach the cache, some do not.
- *Two critical sections.*  A HELLO is remembered under one mutex and acted upon
  under another; the peer list may change in between.
- *Errors that are dropped.*  The mirror ignores the errors of netlink and wgctrl,
  and remembers a peer as mirrored whether or not it is.
- *Timers that were reset too late.*  In Go 1.20 (`go.mod`) `Reset` leaves a tick
  that already fired in its channel, and another goroutine may hold one it has taken.
- *Buffers that are aliased.*  The labels of a parsed query alias a pooled buffer.
- *Recursion driven by input.*  Compressed names point anywhere in a message.
- *Waiting.*  Four mutexes, a bounded channel, requests without a timeout.
- *Answers that come late.*  A punch request is repeated, its answer may come
  when the call is over, and the report may wait for minutes.
- *A startup that fails half way*, a process that is killed, and a second daemon
  beside the first: who has the interface, who takes down whose resolver?
- *A file that is truncated and then written*, by programs that read it before.

`PROJECT.json` lists each hazard at the line where it bites, with the properties
that would catch it or the reason why none does yet.

## The modules

```
Engine ── DnsMap ── MCEngine, MCDns           handlers + name map
   ├── EngineProofs
   └── WgSync ── MCWgSync                     handlers + mirror + discovery handler
         ├── NodeProofs                       (EXTENDS EngineProofs)
         └── PikoNode ── MCPikoNode           ... + server, queue, connection
                └── PikoProofs                (EXTENDS NodeProofs)
Gateway ── Punch ── MCGateway                 the inside of the connection + reports
   │         └── GatewayProofs
   └── GatewayFeed                            what it promises (INSTANCE)
ConfigStore ── Lifecycle ── MCDaemon          the file + startup, interface, resolver
                  └── DaemonProofs
Discovery, HelloWire ── MCDiscovery           several daemons on a segment, octets of HELLOs
   └── DiscoveryProofs                        (of both)
DnsServer ── MCDnsServer, MCDns               goroutines and buffers of queries
   └── DnsProofs                              (and of DnsMap and DnsWire)
DnsWire ── MCWire, MCDns                      octets of messages
Locks ── MCLocks                              what each goroutine waits for
   └── LocksProofs
```

Conventions: a device ID stands for the device's name, public key and IP, which no
request changes.  `now`, delays and periods are counted in units.  A variable
called *history* in its comment exists for a property only: no guard reads it.
An operator `Bug...` is a faulty variant of the definition after it; no
specification uses it, it shows that a property can tell the difference.

### Engine

`nwState`, `peerState` and `ourDevice` are the fields of the same names;
`peerState` is a set, since nothing in the daemon observes its order.  A handler runs
under the mutex from its first statement to the last callback, so `RebuildState`,
`HandleJoin`, `HandleLeave` and `HandleUpdate` are one action each, and `UpdatePeers`
is part of each.  `FetchNetwork` (engine.go 76-85) returns the address of a
*copy* of a cached network whose device slice shares its array with the cached one.
Hence the three different ways its callers work: the append of `handleJoin`
(236) and the truncation of `handleLeave` (292) change the copy only, and
`handleUpdate`, which walks the cache itself, reaches it.  `LeavePanics` is
the loop of 284-294, which goes on after it truncated the slice it indexes.
In `Engine` the environment is free: any answer in `ApiNetworks`, any message in
any order.  What is proved about `EngineSpec` needs nothing of the server.

### DnsMap

`DnsUpdatePeers` is `dnsUpdatePeers` (dns.go 79-91): enter every peer, then
this device, delete nothing.  Names that collide after `domainify` are what `key`
is for.  `Named` joins it to whichever handler ran to its callbacks.

### WgSync

`WgUpdatePeers` is `wgUpdatePeers` (wg.go 85-138) with `AddPeer` and `RemovePeer`
(wgctrl.go) and `AddRoute` (if_linux.go): `Configured` has the peers whose
`AddPeer` reaches the kernel, `Merged` what the kernel does to a peer it knows.
`noRoute` and `noConf` are the calls that fail in a step; the errors are ignored
as in the code.  `OnHello` and `OnHelloLocked` are the two critical sections
of `onDiscovMessage`, with `hello` between them.  `Valid` is translated as
written, with its reversed comparison.

### PikoNode

`WgSync` with the server: `members` and `info` are the server's, `gw` is the channel
together with what the websocket holds, oldest first.  `OnConnect` and
`OnNetworkJoin` take the answers of the server *at that moment*.  `LinkDown(k)`
loses the messages after position k.  `ServerAssumption` asks of the constant
`ApiNetworks` to have every answer the server can give, so that `Engine`, which takes
any of them, covers this module, and of the server to have finitely many devices and
networks; TLC evaluates it in each of its runs.  The server is not in the repository; it is
modelled from the requests and messages of `api/` (external in the map).

### Gateway, GatewayFeed

`pc` walks through `API.Gateway` (gateway.go 75-126) and `gwReadLoop`, `spc` through
`GatewaySend`.  `lock` is `wsLock`, held by Gateway from the start to the
first connection and from the end of each to the beginning of the next.  `timer` and
`tick` are a Go 1.20 timer: what is armed, and what sits in its channel.
`GatewayFeed` is the abstract specification the engine relies on: sessions
that open with `Connect` and close with `Disconnect`.  `Gateway` implements it
under `last <- sent` (property `IsFeed`).

### Punch

`Gateway` with its one sender.  `BeginFetch`, `Retry`, `GiveUp` and `ReadAnswer` are
`fetchEndpoint`: a socket of its own for each call (`CloseSocket` is the deferred
close), a request at once and again at any time, a timeout that closes the socket
under the read.  `ReadAnswer` ends in `GatewaySend`, which waits for `wsLock` and may
then tell an endpoint this device no longer has.  `Roam` changes the endpoint as
the world sees it.  `ReadEmpty` is the slice bound `n-1` of an empty datagram: the
process dies (`Up`).  Which device a report names is left out.

### ConfigStore, Lifecycle

`ConfigStore` has the file as cells of the texts written to it: `Create`
truncates, `Encode` writes at offset 0 whatever the file has become since, `Decode`
takes the first value (a JSON decoder does not look at what follows).  Each is a step
of its own, and every program may fail, or be gone, between any two.  `Tool` is
`pikonodectl login`.  The user may enter a device (`Edit`), as no program does, and remove
a file nobody can read.

`Lifecycle` follows `main` and `startup` place by place (`at`).  `NewDevice` fails
while the name is taken, `Close` may stop before `Delete`, `Configure` closes the
device and leaves `wgDev` set, so that `CloseDevice` closes it again.  Calls on the
interface go by index (`Ours`), `UnsetDNS` by name.  `Kill` may come at any place:
a signal that is not handled, or a panic.

### Discovery

For each daemon two goroutines share a ticker: `main` is `listenBroadcast`,
`listen` is `Discovery.Listen`, whose handler answers.  Each step that the other goroutine
may see or disturb is an action: taking the tick from the channel (`TakeTick`), the `Reset` of
`sendDiscovHello` (`FirstHello`, `AutoHello`, `ResetForReply`) and its `Send` (`SendHello`,
`SendReply`).  `air` holds a multicast datagram once for each receiver, so each may
get it late or never.

### DnsServer, DnsWire

`DnsServer` has a goroutine for each query and the pool of buffers.  `content`
says whose ID and whose labels a buffer holds; the labels of a parsed query are
what its buffer holds *when they are read*, for they alias it.  `TakeAnswer` relays whatever
the other server sends: `fallbackResolve` looks at neither its ID nor its question.  A write to
the client may fail (`ReplyFails`), and nobody looks at its error.  `DnsWire` has
the octets: `ParseLabels`, `ParseQuestions`, `ParseRecords`, `ParseDNSMessage`, and
`Serialize`, and the three ways a message leaves the server (`Relay`, `Answer`,
`SendFailure`).  A loop or recursion of the parser is a recursive function of the place it
has come to: `NameAt` is the body of `parseLabels` at an offset and a depth of pointers, and
`RecordsAt` what `parseRecordSection` does at an offset with so many records to go; each takes
the function of the other places as a parameter.  `ParseDNSMessage` is the function of
the four sections, each read where the one before ended.

`parseLabels` ignores the high bits 01 and 10 of a length octet, and with them a label may
have no octets.  The serializer writes it as the octet that ends a name, so a message with
such a name does not parse back: `SentMessagesParse` leaves those out (`NamesSpelled`), and
the reply that is only a header, which `parseDNSMessage` refuses.

What another implementation may write is a relation, `MessageWritten`: labels that end with a
zero or with a pointer to any other name (RFC 1035, 4.1.4).  An arrival with a
meaning brings a witness of it: `names`, for offsets the name that begins there, where its
octets end and how many pointers lead on from it, and `at`, the offsets of the items.
`MaxPointers` is the one limit the parser sets: five pointers are followed, and the octets
of a sixth are taken for a label (with `MaxPointers == 6`, TLC finds `CompressionUndone`
violated by the chain of `MCWire`).

### HelloWire

`Hear` is a round of `Discovery.Listen`: `ReadFrom` writes over the front of the one
buffer, `Accepted` looks at the length and the magic, `Parse` reads the buffer at fixed
offsets, whatever the datagram's length.  Keys are shorter (`KeyLen`) and so is the buffer
(`BufLen`).

### Locks

Each goroutine runs *programs*: sequences of the operations it may wait at (`lock`,
`put`, `await`) and of the calls of the device.  The programs are read off the
functions; the definitions have their names.  `WaitsFor(t, u)` says that what t waits
for is u's to do: to release a mutex, or to take a message.

## What the runs check

| run | size | what it shows |
|---|---|---|
| `wgsync` | 248k | The mirror with failing netlink calls.  `LastPeersTrackPeers` states the one way in which the mirror and the peer list part; `PeersConfigured`, `LostPeersLeaveKernel` hold while no call failed, `PeersStayConfigured` whatever fails; `StraysOnlyFromUpdates`: a HELLO never brings a stranger into the kernel. |
| `node` | 2.7M | Stale and lost messages and failed requests; in each behaviour either the membership of two networks or the endpoints in one network change (`focus`).  Once the queue is empty, and nothing happened since the last rebuild, the peers and the mirror are those who share a network with us (`SettledPeersAreRight`), the cached networks ours (`SettledNetworksAreOurs`), and the cached records fresh (`SettledCacheIsFresh`). |
| `gateway` | 167k | The gateway and the reports.  `SendersSeeLatest`, `WaitEnds`, `BackoffRespected`; it is a `GatewayFeed` (`IsFeed`); no late answer is taken for one to a later call (`ReportIsFresh`); under fairness a call of `GatewaySend` returns (`SendReturns`), and once the connection and our endpoint change no more the last report written has that endpoint, from some time on for good (`ReportsSettle`). |
| `daemon` | 262k | Two daemons, one started while the other runs, or a daemon and a login; every call may fail.  The file: `SavesStayReadable`, `TurnsLoseNothing`.  The machine: nobody takes the interface from a daemon that uses it, even when devices are closed twice (`DeviceIsOurs`), nothing is left behind but by a kill or a failed clean-up (`NothingLeftBehind`), and a running daemon's resolver stays, with one exception (`ResolverKept`).  A SIGINT is heeded (`InterruptHeeded`). |
| `discovery` | 149k | Two daemons: one sends three Hellos while the other starts and nothing is lost, or two while datagrams are lost and sockets fail; the two goroutines of each cross in every way (`scene`).  `listenBroadcast` begins at most two Hellos within a minute (`HelloRate`); Hellos and replies die out (`FloodEnds`); two daemons learn of each other whichever starts first, if no datagram is lost (`MutualDiscovery`); a socket that fails while it is read ends `listenBroadcast` (`ReadErrorReturned`).  HELLOs among foreign datagrams of every length are heard as they were said, and no other than those that begin as one does (`HellosHeardAsSaid`). |
| `dns` | 797k | The name service; a behaviour has one of its parts (`part`). *The server*, two queries: no buffer is used twice at a time (`DnsTypeOK`); each client gets one reply at most, with its own ID and labels or what the other server sent for it, which was asked the client's query (`RepliesMatchQueries`); a query the other server is not needed for is answered though another waits for ever (`OthersNotHeldUp`).  *Engine and name map*, any answers, any messages, two cached networks that disagree about a device: this device is never its own peer and no device twice (`PeerListSound`); the peers are the devices the cache lists, but for the state a failed rebuild leaves (`PeersMatchCache`); a peer's name leads to the peer, unless shared, and our own home (`PeersAreNamed`).  *The octets*: the parser never panics on any string of up to six octets of interest behind a header (`ParserNeverPanics`); it undoes every compression of the names of a question and two records, and a chain of five pointers (`CompressionUndone`); what the server sends parses back if no label of it is empty (`SentMessagesParse`). |
| `locks` | 56k | Startup that may fail at each call, and what runs beside it.  No two calls that change peers overlap (`PeerCallsSerialized`); no goroutines wait for each other in a circle (`NoCircularWait`); if the server answers or refuses, every goroutine goes on (`NobodyWaitsForEver`); a lookup returns even if the server hangs (`LookupsReturn`). |
| `wgsync_local`, `node_join`, `node_panic`, `engine_rebuild`, `dns_fallback` | | Violations: see the findings. |

Each property of a passing run has a mutant in `PROJECT.json`, a plausible bug in
one definition that makes TLC find the property violated.  The types of most modules
are not in the runs: TLAPS proves them (below).

### Bounds

- `MaxCached` (dns 2, wgsync 1; a state constraint).  `handleSelfJoin` appends a
  network even if it is cached, so the cache has no bound of its own.  Two entries
  are what it takes for networks to disagree or to be listed twice; the mirror
  sees only the peer list, for which one network with members that come and go is enough.
- `MaxQueue` (3): messages under way.  Three hold a stale message, a `Disconnect` and
  the `Connect` behind it.  `SettledCacheIsFresh` was also checked with four.
- `focus` (node): one of the networks, or "all".  A behaviour has endpoint updates in one
  network, or two networks and no updates: `handleUpdate` touches one record wherever
  it is, so the two do not combine into a new case.
- `Roaming` (one device): updates of different devices do not meet.
- `MaxNow`, `Grace` (wgsync, 1): one unit separates a recent HELLO from an old one.
- `MaxDelay` (gateway, 3) is reached by one doubling and the cap; connections
  count 1, 2, 1, 2, enough to tell the latest from the one before.  `ChanCap` (1 instead of
  100): a full channel is the interesting case.  `MaxMoves` (1): one endpoint is
  stale, one is not.  `EmptyAnswers`: the punch server may send an empty datagram.
- `Together` (daemon): the sets of programs used in one behaviour, two daemons or a
  daemon and the tool; each pair that can meet is there.  `MaxTokens` (2): the token
  before a login and after.  `MaxNames` (2): one entry of each daemon.
- `Minute` (discovery, 2), so that a tick may fall inside a minute.  `MaxHellos`: three Hellos of one
  daemon, which is what it takes to break `HelloRate`, and one of the other, whose Hello and
  answer reset the ticker at any point.  `MaxRough`: where datagrams are lost, two and one.  The ticker
  of a daemon that is to send no automatic Hello stands still.
- `MaxBufs` (dns, 6): three roles for each of two queries, so the bound never bites.
- `MaxOctets` (dns, 6) over lengths that fit and do not, the end of a name, and
  pointers to the header, to the name itself and past the end, and the high bits 01:
  loops of pointers, and names cut off at each place, need no more.  Messages with a
  meaning have two names with a common end, and one chain as deep as the parser goes.  In `discovery`,
  `KeyLen` is 2 and `BufLen` 11: a whole
  HELLO, and one with a tail that the buffer cuts off.
- `QueueCap` (locks, 1 instead of 100): as `ChanCap`.

### Fairness

- `gateway`: the goroutine takes its steps (weak).  `Relock` and `SendLock` are strong,
  for a Go mutex lets no waiter starve.  `DialOk` is strong: of infinitely many dials
  one succeeds; without it `SendReturns` is false, since `GatewaySend` ignores
  its context while it waits.  The engine takes messages, and time passes (weak).
  Whether a connection breaks, and whether a caller cancels, is never fair.
  For the reports (`FairPunchSpec`): a call begins and ends (weak: tickers and the timeout),
  of infinitely many requests one is answered, and of infinitely many answers one
  is read before its call gives up (strong).  `ReportsSettle` is about a connection
  that stays up; without the strong fairness the network loses every datagram.
- `daemon` (`FairLifeSpec`): the goroutine of `main` runs, and each of its requests is
  answered or fails (weak).  `http.DefaultClient` has no timeout, so the second is an
  assumption about the server; without it a SIGINT during startup is never heeded.
- `discovery`: sockets open or fail, goroutines run, each datagram arrives or
  is lost (weak).  The clock needs no fairness, nor does `listenBroadcast` have to prefer
  a tick to an error.
- `dns`: the listener and the steps of a goroutine that wait for nobody (weak).
  The other server need not answer.
- `locks`: strong for operations, as mutexes and channels serve waiters in order.
  Answers of the server are *not* in the fairness: `http.DefaultClient` has no timeout.
  `NobodyWaitsForEver` has them as a hypothesis (`ServerAnswers`); `LookupsReturn` does
  without.
- `wgsync` and `node` check safety only, as do the parts of `dns` beside the server.

Deadlock is not checked where the system may stop: a handler that panics ends
the process, a queue at its bound with nothing to handle, all Hellos sent, all
queries done, a context that was cancelled.

## Findings

1. `node_join`: a device that joins a network of ours does not become a peer
   until the next rebuild, since `handleJoin` appends to a copy (engine.go 80, 236).
2. `node_panic`: the leave of a device that is not last in its list panics
   (engine.go 284-294).
3. `wgsync_local`: `Valid` has its comparison reversed (broadcast.go 42), so the
   local endpoint is never used by `wgUpdatePeers`.
4. `engine_rebuild`: "rebuildState fully rebuilds the state objects" (engine.go 87), but
   `updatePeers` keeps the record of a device that is still listed, so a peer may show an
   endpoint that the answer no longer has.
5. `dns_fallback`: "Otherwise, it returns NXDOMAIN" (server.go 83), but a dial or read that fails
   and an answer that cannot be parsed leave the client without a reply, which is what the run finds;
   and "Fallback is used when a Pikonet address returns no results" (server.go 16), but an unknown
   name of the suffix gets NXDOMAIN and is never passed on, which violates the same property
   (`FallbackAsDocumented`).

Other behaviour met while modelling, which the modules have and the properties
state as an exception or leave alone:

- A device that leaves stays a peer until the next rebuild (the truncation of
  `handleLeave` lands in the copy), when it does not panic.
- A join of this device handled after the rebuild that already has it caches the
  network twice.
- A device that leaves, moves to another endpoint and joins again while messages
  are queued: the cache keeps an old record, for its join's record is lost.
  `SettledCacheIsFresh` excepts it (`steady`).
- A failed rebuild leaves an empty cache beside the old peers, and nothing retries.
- An update adds its device to the kernel, peer or not, and nothing takes it out
  (`StraysOnlyFromUpdates`).
- The first failed dial waits two units rather than one, and the tick of
  `NewTimer(0)` lets the second dial follow at once (`stale` in `BackoffRespected`).
- "Don't send another automatic Hello for at least another minute" (broadcast.go 96), but `Reset`
  leaves a tick in the channel, or in the hands of `listenBroadcast`, and the Hello follows at once.
  What holds is `HelloRate`.
- "Always use a mutex when using a device from multiple goroutines" (net/wg/wg.go 16), but
  `wgOnRebuild` calls `SetIP` without `wgLock` (`PeerCallsSerialized` excepts it).
- A socket that cannot be opened leaves `listenBroadcast` waiting for `Ready` for ever.
- Whatever the other server sends is relayed to the client, be it an answer to its query or not.
- A name behind more than five pointers is misread: the sixth one's two octets are the length
  of a label and the first octet of it (`MaxPointers`).
- A length octet with the high bits 01 or 10 is taken for a length; the empty label
  behind one is relayed as the end of the name, and the rest of the message no longer fits
  (`SentMessagesParse` excepts it).
- Compressed names inside the data of a relayed record keep offsets that no longer
  fit; a message of twelve octets is refused.
- A save that is cut off between truncating and writing leaves a file that no program
  reads, not even `login`, until somebody removes it.
- A login writes back what it read before it asked the server, and a first start that
  found no file writes the defaults over one that is there by then
  (`TurnsLoseNothing` excepts saves that overlap).
- A killed daemon leaves its interface, and no daemon starts until it is removed.
- A device that cannot be configured is closed twice; the second close finds nothing
  of another daemon's (`DeviceIsOurs`), but `takedownDns`, which goes by name, then takes
  out the record of a daemon that has the name by then (`ResolverKept` excepts it).
- `startup` points the resolver at the name server without waiting for it to listen.
- A report that waited for `wsLock` may tell an endpoint this device no longer has; the
  next report corrects it (`ReportsSettle`).
- An empty datagram from the punch server panics the daemon.
- A HELLO cut short is heard, with octets of an earlier one in its key.
- `ourDevice` of the daemon is never assigned: `updateAddr` reports for device 0.  `Punch` leaves
  the device out of a report, and nothing is claimed of what the server makes of it.

## Proofs

`EngineProofs` proves, for every set of devices, networks and endpoints, every
`ApiNetworks` and every order of messages:

| theorem | states |
|---|---|
| `EngineTypeCorrect` | `EngineSpec => []EngineTypeOK` |
| `PeerListIsSound` | `EngineSpec => []PeerListSound` |
| `PeersAlwaysMatchCache` | `EngineSpec => []PeersMatchCache` |
| `UpdatePeersSound` | what `UpdatePeers` returns from any cache and any old list |

The assumptions are those of `Engine`: `Self` is a device, `ApiNetworks` are
networks.  The inductive invariant is the conjunction `EngineTypeOK /\
PeerListSound /\ PeersMatchCache`; none of the last two is inductive alone.
`PeerListSound` needs the types, for a record found in the cache must be a device's;
`PeersMatchCache` needs no device twice among the peers that stay.  The argument: the search of `FirstListed`
ends at a record of the device sought (`FirstListedFinds`, which rests on `MinInSet`: the
library's `Min` picks a member), so `UpdatePeers` keeps one record for each
listed device but this one, whatever it was given (`UpdatePeersSound`).  Each
handler leaves a cache of networks (`RebuildTyped`, `SelfLeaveTyped`,
`WithUpdateTyped`) and ends with `UpdatePeers`, which establishes the invariant anew
(`RefreshKeepsInv`); a failed rebuild empties the cache, and a panic changes nothing but
`crashed`.

`NodeProofs` proves of the daemon's WireGuard side, whatever calls fail and however
HELLOs interleave:

| theorem | states |
|---|---|
| `NodeImplementsEngine` | `NodeSpec => EngineSpec` |
| `MirrorTracksPeers` | `NodeSpec => []LastPeersTrackPeers` |
| `MirroredPeersAreConfigured` | `NodeSpec => []PeersConfigured` |
| `LostPeersAlwaysLeave` | `NodeSpec => LostPeersLeaveKernel` |
| `StraysOnlyComeFromUpdates` | `NodeSpec => StraysOnlyFromUpdates` |
| `PeersAlwaysStayConfigured` | `NodeSpec => PeersStayConfigured` |

A step of `WgSync` is a handler's step or leaves the engine alone, so the
theorems of `EngineProofs` carry over.  `LastPeersTrackPeers` rests on
`PeersMatchCache`: `handleUpdate` does not refresh the mirror, and while a network is
cached it changes no IDs (`WithUpdateKeepsIds`, `UpdateKeepsListed`), so the peer
list it computes has the devices it had; beside an empty cache it empties the list,
which is the exception.  `PeersConfigured` is not inductive: `AddRoute` asks
for a route once, so one needs that all routes ever asked for exist while no
call failed, and the kernel ignores this device's key, so the mirror must not hold it.
`KernelInv` says so.  The three action properties follow from what
`wgUpdatePeers` (`WgUpdatePeersStep`) and the steps that only add
(`AddingStep`) do to the kernel; that a HELLO brings no stranger needs
`LastPeersTrackPeers`, for the handler asks the engine and not the mirror.

`WgTypeCorrect` gives the types of the mirror and the kernel, for the composition below.

### The daemon with the server

`PikoProofs`: `PikoTypeCorrect` and `PikoImplementsNode` (`PikoSpec => NodeSpec`).  The
server's answers are in `ApiNetworks` by `ServerAssumption`, what waits in the queue
keeps the types of the messages (`SendTyped`), and so each message handled is one
`WgSync` allows; what the server and the link do leaves the daemon alone.  With
`NodeImplementsEngine` every theorem above holds of the composition.
`DnsProofs` does the same for the name map (`DnsMapImplementsEngine`), and proves
`PeersAreNamed`: every handler that changes the peer list ends in a pass over all
peers (`PeersAlwaysNamed`).

| theorem | states |
|---|---|
| `CacheInvariance` | `PikoSpec => []` of the inductive invariant below |
| `PeersSettleRight` | `PikoSpec => []SettledPeersAreRight` |
| `NetworksSettleRight` | `PikoSpec => []SettledNetworksAreOurs` |
| `CacheSettlesFresh` | `PikoSpec => []SettledCacheIsFresh` |

for any number of devices, networks and endpoints, any length of the queue and any
number of sessions.  The three properties speak of states in which nothing waits; their
inductive invariant has to say what is right while something does:

- `QueueInv` is about the queue and the server only.  While the connection is up every
  `Disconnect` that waits has a `Connect` behind it (`Reconnected`).  Of the messages
  behind the last `Connect` (`After`), joins and leaves of this device in one network
  take turns, and the last is what the server has (`Alternating`); while nobody joined
  or left there are only updates, of devices that matter to this one, and the last
  for each device is what the server has (`UpToDate`).
- `CacheInv` is about the cache and the queue.  Since the last rebuild that succeeded,
  peers and mirror are the cached devices, the empty cache included (`PeersCaught`,
  which `PeersMatchCache` says of a cache that is not empty only).  Once the last
  `Connect` was handled (`Caught`), every cached network has the server's members
  (`CacheComplete`); what the cache lacks some join that waits brings, and what it has too
  much some leave takes, with no join before it (`CacheOwed`); an old record has its
  update under way (`CacheFresh`).

`Connect` establishes the second from the server's answer (`RebuildCaches`): nothing is
lacking, and whatever waits is about the past.  `Alternating` keeps it afterwards.  A stale
join that caches a network this device has left must be followed by the leave
(`OwnTurn`), so the network was not cached before, and the leave finds the only
entry; a stale leave of a network this device is in must be followed by the join.  That is
why `handleSelfLeave` may drop the first entry it finds, and why a stale join that
caches the network twice does no harm.  For the records: a device that moves and is
in a cached network shares it with this one, for a network of others is cached only while
a leave waits, and while nobody leaves none does; so its update is sent
(`MoveKeepsCache`).  Each property is then the invariant with an empty queue
(`NothingOwed`).  None of it needs that requests succeed: a failed one ends
`settled`.  TLC checked the invariant on the instance of `node` before it was proved.

### The gateway and the reports

| theorem | states |
|---|---|
| `GatewayTypeCorrect` | `Spec => []GatewayTypeOK` |
| `SendersAlwaysSeeLatest` | `Spec => []SendersSeeLatest` |
| `WaitsAlwaysEnd` | `Spec => []WaitEnds` |
| `FeedHasSessions` | `Spec => IsFeed` (the refinement of `GatewayFeed`) |
| `BackoffAlwaysRespected` | `Spec => BackoffRespected` |
| `PunchUsesGateway` | `PunchSpec => Spec` |
| `ReportsAreFresh` | `PunchSpec => []ReportIsFresh` |

for any number of senders, any capacity of the channel and any longest delay.  The
inductive invariant `GatewayInv` adds to the types: whose the lock is at each place
(`LockKept`), that the connection is published wherever the lock is not Gateway's
(`Published`), that the timer runs, or has fired, wherever the goroutine is going to wait
(`TimerSet`), and the last message sent (`SentMatches`).  None of the properties is
inductive: each needs what the place before promised.  For the reports, what waits in
the socket was seen since the call began, for the socket is closed with the call.

### Discovery and DNS

`HellosAreRated` (`Spec => HelloRate`) for any number of daemons and any minute, however long a
goroutine is held up between two steps.  `TickerSet` is the invariant: once the ticker's
period is over a minute has passed since the last Hello began, for each begins with a `Reset`;
so a tick, left in the channel or taken, means a minute since the Hello before the last, and a
tick in the channel beside a taken one means a minute since the last.

`HellosAlwaysHeard` (`HelloSpec => []HellosHeardAsSaid`) for keys and buffers of any length
and any other datagrams: what is heard is a function of the buffer, whose front is the
last datagram (`HelloInv`), whatever it held before (`ReadFromFront`), and the octets of
a HELLO are at the offsets `Parse` reads (`NewHelloOctets`).  It assumes keys of the fixed
length and ports of two octets (`HelloAssumption`, `OctetAssumption`): the daemon
passes `uint16(config.Cfg.ListenPort)` and the base64 text of a WireGuard key, which is
always of one length.

`BuffersOwnedOnce` and `RepliesAlwaysMatch` for any number of queries.  The labels of a
query are read from a buffer long after they were parsed; `DnsInv` says that the buffer keeps
them from the parse to the return (`Kept`), that what is sent is the query's own
(`Ready`), and that a reply is the last thing its goroutine does (`RepliesOwn`).

### The octets of DNS messages

| theorem | states |
|---|---|
| `ParserReturnsAlways` | `WireSpec => []ParserNeverPanics` |
| `SentAlwaysParses` | `WireSpec => []SentMessagesParse` |
| `CompressionAlwaysUndone` | `WireSpec => []CompressionUndone` |

for any messages received, of any octets, pointers and lengths up to the buffer.  They
assume that what is received fits `BufferLen`, the 64 KiB of the buffers `Listen` and
`fallbackResolve` read into (`WireAssumption`), and that the records the server adds have
fixed fields of eight octets and an address of at most sixteen (`AnswerAssumption`; a
`net.IP` has no more).  The third is about arrivals somebody wrote for a meaning:
`EncodingAssumption` says they are `MessageWritten`, with whatever witness, and the `dns`
run evaluates it for each of its messages.

A recursive function of TLA+ is *some* function that satisfies its equation, if there is
one.  That there is one is where the proof that the parser ends comes in: if what a body
gives at a place depends only on places of lower rank, the equation has a solution
(`FixedPoint`), shown by induction on the rank (`RankInduction`; an induction over subsets of
`Nat`, which needs no operator as parameter).  For names the rank is
`(6 - depth) * (Len + 1)` plus the octets left: a pointer may jump back but goes deeper, a
label stays at the depth and moves on.  For sections it is the number of items to go.
With the equation come the results: no name is read at a depth above five, so "too deep" is
never reached, a name stays within the message, and the sum of 16 bits of
`parseRecordSection` wraps in no message that fits a buffer.

For the other direction `Holds(msg, at, o)` says that `o` is in `msg` at an offset, and
`Flattened` that the parts of a concatenation begin where the ones before end.  A label is read
where it is written (`LabelRead`), a name from its last label to its first (`NameRead`), a
section from its last item to its first (`QuestionsRead`, `RecordsRead`), and the four
sections one after the other (`SectionsFollow`, `MessageRead`).  The counts in the header are two octets each:
`SentInv`, the inductive invariant, has each section shorter than 65536 items, for the
parser needed octets for each, and one answer more still fits.

For the messages of others the induction is again on the rank of the places of names
(`NameMeant`): at a depth from which no more than five pointers are followed, a
name is parsed to its labels, to where its octets end.  A label leaves the pointers to
follow as they are, a pointer takes one off them and adds one to the depth.  A section is
parsed item by item from place to place (`SectionPlaced`, which `SectionRead` uses too), so
`MessageMeant` holds for every message, and `MeantInv` says that what arrived with a
meaning has a witness.

### The daemon's life and the file

| theorem | states |
|---|---|
| `LifeTypeCorrect` | `LifeSpec => []LifeTypeOK` |
| `DevicesStayOurs` | `LifeSpec => []DeviceIsOurs` |
| `NothingEverLeftBehind` | `LifeSpec => []NothingLeftBehind` |
| `ResolverIsKept` | `LifeSpec => ResolverKept` |
| `SavesAlwaysReadable` | `LifeSpec => []SavesStayReadable` |
| `TurnsAlwaysLoseNothing` | `LifeSpec => []TurnsLoseNothing` |

for any number of daemons and tools.  `LifeInv` ties the place of a daemon to its
device (`Owned`), and the interface to a daemon that will still close it (`NoOrphan`).
`SavesStayReadable` is inductive with the types: whatever is written over, the text
written is found at the front (`WrittenIsFound`).  `TurnsLoseNothing` needs `TurnsInv`: at
most one program is between reading and saving, and `Turn` says what it holds and finds
there; a text alone is decoded as nothing else (`TextDecodes`).

### The locks

| theorem | states |
|---|---|
| `LocksInvariance` | `Spec => []` of the inductive invariant below |
| `PeerCallsAlwaysSerialized` | `Spec => []PeerCallsSerialized` |
| `WaitsNeverCircular` | `Spec => []NoCircularWait` |

for every capacity of the channel.  The state is what each goroutine has left to do, a
sequence.  `InsideAt` reads off it which mutexes are held there: those it comes to
unlock before it locks them.  `LocksInv` says that those are the ones whose holder the
goroutine is; that a mutex is taken only with mutexes of lower `Rank` held (the
engine's, then `wgLock` or `dnsMut`, then `seenMut`), a message put with none, and a
call for peers made with `wgLock` (`Disciplined`); and that a call under way is the next
to return.  That the programs are so is shown of the pieces they are composed of
(`HeldPiece`, `ConcatPiece`, up to `MainPieces`), and what is left of one is so
once its first operation is done (`TailDisciplined`).  Two calls for peers would make two
holders of `wgLock`.  Along a chain of goroutines that wait for each other the ranks
grow, and a goroutine at the channel holds none, so no chain closes: any
set of goroutines has one that waits for none of them.

### Only model-checked

- Liveness: `SendReturns`, `ReportsSettle`, `InterruptHeeded`, `FloodEnds`,
  `MutualDiscovery`, `ReadErrorReturned`, `OthersNotHeldUp`, `NobodyWaitsForEver`,
  `LookupsReturn`.  The provers here have no rules for fairness and `ENABLED`;
  `NoCircularWait` is the part of `NobodyWaitsForEver` that is a safety property.
- The violations of the findings: a counterexample is all they need.

## What is not modelled

- The user space TUN device (`newTUNWireguard`), which adds an error path to `New`.
- The choice of interfaces to multicast on, and an error of the DNS listener's socket.
- The commands of the tool but `login`: each makes one request and prints the answer.
- The text of `resolv.conf`, the flags of a DNS header, the encoding of requests.
- Code without a caller (`rendezvous.go`, `DeleteRoute`, `From`), code commented out
  (`unix.go`), and Windows.

## Plan

1. `MutualDiscovery` and `ReportsSettle` with three daemons and two moves.
2. `LocalEndpointUsed` with the comparison of `Valid` the right way round, as a theorem
   about the mirror that the repaired code would have.
