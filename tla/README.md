# On-demand routing: models, checks and proofs

A TLA+ development for the ODR time service: daemons that discover routes on
demand over raw Ethernet frames (`src/odr_aa19.c`, `src/odr.h`, `src/rtbl.h`),
clients that ask for the time of a remote machine (`src/client_aa19.c`), and the
time server (`src/server_aa19.c`), joined on each machine by Unix-domain
datagram sockets (`src/common.h`).

## 1. The system

| component | state | operations | talks to |
|---|---|---|---|
| link layer senders (`odr_aa19.c:17-127`) | frames in transit | `broadcast_ll_msg`, `send_ll_msg`, `send_payload` | other daemons |
| routing table (`rtbl.h`) | a list of entries: key, next hop, interface, hop count, time stamp | `update_rtbl_entry`, `entry_exists_for_src`, `get_rtbl_entry` | called by the daemon |
| daemon (`odr_aa19.c:231-767`) | table, `latest_rreq` (newest broadcast id of each node, a `char`), `running_broadcast_no`, `route_discovered`, `forced_discovery`, `al_client_addr` | the select loop of `main`, `process_pack`, the handling of a client's datagram | all the others |
| client (`client_aa19.c`) | one socket per request | ask, wait 3 s, ask again with the forced flag, wait 3 s, give up; quit | its machine's daemon |
| time server (`server_aa19.c`) | none | answer a datagram | its machine's daemon |
| local sockets | datagram queues | send, receive | the three programs |
| interface discovery (`get_hw_addrs_aa19.c`, `fill_if_info_list`) | the list of interfaces | asks the kernel for the list until two answers agree, then for each address and index | the kernel; called by the daemon at its start |
| linked list (`list.h`) | the pointers in the structures on it | `list_add`, the reverse traversal | the routing table, the list of interfaces |
| scripts (`start_app`, `kill_apps`, ...) | none | copy, start and kill the programs | |

A request goes: client → daemon (Unix socket) → RREQ flood → RREP back to the
source → DATA to the destination → time server (Unix socket) → DATA back →
client. A daemon that has a route skips the discovery; a node on the way that has one
sends a RREP itself and lets the RREQ go on, marked as answered.

What is hard in this code, and what makes each part correct:

* *Routing table.* Copies of a RREQ arrive in any order and entries age. Next hops
  must be stations that exist, must not form a loop, and hop counts must be ones
  a path can have. A stale entry changes its next hop but not its hop count.
* *Discovery.* Each node sends a RREQ on once (the ids are kept in a `char`), the
  source ignores its own, one request makes one DATA packet though several RREPs
  arrive, and every packet on its way finds an entry to go on along.
* *Requests.* One flag (`route_discovered`) and one address (`al_client_addr`)
  stand for all requests a node has ever made; nothing relates a RREP or a reply
  to a request. The reply must be the one to the client's question.
* *The loop.* While a DATA packet waits for the time server the daemon reads
  the socket the clients write to, and afterwards looks at what an earlier
  select found. It must not block, exit or take one datagram for another.
* *Failure.* Frames are lost; daemons are killed and start again with empty
  tables and ids that count from 1; the server can be slower than the 3 seconds
  the daemon waits, and clients leave while a reply is under way.
* *Start-up.* The kernel may cut the list of addresses to the buffer without an
  error, the interfaces can change between any two ioctls, and an ioctl that fails
  leaves in its structure what was there. The daemon must take no cut list,
  and know every interface by its own address and index.
* *Lists.* Both lists are built by hand from pointers, a key must have one entry,
  and the routing table as a list must be the table the rest relies on.

`PROJECT.json` lists these hazards at their lines, with the properties for each.

## 2. Modules

| module | models | how it corresponds to the code |
|---|---|---|
| `Topology` | *external*: machines and Ethernet segments | a pair (node, segment) is an interface, its index and its hardware address; which machines share a segment is a constant |
| `LinkLayer` | the two senders and the wire | `chan[k]` holds the frames of one sender to one receiver on one segment, in order; frames of different senders are not ordered; a loss is an action; an interface with two addresses sends twice |
| `RoutingTable` | `rtbl.h` | pure operators on one table, a function from keys to entries |
| `UnixSockets` | the datagram sockets | queues of the daemon, of the server (a count) and of a client's newest socket; who is bound |
| `Odr` | the daemon | one action per branch of `process_pack` and of the loop of `main` |
| `ClientApp`, `ServerApp` | the two applications | one action per step of their loops |
| `OdrSystem` | the composition, its environment and fairness | |
| `RouteMemory` | *abstract*: what the tables promise | dated routes that are learnt, improved or, when stale, renewed |
| `TimeService` | *abstract*: what the service promises a client | a question, a reading of the asked server's clock, at most one answer |
| `OdrProperties` | the properties, and the two refinement mappings | |
| `MCOdr` | networks and clients for TLC | |
| `OdrProofs` | theorems of tables and floods, and the steps they rest on | |
| `OdrSteps` | lemmas: what a step can do to one link, one entry, one machine, one client | |
| `ServiceProofs` | theorems of replies, of the daemon's loop and of its exits | |
| `WayBackProofs` | the theorem of the way back | |
| `TokenProofs` | theorem of the one DATA packet of a request | |
| `AnswerProofs` | theorems of what a client is told, and the refinement of `TimeService` | |
| `LinkedList` | `list.h` | `next` and `prev` pointers, two lists in one heap |
| `RoutingList` | `rtbl.h` again, on the linked list | operators on a heap, one for each operator of `RoutingTable` |
| `InterfaceDiscovery` | `get_hw_addrs`, `fill_if_info_list` | one action per ioctl and per listed interface; the machine changes in between |
| `DaemonMemory` | one daemon from its start: discovery, then frames that update the table | |
| `MCMemory` | machines for TLC | |
| `ListProofs` | lemmas of `list.h` and of `rtbl.h` on it | |
| `MemoryProofs` | theorems of `DaemonMemory` | |

A daemon handles one event per action, with every send it makes. `pc` keeps what the
loop of `main` remembers between events: `unix` says that the select that found
a frame found a datagram too, which is read *after* the frame is handled, and
`await`/`awaitUnix` that the daemon is in the inner select for the time server's
answer. Only in these places can other daemons, clients or the
server step in between, so an action is atomic exactly where the code does nothing
that others could see half done (it sends several frames in a row, but a receiver
cannot tell whether the later ones are already on their way).

The table is modelled twice. `RoutingTable` says what `update_rtbl_entry` does to a
table; `RoutingList` follows the list it keeps, with the traversal that goes on
after a fresh entry and returns at a stale one, and the second run of a block
that an answered RREQ causes. `ListIsTable` compares the two for every packet in every
state of the list.

Mutants of an operator, named `<operator>_<what is wrong>`, stand before it.

### Refinement

* `RoutesRemembered` is `RouteMemory!Spec` with `table` for `rtbl`, and a daemon
  running as long as its `pc` is not `down`. Nothing about packets is left: whatever
  arrives, a step changes one entry of one table or is the end of one daemon.
* `ServiceKept` is `TimeService!Spec`. The phase of a client is computed from where
  the answer to it is: `served` when the time read for it is in its daemon's socket or
  in a DATA packet, `answered` when it is in the client's own socket. A client
  that has stopped waiting while the time is under way is still `served`, so that
  what comes late cannot pass for the answer to its next question.

### Undefined and unset values

Where the build could read anything, the model takes a constant set:

* `JunkHops`: `source_packet` is an uninitialized stack variable, and the hop counts
  of a DATA packet over a known route are whatever it holds the first time
  (`odr_aa19.c:550, 728`). After the first request they are those of that one.
* `JunkDests`: a server's answer that nobody waits for is read as a client's request;
  `inet_aton` fails and leaves the address in a fresh structure as it was
  (`odr_aa19.c:693-694`). `{Bogus}` stands for zeros; `hostile` adds a node's address.
* `JunkKeys`: `get_index_from_ip` reads an unset buffer for an address without a
  name (`odr.h:95-109`). Two look-ups of one address may differ, and the daemon may then
  exit; the runs take one value.
* `AddrLens`: `msg_recv` passes an unset address length (`common.h:66`); recvfrom
  then takes the datagram and reports an error, or works. `lossy` has both.
* `IpFits`: `is_self_dest` and `is_self_src` convert an address into a buffer
  that an address of 14 characters does not fit (`odr_aa19.c:175-229`). With
  `IpFits = FALSE` the comparison has any result: `short_buffers` runs so, the other
  runs take it to be TRUE. The addresses in the repository's own `hosts` file have 14
  characters, so as shipped `IpFits` is FALSE, and it is TRUE on a network with shorter ones.
  The theorems of tables and floods (`OdrProofs`), of lists (`MemoryProofs`) and
  `DaemonsHear` hold for both; all others assume `IpFits`, directly or in `Sound` or `Plain`.
* `Wrong`: what the union `ifr` held before an ioctl that failed
  (`get_hw_addrs_aa19.c:59-70`), whichever value that is.

### Bounds

| constant | bounds | reason it is enough |
|---|---|---|
| `Nodes`, `Attach` | the network | three nodes in a line have a source, a destination and a node between; a triangle has a direct and an indirect way; rings and `Chord` have two ways and let a RREQ come back to its source; `Kite` has a shared segment |
| `MaxRequests` | requests of one client | the state carried from one request to the next shows at the second |
| `MaxTime` | ticks of the clock | with `SP = 0` an entry is stale after one tick |
| `MaxCrashes`, `Mortal` | how many daemons are killed, and which may be | one restart loses one table; `known_route` spares the only relay and the server, without which no one can answer |
| `Calm` | daemons are killed and started between requests only | `known_route` only: a restart of the source in the middle of a request can make its daemon exit (see below) |
| `Aliased` | the interfaces with a second address | one at the source in `restart`: each RREQ goes out twice over it |
| `CHAR_HALF` | half the values of a `char`: 128 on the machine | 2 in `hostile`, so that the id of the second try already wraps; 128 elsewhere, where ids do not get so far |
| `MAXH` | the hop limit | 15 except in `hostile`, where it is 3, and in `short_buffers`, where 2 keeps packets that nobody owns from going on |
| `JunkHops` | the hop counts on the stack | 0 and one above `MAXH`: 9 in `hostile`, 16 in `two_clients`; 0 elsewhere |
| `Servers` | the machines with a time server | the one asked; in `hostile` both ends of the line, each beside the client that asks the other; none in `short_buffers`, where only the flood is looked at |
| `MaxCells` | the structures put on lists | 6 hold the most interfaces of `Machines`, three, and an entry for each key |
| `FirstCap`, `CapStep` | 100 and 10 in the code, 2 and 2 in the run | an answer can be shorter than the buffer, fill it, be cut to it, and fit the next one |
| `Refuses` | both kinds of kernel | one refuses a small buffer with EINVAL, one cuts the answer; the loop of `get_hw_addrs` is written for both |
| `Kernels`, `MaxChanges` | the lists of addresses a machine can have, and how often it changes | six, with aliases, with `lo` only, and empty; one change can fall between any two ioctls |
| `Hops` | the hop counts of packets in `DaemonMemory` | a shorter and a longer one: what the comparisons tell apart |

## 3. Runs

Switches tell how benign the environment is. `Lossy` lets segments lose
frames. `Patient` says that the client's 3 seconds outlast everything under way:
a wait then ends only when nothing is in transit. On the real network a round
trip takes milliseconds; without `Patient` any lateness is allowed.

| run | network | what it shows |
|---|---|---|
| `first_route` | `Chord`, one client | in every order of the copies of the flood: one DATA packet, no dropped RREP or DATA, no loop of next hops although b and d learn ways to the source from each other, and the client is answered at the first try |
| `known_route` | `Kite`, two requests; any daemon but c's and e's killed and restarted between them | the second request uses the route of the first, or finds another; each gets its own answer, at the second try if the source has restarted and its first id is taken for a duplicate; no daemon exits |
| `lossy` | `Ring4`, any frame may be lost, and recvfrom may report an error for a reply | no packet is stranded, a discovery (with its second try) never has two DATA packets under way, though a client may ask again for what it has been told, and the network falls silent |
| `restart` | `Ring4`, a crash and a restart of any daemon at any moment; an alias | no loop, hop counts a path can have, right replies, no own RREQ sent on; every RREQ is sent on once by each node, in the order of the ids 1 and 2, though copies come over two links and each twice; until the crash every answer finds its way back |
| `two_clients` | `Triangle`, clients on two nodes; a first packet over a known route may have hop counts above the limit | both get their own reply, at the second try at the latest; no daemon exits |
| `hostile` | `Line3`; at each end a client beside a server, each asking the other end; slow servers, junk, stale entries, wrapping ids | a request read for an answer and an answer read for a request, on both ends at once: types, next hops that exist, tables that keep `RouteMemory`, no reply with another server's time, no daemon that blocks on its empty socket or exits before its client has left |
| `short_buffers` | `Triangle`; addresses that do not fit, no server, a crash of the source | each RREQ is sent on once by each node even if a daemon may take any packet for its own or for another's, and the source counts from 1 again |
| `daemon_memory` | one daemon with up to four interfaces | the list of interfaces is whole and true, both lists stay lists, the routing table is the one of `RoutingTable`, and the discovery ends |
| `rrep_to_destination` | `Line3`, two clients | **violated**: a node that knows the route sends its RREP to the destination, not to the client |
| `late_rrep` | `Triangle`, two requests to two servers | **violated**: a RREP of the first request, arriving during the second, brings the client the wrong server's time |
| `stale_loop` | `Triangle`, two clients, one tick | **violated**: two nodes name each other as next hop, with hop count 1 |
| `client_leaves` | `Line3`, impatient client | **violated**: the daemon exits because its client has gone |

The properties of the service, all in `OdrProperties`: `TypeOK`; `NextHopAttached`,
`HopsAttainable`, `LoopFree`, `RoutesRemembered` on tables; `FloodOnce`,
`SourceIgnoresOwn`, `RouteKept`, `WayBackKept`, `DestGetsNoRrep` on discovery;
`ReplyMatches`, `AskedServersTime`, `OneDataPacket`, `DaemonsStayUp`, `ExitsExplained`, `HearsAgain`,
`ServiceKept` on requests; and the properties `Answered`, `AnsweredInTwo` and `Settles`. Those of one daemon, in
`DaemonMemory`: `NothingCut`, `InterfacesKnown`, `DiscoveryEnds` on its start;
`RingsLinked`, `OneEntryPerKey`, `ListIsTable` on the lists.

Deadlock is not checked: the system stops when every client has gone or has used
up its requests.

### The findings

1. *RREP to the destination* (`odr_aa19.c:310`). The early answer of a node that
   knows the route looks up the destination, sends the RREP there, and the
   destination takes it for a RREP to be forwarded to the source. README.txt:160-161
   says that a destination never receives one.
2. *Late RREP* (`odr_aa19.c:674`). `route_discovered` is set back by each request and
   a RREP is not related to one.
3. *Stale entries* (`rtbl.h:71-85, 170-185`). README.txt:107 says that they are
   deleted. They keep their old hop count under a new next hop, and loops follow;
   a DATA packet in a loop goes round for ever, because its hop counts never grow.
4. *A client that leaves* (`odr_aa19.c:433`). A failing sendto is a reason for
   `process_pack` to return -1 and for `main` to exit.

### Where properties are known to fail

The passing runs are the conditions under which a property holds. Under harsher ones:

* `HopsAttainable` fails at a second request over a known route (the hop counts of
  its DATA packets are made up).
* `LoopFree` fails with stale entries, with a restart between two requests, and
  with a restart under impatient clients.
* `RouteKept` fails once a daemon has been killed (and says so), and with two clients.
* `DaemonsStayUp` fails when the source's daemon restarts while a reply is under way,
  and with an alias, which doubles the reply.
* `OneDataPacket` fails with an alias.
* `ExitsExplained` fails where two look-ups of a nameless address differ (`odr.h:98`): the daemon
  finds no entry under the second one and exits.
* With a slow server or a client on its machine, a daemon does read a socket that is empty
  (`odr_aa19.c:671`). Beside a server it hears again when the server answers (`HearsAgain`). On a
  machine with clients and no server, asked by another machine all the same, it
  blocks until one of its clients asks again.
* `AnsweredInTwo` fails when the only relay or the server restarts, and when the
  source restarts after more requests than a request has tries: its ids
  are then taken for duplicates until they pass the old ones.
* `ReplyMatches` fails for two clients on one machine.
* `Settles` fails with stale entries.
* A route over an interface that appears after the start of the daemon is sent along by
  nobody, and `send_ll_msg` reports success (`odr_aa19.c:99`).
* With `IpFits = FALSE`, `ExitsExplained`, `LoopFree`, `HopsAttainable`, `ReplyMatches`,
  `DestGetsNoRrep` and `RouteKept` fail: any daemon may act as source or
  destination of any packet.

### Fairness

`FairSpec` assumes weak fairness of each daemon (`Daemon(n)`), of each server, of a
client that has a reply to read, and of the end of a client's wait. Each
is a loop around a blocking call that the kernel wakes when there is something
to read or the time is up. One fairness condition covers all of a daemon's work: it
does not promise which of two waiting frames is read. Nothing is assumed of the
users (asking, quitting), of crashes and restarts, of losses or of the clock.
`DaemonMemory` assumes weak fairness of `Discover`: a process that is in the
middle of its start goes on. That the machine's interfaces change only finitely often is
the bound `MaxChanges`; a machine that changes for ever between two calls would keep
`get_hw_addrs` in its loop.

## 4. Proofs

All theorems are about every network, every number of clients, requests and crashes, and
every value of the constants, from the assumptions named in the modules (an interface
belongs to a node, `CHAR_HALF` is positive, junk hop counts are integers, ...). Where a
theorem needs more, its `ASSUME` says so, and so does the last column.

| theorem | property | inductive invariant | conditions |
|---|---|---|---|
| `TypeCorrect` | `TypeOK` | itself | |
| `NextHopsAttached` | `NextHopAttached` | itself, with `TypeOK` | |
| `RoutesAreRemembered` | `RoutesRemembered` | `TypeOK` | |
| `FloodsOnce` | `FloodOnce` | `IdsNoted` | |
| `OwnNotSentOn` | `SourceIgnoresOwn` | `OwnIdsNoted` | |
| `RepliesNameTheirServer` | | `TimesTrue` | `IpFits` |
| `AskedServerAnswers` | `AskedServersTime` | `TimesTrue`, `AddressesKept` | `IpFits`, `Apart`, `OneServerEach` |
| `DaemonsHear` | `HearsAgain` | `AnswerToCome`, with `TypeOK` | |
| `ExitsHaveCauses` | `ExitsExplained` | `ClientsKnown`, with `TypeOK` | `IpFits`, `OneIndex` |
| `AnswersFindTheWayBack` | `WayBackKept` | `WayBack`, with `TimesTrue`, `AddressesKept`, `ServerTurn` | `Sound`, `OneHome` |
| `OneDataPacketEach` | `OneDataPacket` | `Conversations`, with `AddressesKept`, `ServerTurn` | `Plain`; finitely many clients |
| `TheTimeIsTold` | `ReplyMatches` | `Outward`, with `TimesTrue`, `AddressesKept`, `ServerTurn` | `Sound`, `OneHome`, `OneServerEach`; no daemon beside a server is killed; as long as `HomesHold` |
| `OneRequestOneServer` | `AskedServersTime` | `TargetKept`, with `Conversations` | `Plain` |
| `OneRequestToldTrue` | `ReplyMatches` | `Outward`, `RequestsFew`, `TargetKept` | `Plain`, `OneHome`, `CHAR_HALF > 3` |
| `ServiceIsKept` | `ServiceKept` | `Conversations`, `Phased`, with those three | the same, and `AddrLens = {TRUE}` |
| `WholeListTaken` | `NothingCut` | `RoomLeft` | |
| `ListedTruly` | | `AnswersTrue` | |
| `RingsStayLinked` | `RingsLinked` | `BothLists` | |
| `OneEntryEach` | `OneEntryPerKey` | `BothLists` | |
| `ListIsTheTable` | `ListIsTable` | `BothLists` | |
| `InterfacesListed` | `InterfacesKnown` | `BothLists`, `AnswersTrue`, `RoomLeft` | |

### Tables and floods (`OdrProofs`)

* `TypeOK` is inductive because it also says that a packet is held exactly in the two
  waiting places (without that, `ServerReply` could send what is not a packet) and that
  a waiting client has a socket (without that, its second try could come from socket 0).
* `NextHopsAttached`: by `NextTable`, a table stays, is lost with its daemon, or is
  updated by the oldest frame of a link; by `LearnEntry`, an entry changes only by taking
  that link's sender and segment. `RoutesAreRemembered`, the refinement of `RouteMemory`,
  is from the same two facts: every case of `LearnEntry` is `Learn`, `Improve` or `Renew`.
* `FloodOnce` alone is not inductive: what stops the second copy is `latest_rreq` and
  not the history. `IdsNoted` says that while the ids of `s` fit a `char`, the noted id
  is at least every id of `s` that was sent on. `RelayNewer` carries both over a step;
  the hypothesis about the `char` is needed in `WrapCharFits`.
* `OwnIdsNoted` relates the next id to use with the noted own id: the latter is one less
  at least, and both start again together when the daemon does.

### What any step does, and replies (`OdrSteps`, `ServiceProofs`, `WayBackProofs`)

The proofs about packets would repeat the twenty actions of `Next` for each invariant.
`OdrSteps` goes through them once, in four lemmas, each of which looks at one place:

* `NextSent`: a frame on a link was there before, or (`SentOver`) its sender passes on a
  frame it has received (`Copy`: the same type, direction, payload and id, or a RREP
  or DATA made of a RREQ or RREP), the packet it held for the server with the time read
  for it, or a client's request; it sends a RREQ only when that is its own or it knows the
  way back to its source, and any other packet along an entry of its table.
* `NextKnown`: an entry was there before, unchanged, or (`KnownFrom`) is for the source
  or the destination of a frame and names its sender as next hop; and an entry is lost
  only with its daemon.
* `NextLocal`: nine things can happen to the daemon of a machine, its socket and its
  server (`LocalStep`), and `NextClient`: three to a client (`ClientStep`).

The invariants. The first two need nothing but `TypeOK`; of the others each uses the one before:

* `AnswerToCome`: a daemon that waits for its server with a datagram seen by an earlier select
  has that datagram and the server's answer to come, and the wait reads only one of the two. So
  when the other reader of the socket, the branch after `FD_ISSET` (`odr_aa19.c:671-679`), finds it
  empty, the server still owes the answer, however slow it is and whoever else writes there.
* `ClientsKnown`: before any kill, on a machine that no client has left, the daemon runs; every
  datagram it will read and the address it has kept are of somebody who is bound, a client
  of the machine or its server; and it has kept one before anything of its own was sent. Hence no
  reply, late, doubled or read from a request, finds nobody (`NoExit`), and finding 4
  and a restart under way are the only causes of an exit. `OneIndex` (two look-ups
  of a nameless address agree) takes out the exit at `odr.h:98`; `IpFits` is needed because a daemon
  that takes another's packet for its own need not have kept any address.
* `TimesTrue`: a packet with a time in it has its destination's, and the packet a daemon
  holds for its server has that daemon for destination. Hence a reply never passes one
  server's time off as another's. This needs `IpFits` alone: with short buffers a daemon
  takes any packet for its own.
* `AddressesKept`: packets with a client's machine for their source are for a server the
  clients of that machine ask; so are the requests in its socket; the address kept for the
  next reply is that of a client of the same machine; and so are the replies. `Apart` (no
  client beside a server) is needed because a daemon takes a server's late answer for a
  request with a made-up address, which on a client's machine would pass for the client's.
  `OneServerEach` (the clients of a machine ask one server) is what finding 2 is about:
  without it the run `late_rrep` shows the other server's reply. With it, restarts, stale
  routes, losses and slow servers do not matter.
* `ServerTurn`: a machine with clients never asks a server, and one without has an
  outstanding question or an answer to read exactly while its daemon waits. It
  follows that only clients make packets, and that the datagram a select has found
  is still there when the daemon reads it. `Sound` is what the service is made for:
  addresses fit, clients ask machines with servers, from other machines, and a server
  answers within the 3 seconds. If the daemon beside a server is killed while it waits,
  the answer comes to its next life, which takes it for a request.
* `WayBack`: while no daemon has been killed, a daemon with any entry has one for the
  clients' machine, so has the next hop of that entry, and a packet other than a RREQ is on its
  way only between two that do. This is why `WayBackKept` holds: a RREP
  and an answer go from one who has seen the flood to another. `OneHome`
  is needed because with two machines with clients an entry can come from the flood of the other.
  What remains of `RouteKept` is the way *to* the destination of DATA packets. TLC finds it
  true in two runs; as an invariant it needs that every next hop towards the server has
  an entry for it too.

### One request, one DATA packet (`TokenProofs`)

A discovery brings back as many RREPs as the flood finds ways, and every one of them could
make a DATA packet. `Conversations` says, for each client: at one place at most, in one frame
on one link, in the packet a daemon holds for its server, or in the client's own queue,
there is a DATA packet or a reply for it (`OnePlace`). Each other conjunct of
`OneConversation` is there because without it a step makes a second one:

* while there is one, the client waits and has no unread request, and RREQs or RREPs
  that still go round find `route_discovered` set: the RREP after the first, and the
  flood of a first try that the second has overtaken, make no DATA;
* a flood under way with the flag still 0 means a waiting client whose request was read:
  the flag is set back only by reading a request, and a request without the forced flag
  never meets an old flood;
* a client that has not asked has no flood under way;
* whatever is under way, `al_client_addr` holds a client's address, so a reply is sent
  to a client and never to the empty address a daemon starts with.

`Plain` is what this rests on: `Sound`; patient clients (the 3 seconds outlast what is under
way); no alias, which doubles every frame; no kills, which lose the flag; one
request of each client; clients on different machines, which share neither flag
nor address. The runs `first_route`, `lossy` and `two_clients` satisfy all of it, and section 3
says what fails without it. Networks, losses, stale entries, junk and the number of clients
are free. `Cardinality` comes in at the end only: by `OnePlace`, the clients with a frame, with a held
packet and with a reply are three sets apart, each of which maps onto its kind of places.

By the same invariant the daemons go on under `Plain` (`StaysUp`, a lemma of the theorems below):
with one conversation a client that leaves has nothing under way. `ExitsHaveCauses` says
more of exits, under far weaker conditions.

### What a client is told (`AnswerProofs`)

`ReplyMatches` says more than `AskedServersTime`: that a reply has a time at all. A
DATA packet that comes back to its source before it has been to the server is passed to the
client as a reply (`odr_aa19.c:413-433`), with the question in it and no time. `Outward` says why none
comes back: nothing leads to the clients' machine `h` but entries for `h` itself
(`LeadsAway`).

* An entry is made from a frame and names the frame's sender. `h` sends only RREQs and
  DATA on its way out, and both teach the receiver the way to their source, which is `h`.
* `h` would send other packets if it passed on or answered a flood; every flood is its own,
  and it knows its own ids: the next id to use is at most one more than the noted one.
  This needs the ids to fit a `char`, since `h` takes an id that has wrapped for new.
* So DATA on its way out never goes over a link to `h`, and DATA on its way back has a time
  in it, because the daemon that sent it had read the server's datagram (`ServerTurn`).

Loops among other nodes do not matter: a packet in a loop never reaches anyone, and
`TheTimeIsTold` allows any number of requests and tries, stale entries, losses, aliases,
impatient clients, and kills of daemons without a server. `HomesHold`, the condition
under the box, is that the clients' daemon runs and its ids fit: when an impatient client leaves,
that daemon may exit (finding 4), and after its restart its floods meet the entries of its
former life. `OneHome` is needed because the flood of a second machine with clients teaches
entries that do lead to `h`.

For one request `HomesHold` need not be assumed: `Conversations` keeps the daemon running, and
by `RequestsFew` it makes one RREQ for each of two tries at most, hence `CHAR_HALF > 3`
(it is 128). `OneServerEach` can go as well: `TargetKept` says that all that is under way for a
client, its unread request, frames, a held packet and its replies, is about the server it
asked, and a new request finds nothing under way. So finding 2 needs a second request.

`ServiceIsKept` is the refinement. Each step of the system is the client's `Ask`, `Take` or
`Leave`, a server's reading of its clock (`Serve`), the daemon's passing it to the client
(`Answer`), the loss of a frame with the time in it (`Lose`), or a stutter: every other daemon's
step, a second try, the end of a wait among them. `Phased` reduces the phase of a client
to whether it waits, whether a time is under way and whether its queue is empty, so that a step's
effect is read off these three. `AddrLens = {TRUE}` is required because a client whose recvfrom
reports an error takes the reply and asks again in spite of it, which `TimeService` does not
allow; the runs that check `ServiceKept` have it too.

### One daemon's start and its lists (`ListProofs`, `MemoryProofs`)

* Two answers of one length seem to prove nothing when both may be cut. `RoomLeft` says
  that the buffer is larger than the last answer, because it grows each time: an answer
  that fills it is longer than the last, and the loop goes on.
* `AnswersTrue` follows an interface's address through the two ioctls: what the kernel
  does not know any more has gone.
* A traversal is a recursive function. What it visits is proved by looking at the least
  place where the claim would fail (`Least`, from the well-foundedness of `<`), so no
  induction over an operator is needed: `WalkExists` that the function exists,
  `RingBackwards` that on a `Ring`, a list whose pointers go from one structure to
  the next allocated one, it visits each structure once and ends at the head.
* `AddToRing` and `AddBesideRing`: `list_add` keeps both rings. `CompareUpdates`,
  `AddUpdates` and `LearnTwice`: a traversal of `rtbl.h` over an orderly list, with one
  entry for each key, does to the list what `RoutingTable` says it does to the table.
* `BothLists` puts them together over the steps of the daemon: the interfaces fill the
  first structures in the order of the kernel's list, the entries the ones after them.

### Only model-checked

* Liveness (`Answered`, `AnsweredInTwo`, `Settles`, `DiscoveryEnds`), which the prover does
  not reach.
* `RouteKept`: that DATA on its way to the destination finds an entry. TLC finds it
  true in two runs; as an invariant it needs that every next hop towards the server has an
  entry for it too, which the early answers of nodes with a route make a property of
  the whole network.
* `LoopFree` and `HopsAttainable`. That hop counts fall strictly along next hops, the usual
  invariant of distance-vector routing, is false here: a DATA packet carries the hop count of the
  RREQ or RREP it was made of, so the entry a node learns from it need not be one more than
  its next hop's. The networks of the runs have no loop; a proof would need an order of
  another kind.
* `DestGetsNoRrep`: it holds in its runs because no node has a route when the request is made; a
  second try is forced, and may be answered early by a node of the first (finding 1).
* `DaemonsStayUp`, for clients that stay or leave with nothing under way: with two requests and
  a kill between them (`known_route`) and for clients on two machines (`two_clients`).
  `ExitsExplained` is proved instead, for a daemon whose clients have not left.
* `ReplyMatches` with a kill and an alias (`restart`), and `ServiceKept` for several requests
  of one client (`known_route`) and for clients on two machines (`two_clients`).

## 5. Not modelled

* The Ethernet header, byte order, printing, name look-ups that succeed, and the client's
  parsing of what the user types.
* The bounds on socket queues: a server that is stopped, and not gone, could
  block its daemon in sendto.
* A failing sendto on the raw socket, of which `broadcast_ll_msg` reports the last only, and
  other failing system calls than those of the discovery and the refusal of a local
  datagram.
* The size of the heap: each look-up leaks a structure (`rtbl.h:45`).
* `free_hwa_info` and `prhwaddrs_aa19.c`: the daemon calls neither; the second prints
  what the modelled `get_hw_addrs` returns.
* `list.h` beyond `INIT_LIST_HEAD`, `list_add` and the reverse traversal: copied from
  the Linux kernel, and called by nothing here.
* `odr.c`, `client.c`, `server.c`, `common.c`, `get_hw_addrs.c`, `prhwaddrs.c`:
  earlier versions the Makefile does not build.
* Copying files to the machines (`deploy_app`, `setup_vms`, `rm_file`).

## 6. Plan

Done, in this order: `RoutingTable`, `Odr`, `OdrSystem` and their proofs; the abstract
specifications `RouteMemory` and `TimeService` with their refinements; restarts, aliases
and short buffers; the start of a daemon and its lists with their proofs; the proofs of
one DATA packet for one request, of the loop and the exits of a daemon, of the time a client is
told, and of `TimeService` for one request. What is left:

1. Two clients on one machine, with the property that does hold there (each reply goes to
   the client that asked last).
2. Bounded socket queues, and with them the block of the daemon in sendto.
3. Proofs: `ServiceKept` for several requests to one server, for which `Conversations` must
   say what a used route does in the place of a flood; an order on entries under which
   `LoopFree` holds for one request over fresh tables, and from it the rest of `RouteKept`.
