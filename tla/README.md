# Verification of the OPC UA integration for IEC 61499

The repository connects the 4DIAC runtime FORTE to OPC UA. Its parts are

* function blocks in C++ (`src/OCP_UA/OPC_UA_READ.cpp`, `OPC_UA_WRITE.cpp`,
  `OPC_UA_PUBLISH.cpp`, `OP_UA_SUBSCRIBE.cpp`), each of which opens an OPC UA
  client when it receives the event `REQ`, makes its calls and answers `CNF`;
* an amalgamated OPC UA stack, `src/OCP_UA/open62541.c`, with the client these
  blocks use and the server they talk to, and its headers;
* a 4DIAC application, `src/FlipFlopTutorial`, that toggles a flip-flop and
  writes it to the server, with the library of function block types.

There are no tests in the repository. `ua_config.h` leaves `UA_MULTITHREADING`,
`ENABLE_METHODCALLS`, `ENABLE_SUBSCRIPTIONS`, `UA_EXTERNAL_NAMESPACES` and
`EXTENSION_STATELESS` undefined; the models are of this build. The server of the
function blocks is another process: where a model needs node management over
the network, which this build leaves out too (`ENABLE_NODEMANAGEMENT`,
open62541.c:8105), it is of this library with it enabled.

Line numbers without a file are those of `open62541.c`.

## 1. Inventory

### Connections, secure channels and sessions (6057-6432, 7736-8200, 9312-9824)

*State*: a `UA_Connection` per socket, with its state and a pointer to its
channel; a list of channels with a count, each with a pointer to its connection,
two security tokens and a list of sessions; a list of sessions with a count, each
with a pointer to its channel, a lifetime and whether it was activated.
*Operations*: the handlers of HEL, OPN (issue and renew), CLO and MSG, the
services CreateSession, ActivateSession and CloseSession, the check of the
token and of the session before any other service, the periodic cleanup, and the
end of a connection.
*Interaction*: the network layer hands over messages and the end of a
connection as jobs; deleting a channel calls back into the network layer
(`connection->close`), and so does a failed send.
*Hard*: three kinds of pointers in both directions, changed by messages of any
client, by time and by the network, in any order.
*Correct*: the pointers agree and lead to live objects; counts match the lists;
tokens are unique, and one that was issued comes into force; what clients leave
behind is freed.

### TCP network layer (6085-6176, 13077-13644)

*State*: the mappings from sockets to connections, the server's socket, and per
connection the incomplete message. *Operations*: accept, select and receive
(`getJobs`), `completeMessages`, `socket_write`, `closeConnection`, `stop`.
*Hard*: TCP splits and joins messages anywhere; allocation fails in the middle;
`send` takes a part; closing is spread over `shutdown`, select, a detach job and
a free job. *Correct*: messages are processed whole, in order and once; a closed
connection is freed.

### Main loop and repeated jobs (8646-9311)

*State*: the flag `running`, the network layers, an array of jobs; a list of entries
sorted by the time of their next execution, each with the jobs of one interval.
*Operations*: add, remove, process; the loop that calls the network layers; start and stop. *Hard*: jobs are callbacks that add and
remove jobs while the list is processed; rounds are late; intervals overflow; the
flag changes at any time. *Correct*: the list stays sorted, one entry per interval,
every job runs again and again, nothing is freed while in use, and a server that
was stopped leaves nothing.

### Node store (2556-2636, 13797-14156)

*State*: a hash table with double hashing of pointers to reference-counted
entries. *Operations*: insert (with a given or an assigned NodeId), replace, get,
release, remove, growing and shrinking. *Hard*: removal in open addressing,
growth in the middle of an insertion, nodes removed while held. *Correct*: it is
a map from NodeIds to nodes; searches end; entries are freed once, and when
nobody holds them.

### Services on the address space (9825-12208)

*State*: the nodes and their references, kept in both directions; per session a
list of continuation points and how many more are allowed. *Operations*: read and
write attributes, add and delete nodes and references, browse, browse next.
*Interaction*: every service gets nodes from the node store and releases them.
*Hard*: references in two nodes are changed in two steps; one may fail; arrays
are reallocated; continuation points outlive the nodes they are for. *Correct*:
references agree in both directions, nodes stay reachable, every continuation
point is counted, every node that was taken is released.

### Client (12209-13076)

*State*: a connection, a channel with a token, an authentication token, the
numbers of requests, the time at which to renew. *Operations*: connect (HEL, OPN,
endpoints, session), a service call, renew, disconnect, reset, delete. *Hard*: a
call that timed out is answered later; answers are cut and joined; the token of a
renewal; a server that is gone. *Correct*: a call is executed once if it reports success, or returns an
error; the token of a message is one the server accepts; the socket is closed in
the end.

### Values and their encoding (2637-4971, 9825-10536)

*State*: none between calls, but the values of the nodes and the memory of copies.
*Operations*: size, encoding and decoding of every type; ranges of variants;
copying and deleting; the Read and Write services. *Hard*: forms that are chosen by
the size of a number, types that are sent as others, ranges over several dimensions,
allocations that fail inside nested arrays, requests of which one item fails.
*Correct*: what is decoded is what was encoded; a range means its elements; no
memory is freed twice or kept; a write changes what it says.

### Namespace 0 (6804-7735)

*State*: the nodes. *Operations*: some 150 additions, in order, whose answers are not
looked at. *Hard*: each depends on earlier ones. *Correct*: every node is there, can be
reached from the root and has its type definition.

### Function blocks

*State*: inputs and outputs of the block, the client of the handler, and the
nodes of the server. *Operations*: the event REQ. *Interaction*: calls of the
client, events to the application. *Hard*: several blocks share a node; the
server comes and goes; calls time out and are executed late; handlers go on after
an error. *Correct*: CNF after every REQ, OUT belongs to the request, no client
is left behind, published variables can be found.

### The rest

The logger, the random numbers, the UDP header and the library of function block types
are listed in `PROJECT.json` with the reason why they are not modelled.

## 2. Modules

| module | models | instance | proofs |
|---|---|---|---|
| `SecureChannels` | connections, channels, sessions of the server | `MCSecureChannels` | `SecureChannelsProofs` |
| `ServerLoop` | start, main loop, TCP layer, stop | `MCServer` | `ServerLoopProofs` |
| `Namespace0`, `Server` | the nodes a server begins with and their building; the server from new to delete | `MCServer` | `AddressSpaceProofs`, `ServerLoopProofs` |
| `NodeStore`, `NodeMap` | the hash table; the map it implements | `MCNodeStore` | `NodeStoreProofs` |
| `RepeatedJobs` | the jobs of the main loop | `MCRepeatedJobs` | `RepeatedJobsProofs` |
| `MessageStream`, `MessageQueue` | bytes on a connection; the queue they implement | `MCMessageStream` | `MessageStreamProofs` |
| `References`, `AddressSpace` | nodes and references; the services on them | `MCAddressSpace` | `AddressSpaceProofs` |
| `TypeTable`, `DataTypes` | the types of messages; their encoding | `MCAttributes` | |
| `Variants`, `Copies` | ranges of variants; copying with failing allocations | `MCAttributes` | |
| `Attributes` | Read and Write, from the client to the nodes and back | `MCAttributes` | |
| `Client` | a client and its connection | `MCClient` | `ClientProofs` |
| `ReadWriteBlocks` | READ and WRITE on one node | `MCReadWriteBlocks` | `BlocksProofs` |
| `PublishBlock` | PUBLISH and the server it publishes on | `MCPublishBlock` | `BlocksProofs` |

`Namespace0` and `AddressSpace` share `References`, which they extend: the nodes, the
operators on them and what it means that they agree. `Server` is only the composition of
the building of `Namespace0` with `ServerLoop`; `Attributes` composes the values with the
services. `NodeMap` and `MessageQueue` are abstract specifications that `NodeStore` and
`MessageStream` are shown to implement. The models meet at what one assumes of the
other: `ServerLoop` treats a message as one that opens, closes or leaves the
channel, which `SecureChannels` details; `Client` sees of the server the tokens and the
session of its channel; the blocks see of the client calls that succeed, fail or are
executed late.

In every module a variable is named after the C variable or field it models, and
an action after its function or handler; `PROJECT.json` gives the lines of each
definition. Mutated forms of definitions stand before the definitions they
change; no configuration uses them. Nothing of the names, texts, nonces,
certificates and log messages is kept, except where the encoding is about them.

**SecureChannels.** One variable for each field, as a function on the objects
(`connChannel[c]` is `c->channel`, `chanSessions[h]` the list of `h`). The
single-threaded server runs each job to its end, so an action is a whole handler,
from decoding the header to sending the answer; the environment chooses which
message arrives and whether `send` fails. An object is used once and stays
`"freed"`, so that dangling pointers are seen; `StackChannel` is the channel on the
stack of `processMSG`. Time counts down the ticks that are left of a lifetime; -1
is over.

**NodeStore.** `slots` is `ns->entries`; `Step` and `Hash` are the two hash functions,
`SlotOf` the search of `containsNodeId`, `RehashedTo` the loop of `expand`. The sizes
are assumed to be primes, as all of `primes[]` are, and to be large enough for the
entries. An entry is a piece of memory with its node id, its reference count and the
alive bit. Insertion includes the growth it may cause, removal the shrinking. `NodeMap`
knows only which ids are found, which are in the table without being found, and what the
last operation answered. Without removals nothing is lost, and it is a plain map.

**RepeatedJobs.** `list` is the list, `entry` the memory of its entries, `tw` and `i`
the local variables of `processRepeatedJobs`. A job is executed between two
actions, so that the additions and removals a callback makes are actions that
happen while `tw` is set. Times are relative to now. `Unit` and `Modulus` stand for
10000 and 2^32.

**MessageStream.** A byte is a pair of a message and a position, so that a
delivered message shows whether its bytes belong together. `Stops` are the
positions the loop of `completeMessages` comes to. Type and size are readable when
the bytes of the header stand together, and no payload looks like a header.
`MessageQueue` appends messages and delivers the next ones; `failed` is a history
variable of both that ends the promise that none is missing.

**ServerLoop.** `pc` is the place in `UA_Server_run` and what it calls; one turn of the
loop in `getJobs` is an action (`Receive`), as is each job of `processJobs`. `at` is `i`,
`ready` and `results` what `select` returned. Peers connect, send and hang up, and
`Interrupt` clears `running`, between any two of these. A descriptor is `"shut"` after
`shutdown` and `"closed"` after `close`; a mapped closed one makes `select` fail
(`Deaf`). A freed connection stays `"freed"`; touching it may end the process
(`"broken"`). `faults` counts failed allocations and calls of the system.

**Namespace0, Server.** `Additions` is the sequence of nodes and references that
`UA_Server_new` adds, by their names; `Added` does one of them with the handlers of
`References`, with any one of its allocations failing, and `BuildSpec` all of them, one
after the other. When all are added, `Server` goes on as `ServerLoop`, if nothing failed; the
nodes are dropped then (`LeaveNodes`), because the loop does not look at them.

**References, AddressSpace.** A state of the address space is a record of nodes with
their sequences of references; a service item maps one state to the next, with the
status it answers. `tries` numbers the places that ask for memory and `fails` are the ones
that get none, so that an allocation fails between two that succeed; `luck` decides whether a
freed array of references (`dangling`) is met again unharmed, and `alive` is false when
it was not. `torn` remembers the pairs of nodes between which a second direction failed
or a node was deleted, `short` that an allocation has failed. A continuation point carries as history what was given for it and
what there was to give (`given`, `all`). The functions that instantiate a type call one
another; `Instantiate` keeps what the open calls have yet to do on a stack, that of the
innermost call first, and `GoOn` does the next piece of it.

**TypeTable, DataTypes.** `UA_TYPES` has the member types of the messages that are
modelled; like the array in C it is generated, `GeneratedTypes`, and the configuration gives it
to the encoding. A message is a sequence of items with a width in bytes and a content: `Encode`,
`Decode` and `Size` go down the type like the C functions, and take the same decisions about
forms, lengths and limits. A single ExtensionObject in a variant that has the id of a type itself
is decoded as that type from the length of its body on, as in C; picoseconds are cut at
`MaxPicoSeconds`.

**Variants, Copies.** Ranges are computed with the code's blocks, strides and counts, and
compared in a property with the elements whose coordinates are in the range. `Copies` counts
the pieces of memory that a copy allocates, one of which may fail, and that a deletion frees,
with the error paths of each level. The elements that `setRangeCopy` writes are copied one by
one: one that cannot be copied leaves its place empty, and the write is good.

**Attributes.** A request goes through the client's buffer, the server's decoding, the handler
item by item, the response's buffer and the client's decoding; `pc` says where it is. A call
of a data source without a write function ends the server (`"crashed"`), and an index
behind an array is undefined (`"overrun"`). The environment chooses the nodes of the server,
the request and the allocation that fails.

**Client.** `client.task` is the function the application called, `client.step` the message
of the handshake it is at. `up` and `down` are the bytes on their way, message by message; a
`"rest"` is what is left of a message that was read in parts. `Receive(joined)` reads several
messages at once. The server's side is `SecureChannels` for one conforming channel: token, next
token, the ticks they have left and the session, which it may refuse. An OPN for which there is
no channel ends the connection without an answer. `strayed`, `renewed` and `cut` are history, as
is `done`, the number of times the last call was executed; what is under way when a function is
called is `late`.

**ReadWriteBlocks.** `stage` is the place in `executeEvent`. Steps of the server and
other blocks come between any two of a handler's calls. Using a deleted client and
freeing a variable on the stack are undefined: the process ends or goes on. The
history variables `cnf` and `seen` count the confirmations of a REQ and the values
the node has had since.

**PublishBlock.** Each call of the client is put into the queue of its connection and
executed by the server when it comes to it; the client waits for the last one or
gives up. `found` is the answer to a browse. The server inserts a node first and then adds the
reference to it, which may fail: `listed` are the objects the folder refers to, `references` counts
those to a variable, and the history variable `torn` remembers the variables without one. The history variable `reliable` remembers
that no connection broke. Copying a name to a pointer that was
never set lets the device go on or ends it. After an answer that came too late
the model lets a later call succeed, which the client in fact cannot (`Client`): it
allows more behaviours than there are.

## 3. Runs

Passing runs:

| run | asks | bounds |
|---|---|---|
| `channels_safety` | do pointers, counts and tokens stay right under two clients, failing sends, closing peers, timeouts, cleanup? | 2 connections, 3 channels (2 at a time), 2 sessions (1 at a time), lifetimes 1, tokens up to 4 |
| `channels_liveness` | is everything left behind freed? | 2 connections, 2 channels, 1 session |
| `server` | is namespace 0 whole unless memory was short; are connections freed once, and all of them when the server stops; is every socket served? | all of namespace 0, with one addition that fails at its first, second or third allocation; 2 peers, 1 failed call |
| `nodestore` | is the table a map that loses nodes in removals only; do searches end; is what is stored or held allocated, and the rest freed? | 2 named ids that collide in both tables, numeric ids, 4 entries, sizes 5 and 11, 1 reference |
| `jobs` | is the list right while jobs change it, memory fails and rounds are late; does every listed job run again? | 3 jobs, 3 entries, intervals 0..4 of which one wraps to 0, lag up to 3 |
| `stream` | is the connection a queue, however TCP cuts, until memory fails or a message is too large; is a wrong message ever delivered after that? | 4 messages of sizes 3, 5 and 7, limit 5, buffer 6, header 2 |
| `address_space` | do references agree in both directions, are instances complete, pages exact and continuation points counted, whatever fails? | 11 nodes, 2 assigned ids, 1 client with 1 continuation point, pages of 1; no allocation, the second and the sixth, or the third and the fifth fail |
| `values` | is what was encoded decoded; are ranges exact, copies freed once, writes done item by item? | 15 servers with one to two nodes of every kind, some 200 requests each, then a second one; one of the first 6 allocations fails; buffers of 400 bytes |
| `client` | is a call executed once, and when it is good; does a connected client stay in step; is its socket closed; does every call return? | tokens of 2 ticks, 3 tokens, 8 requests per connection |
| `blocks` | does OUT belong to the request, is every client deleted, does CNF follow REQ? | 1 reader, 2 writers, 2 values and one of another type |
| `publish` | is every variable within reach, what one publisher deletes added again, every REQ confirmed? | 2 publishers of one variable, 2 connections, breaks, restarts and failing references |

Why these bounds are enough to be of use: the properties of channels relate one
object with one other, a second to be confused with and a third for a freed one; two
clients make every race of two handlers. With two mappings one takes the place of the
other, which is all that the order of `getJobs` depends on; with one failed call and a
stop at any place every exit of the loop is taken. In the node store two named ids and
the assigned ones collide, four entries force growth from 5 to 11 and shrinking back,
and assigned ids go round the table. Messages are shorter, equal to and longer than a
receive buffer, and several fit into one. With three jobs an entry has jobs before
and after the one that runs, or there are three entries to sort. In the address space one
node comes and goes under one root, so that every pair of services meets on it, and pages of
one reference end at every place of an array of four. Eight requests let a client give up in
the handshake, connect again and call, with answers of both connections outstanding; two ticks
make room for a renewal in time, one too late and a cleanup on either side of it. The values
have every form of a node id, every kind of variant, one to three dimensions, null and empty
strings and arrays, and each limit from below, from above and at 256.

`MaxToken`, `MaxLag`, `MaxRefs`, `MaxSent`, `MaxReferences`, `MaxRequests` and `MaxTokens`
bound counters that grow in the code; actions that would pass them are disabled.
`MaxFaults`, `MaxFailures` and `MaxFailing` bound what goes wrong. `MaxWork` stands for the
memory that a type which contains itself uses up.

Symmetry is used for the objects that are only compared, and never in a run with a
liveness property. Deadlock is not checked where nothing may be left to do: all messages
were sent, all requests made, the process has ended, or the server was deleted.

### What the code does not do

`nodestore_lost` checks a sentence of a comment and finds it violated: a removal hides
nodes that collided with the removed one (14133, against 13845).

Other divergences were met while the handlers were modelled. The actions have them, and no run
is spent on them, because they follow from the code of one handler. The passing properties say
what holds nevertheless and name in their comments what they leave out: `ChangesAreInStep` says
that no handler replaces an issued token, moves a session that timed out or touches another
client's channel, not that a renewed channel is kept; `ConnectedIsInStep` that the server cuts a
client off only after a renewal; `WireKeepsValues` what becomes of each value, with the three that
change on the way (256, picoseconds above 1000, an ExtensionObject with the id of a type itself);
`RangesAreExact` that a part of an array is exact if it lies within the array, has no gaps and is
not a whole array with dimensions.

*Channels and sessions*
* a second ISSUE on a connection leaves a channel whose connection is freed (9408); the run
  lets clients conform;
* the cleanup removes a connected channel that was renewed in time, when the old
  token has run out and the new one was not yet used (9346, against the comment at 9337);
* a wrong token closes the connection together with the channel (7968, against 7964).

*Network and main loop*
* a failed send closes the descriptor and keeps the mapping: select fails for ever (13150,
  against the comment at 13318);
* a partial send makes the next one repeat the beginning (13147); the run has none;
* when `running` turns false inside the loop, the layer is stopped twice, and every connection is
  freed twice (9244, against `ua_server.h`:55-66);
* without memory for its jobs `stop` leaves every connection, and `run_shutdown` frees a pointer
  that was never set (13466, 9270); a connection that cannot be added leaks its socket (13324);
* a job that removes itself, the last one of its entry, frees the entry the loop works on (8987);
* `interval *= 10000` wraps, for some intervals to 0: the round never ends (8927);
* `UA_Server_addRepeatedJob` returns GOOD when the addition failed (8960).

*Address space*
* a bidirectional deletion never deletes the other direction, and the deletion of a node none of the
  references to it: the second item has no type (11480);
* a node whose reference to the parent fails stays (10606, "todo: error handling");
* the array of references is freed with its pointer kept (11450ff);
* the release of a continuation point removes the first other one; a point stays when the browse
  cannot go on;
* `findSubTypes` keeps a node for ever when a subtype is no reference type, and does not end on a cycle;
* a type that contains itself is instantiated until memory is out; a failed part of an instantiation
  is ignored, and the type definition is added last: an object that lacks children has its type;
* `walkBrowsePath` ignores the direction when no reference type is given;
* `Service_AddReferences` writes no results;
* `UA_Server_new` gives `BuildDate` no type definition: it goes to `BuildNumber` (7596).

*Values*
* `UA_BYTE_MAX` is 256 (`ua_types.h`:43), so that 256 as an id or a namespace is sent as 0 (4100);
* an index may be one past the end of its dimension (3216, against `ua_types.h`:618);
* a range that takes a whole array with dimensions keeps the initial stride and counts from the end
  of it: a read returns, and a write changes, what lies behind the array (3222); over three
  dimensions with gaps it takes wrong elements;
* a write of a range deletes each element and ignores a copy that fails (3350): it is answered with
  GOOD, and the element is lost;
* an ExtensionObject whose id is that of a type itself, and not of its encoding, is decoded as that
  type from the length of its body on (4509);
* a structure cannot be written over the wire, its type never matches (BADTYPEMISMATCH);
* a data source without a write function is called (10288, against `ua_server.h`:188-189);
* a failed copy of an array leaves its pointer, which the caller frees again (`UA_Array_copy`);
* an array of empty elements is refused as too long for the message (3725);
* a response that cannot be encoded is dropped by five services, a request that cannot be decoded has no answer;
* access levels and write masks are not checked;
* `UA_Client_readNodeClassAttribute` and the two access levels expect types the server never sends;
  a refused read returns 1 instead of its status.

*Client*
* after a renewal the client keeps the old token, and the server cuts it off for that (12459, against
  `ua_client.h`:20 and 12720);
* a disconnected client stays CONNECTED, and connecting it again is GOOD and does nothing;
* a ServiceFault is taken for the answer to the present call, whichever it belongs to (12777);
* a failed send closes the socket twice; a host name that is not found leaves the socket open;
* `UA_Client_addReferences` sends the types of AddNodes (`ua_client.h`:120).

*Function blocks*
* a write that cannot connect sends no CNF (`OPC_UA_WRITE.cpp`:52), a read up to three
  (`OPC_UA_READ.cpp`:63, 82, 94), and deleting the write request frees a variable on the
  stack (`OPC_UA_WRITE.cpp`:74).

### Fairness

* `SecureChannels`: the main loop comes back to every readable socket and to the
  cleanup job, and time passes. `UA_Server_run` loops as long as `*running`, and
  select returns at once for a socket that was shut down. Clients owe nothing.
* `Server`: the thread of the server takes its next step; it never blocks, since `select`
  has a timeout. Peers, and who clears `running`, owe nothing.
* `RepeatedJobs`: rounds start and go on, callbacks return, the clock moves.
* `Client`: a function of the client goes on, because `recv` has a timeout. The server, the
  network and the application owe nothing.
* `ReadWriteBlocks`, `PublishBlock`: the device executes its events, and each call
  ends, because the client receives with a timeout. The server owes nothing.
* `MessageStream`: the peer finishes what it began to write, and the main loop reads
  a socket that has data. `MessageQueue` promises delivery until something fails.

## 4. Proofs

Every invariant of a passing run is a theorem, but for those of the module `Attributes`, which goes
down types recursively, and for `NamespaceIsWhole`. The theorems hold for every value of
the constants under the assumptions named in the modules (null pointers are no objects, bounds are natural
numbers, sizes of tables are primes, a token lasts at least one tick, the nodes at the
start agree, requests name ids), which TLC evaluates in the runs. Some theorems of three modules need
in addition what the instances of the runs also have, and say so in their statements: `Conforming`, `~OwnEntry`, `~PartialSends`. The
properties do not all hold without (section 5).

| theorem | property | hypothesis |
|---|---|---|
| `TypeCorrect` | `TypeOK` of `SecureChannels` | |
| `ConnectionLinksCorrect`, `SessionLinksCorrect` | `ConnectionHasItsChannel`, `ListedSessionsPointBack` | |
| `CountsCorrect`, `TokensAreUniqueCorrect` | `CountsMatch`, `TokensAreUnique` | |
| `TokensAndSessionsInStep` | two of the three parts of `ChangesAreInStep` | |
| `LinksAreMutualCorrect`, `ChangesAreInStepCorrect` | `LinksAreMutual`, `ChangesAreInStep` | `Conforming` |
| `EverySearchEndsCorrect`, `MemoryIsKeptWhileUsedCorrect` | `EverySearchEnds`, `MemoryIsKeptWhileUsed` | |
| `IsANodeMapCorrect` | `IsANodeMap`, the refinement | |
| `ListIsInOrderCorrect`, `ListedEntriesAreAllocatedCorrect`, `JobsLeaveWhenRemovedCorrect` | `ListIsInOrder`, `ListedEntriesAreAllocated`, `JobsLeaveWhenRemoved` | `~OwnEntry` |
| `DeliveredInOrderCorrect`, `NothingIsHeldBackCorrect` | `DeliveredInOrder`, `NothingIsHeldBack` | `~PartialSends` |
| `ConnectionIsAQueue` | the safety part of `IsAQueue` | `~PartialSends` |
| `ReferencesAgreeCorrect`, `PointsAreCountedCorrect`, `PagesAreExactCorrect` | `ReferencesAgree`, `PointsAreCounted`, `PagesAreExact` of `AddressSpace` | |
| `NamespaceAgreesCorrect` | `ReferencesAgree` of `Namespace0` | |
| `FreedIsGone`, `StoppedIsEmpty` | `FreedConnectionsAreGone`, `StoppedServerIsEmpty` | |
| `ClientTypes`, `CallsAreDoneOnceCorrect`, `ConnectedIsInStepCorrect`, `SocketsAreClosedCorrect` | types; `CallsAreDoneOnce`, `ConnectedIsInStep`, `SocketsAreClosed` | |
| `ReadWriteTypes`, `OutIsFresh`, `ClientsAreDeleted` | types; `OutIsAValueOfTheNode`, `NoClientIsLeaked` | |
| `PublishTypes`, `PublishedIsReachable`, `MissingVariableComesBackCorrect` | types; `VariablesAreReachable`, `MissingVariableComesBack` | |

**SecureChannels.** `TypeCorrect` is inductive as it stands. `ConnectionHasItsChannel`
and `ListedSessionsPointBack` are proved together (`OwnLinks`) for every client: they say
not only that the object exists but that it points back, and that is what makes them
inductive. Deleting a channel clears the channel of the connection it names; that no other
connection is left with it holds because a channel names one connection only. Counters and
tokens rest on `OwnLinks` alone, so they too are right whatever is sent. The pointers
in the other direction (`BackLinks`) need `Conforming`: with a second ISSUE, or an
activation without a channel, a channel keeps a connection, or a session a channel, that
is gone. The model does not reuse freed objects; for other clients a theorem therefore
speaks of the time until the code writes through such a pointer. `StepOfLinks` sorts the
steps into those that leave the pointers alone, those that delete, and five handlers, and
one lemma for each direction says what deleting any channels and sessions keeps.
`LinksAreMutual` adds to `Links` that an attached session is active and that a connection which serves requests has an open socket (`AttachedSessionsAreActive`,
`SocketsOpen`). For the counters and tokens, `StepOfLists` and `StepOfTokens` sort the
steps by what they do to the lists (nothing, one object more, some fewer) and to the
tokens (nothing, the next one handed out, those of a deleted channel): one case for each
is left.

**NodeStore.** The invariant `Inv`: no entry is in two slots, the entries in the table
are alive, `count` is the number of live entries and less than the size, and memory is
allocated exactly for the entries that are alive or held. Since there may be live
entries that are in no slot, the count says only that some slot is empty. A search comes
to that slot because its probes visit all: the size is prime and the step less than it,
so that no two probes of the first `n` meet (`EuclidsLemma`, `StepsDiffer`), and `n`
different slots are all slots. With room for one more after any insertion
(`InsertTableIs`: the table is grown from three quarters on) this gives
`EverySearchEnds`, and that there is a NodeId to assign. The map follows from what one
insertion does to a table (`PutKeeps`): what was found is found at the same place, and
no node becomes lost, though a lost one may be found again. `RehashIs` repeats it for
all the entries of a table, beginning with an empty one in which nothing is lost. Only a
removal takes an entry from a chain of probes.

**RepeatedJobs.** The list is seen without its memory: `View` is what its entries hold,
one after the other. The proofs show first what an operation does to the view (it stays
sorted, with one entry for each interval and each job) and then to the memory. A product
that wraps may be 0, but is the same for the same interval. `RoundOK` is why the round
goes on: the entry that is executed is the first and due, whatever the jobs add and
remove, if they keep out of it.

**MessageStream.** The argument is about the bytes in transit, those in
`incompleteMessage` followed by those in the stream: they are the last bytes written and
follow one another without a gap (`Contiguous`, `EndsWith`). The loop stops at the end
of each complete message (`StopsAre`), so what is delivered is a run of whole messages,
and what is put back is less than one. A failed allocation drops the first of these
bytes; what is left may begin inside a message, where no header is seen, and nothing is
delivered from there.

**ServerLoop.** That a freed connection is gone depends on the order in which `getJobs`
and `processJobs` work: `JobsInOrder` says that the detach job of a connection stands
right before its free job, that a connection has no other jobs, and that it is attached
to no channel when the free job is next; `TurnsAhead` that the mappings still to be read
have no jobs yet; `StopsOnce` where the layer has been stopped and how often. With them
the connections of mappings, jobs and channels are allocated (`Allocated`), and none is
allocated that will not be freed unless a call failed (`Accounted`). The theorems are of
the `Spec` of `Server`: each of its steps is one of the building that leaves the loop
alone, or one of the loop (the lemma `ServerIsBothParts`), so that what is invariant in either part
is invariant in the server.

**AddressSpace.** Every service is a function of the state of a request, put together from
a few operators, and memory may run out in each of them. The invariant is therefore one of
that state, and is needed in the middle of a request, where `ReferencesAgree` itself is not
true: between the two halves of an addition. `Sound` says that nodes are nodes and points
are points, and that any two nodes have the same entries about each other unless their pair
is in `torn`; the lemma for the first half adds the entry and the exception for its pair
(`IsAppended`), the lemma for the second half takes the exception back. Entries are counted
and not merely looked for, because a reference may be there twice: so the
lemmas on arrays are about the number of places of an entry, in an array that grew by
one, in one where the last entry took the place of another, and in one without all the
entries that match. An `Instantiate` is sound after each piece of its work, and a
`DeleteNode` after each reference, by the same lemmas.

`PointsAreCounted` is part of `Sound`: there are three ways in which a list of points
changes, one more in front, one less anywhere, one replaced in its place, and the counter
follows each. `PagesAreExact` needs to know of every point that what was given for it is
the beginning, of length `index`, of what there is to give (`Begins`), as long as
the references of its node were left alone; a page is then the next piece (`IsPage`), and
it is the last one exactly when a point is not kept. Requests that change references end
this, as the history in the points remembers, but additions at the end do not.

`NamespaceAgreesCorrect` applies the same lemmas to `Added`. It needs of the some 150
additions only that those of nodes have a class, which is shown list by list (`HasItems`).
Both invariants were checked by TLC on the instances of the runs first.

**Client.** A call takes the message with its request id for its answer (12777); ids begin again
on every connection, and an answer does not say whether its call was executed since it was made.
`CallsAreDoneOnce` rests on `DoneInv`: the last call is on its way once, and not executed until
then (`RequestedOnce`); a good answer to it says that it was executed once (`AnsweredOnce`); and a
call that is late has a smaller id than the request that is waited for (`Behind`).
`ConnectedIsInStep` needs `InStep`: for an active client there is nothing on its way, or its
request, or the answer to it; before them only the end of an earlier channel.
`TokensInStep` is why the server cuts no client off before its first renewal: until then it knows
the client's token. `TaskOK`, `FreshOK` and `SocketOK` say where each function can be
and what it has closed by then.

**ReadWriteBlocks.** `OutIsAValueOfTheNode` needs `NodeIsSeen`: while a reader is busy
the present value is among those it has seen, whoever changes it. `NoClientIsLeaked` and
the count of CNF follow from what is true at each place of a handler (`CountsOK`). The
conjunction `IInv` is inductive; one step per action, and `StoreKeeps` and `CrashKeeps`
for what several of them do.

**PublishBlock.** `PublishTypes` needs that the head of a queue is a call of a
publisher. `VariablesAreReachable` is inductive with the types: only adding a variable
and restarting the server touch what it speaks of for the worse, and adding checks the
owner and either adds the reference or marks the variable (`AfterAddVariable`). `MissingVariableComesBack` follows from
`ComingInv`: the call that deletes a variable is followed, on its connection, by one
that adds it, or the publisher that made it is about to make that call
(`DeletesAreFollowed`), its connection is there as long as none breaks
(`CallersAreConnected`), and the object that refers to the variable is not deleted by
any call (`ReferencesHaveAnOwner`).

**Recursion.** Loops over data are recursive functions in the modules with proofs
(`Stops`, `RehashedTo`, the deletions in an array, the search of subtypes, the work of an
instantiation). That such a definition defines a function is shown with the least number
for which it would not (`ReachedExists`, `RehashExists`, `LeastElement` and the lemmas that
cite it); what it computes after `k` steps is shown for the least `k` at which it would not
hold.

Model-checked only:

* the liveness properties, which are out of the prover's reach (`LeftoversAreFreed`,
  `EverySocketIsServed`, `EveryJobIsRepeated`, `EveryCallReturns`, `RequestsAreConfirmed`,
  `EveryRequestIsConfirmed`, and the part of `IsAQueue` that every message is delivered);
* `WireKeepsValues`, `CopiesAreOwnedOnce`, `RangesAreExact` and `WritesTakeEffect` of
  `Attributes`: types are nested, and the operators that go down them in `TypeTable`,
  `DataTypes`, `Variants` and `Copies` are `RECURSIVE`, which the provers cannot take;
* `NamespaceIsWhole`: that nothing is missing is the outcome of one computation, with the
  names of all the additions, and has nothing to prove in general;
* `InstancesAreComplete`: it compares an instance with a browse of the state before the
  request, and a proof would need what every piece of the work of an instantiation leaves
  of the type it was begun for.

## 5. Not modelled

Nonces, certificates and sequence numbers; the sleep of the main loop; a clock that is
set back; methods, callbacks of values and the life cycle of objects, which the application
registers; copying whole nodes, which only `UA_MULTITHREADING` does; printing and comparing
values; the values of the variables of namespace 0; an IN of PUBLISH that is not
connected. `OP_UA_SUBSCRIBE.cpp` does not compile. The code under `UA_MULTITHREADING` is not
compiled. The flip-flop application is made of blocks of the 4DIAC library, whose code is
not in the repository, and of the WRITE block. Most of the lines that no definition
stands for are declarations, generated tables, one-line wrappers of generated types,
node numbers, and code of build options that are off.

A session that is activated without a channel is in `SecureChannels`, and a job that removes
itself in `RepeatedJobs`, a partial send in `MessageStream`, but only in instances that allow
for them (`Conforming`, `OwnEntry`, `PartialSends`): the properties do not all hold there. Once
a removal has hidden a node, a second one with the same id can be inserted, and a
rearrangement of the table drops one of the two: `MemoryIsKeptWhileUsed` speaks of the entries
that were removed or replaced.

## 6. Plan

1. *Proofs*: `InstancesAreComplete`, for types that do not contain their own instances; the end
   of a search in the ranges of `Variants`.
2. *Larger instances*: three peers of `Server` for a night's run; two clients in
   `AddressSpace`, each with a continuation point on the node the other changes.
3. *Attributes*: the callbacks of values, which may change the node that is read.
