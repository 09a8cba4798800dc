# A TLA+ model of sonic-common-utils

This directory models the parts of sonic-common-utils that keep state or are
hard to test: the thread pool, the socket service that runs on it, the event
service that is its user, the versioned change list, the radix tree and its
walks, the red-black tree, events on the wire, the redirection of commands, the
configuration file, the linked list, and the functions on arrays and texts. TLC
checks the models on small instances; TLAPS proves the theorems for every value
of the constants.

All paths are relative to the repository; `src/` is its directory of sources
and `sonic/` the one of its headers.

## The system

The library is a set of utilities for SONiC's processes. Most of it is
stateless (conversions, wrappers of system calls). What keeps state:

| component | state | operations | who calls whom |
|---|---|---|---|
| thread pool (`std_thread_pool.cpp`) | list of jobs, `shutdown`, a mutex, a condition, the threads | create, job_add, delete; the workers' loop | the pool calls the jobs' functions, which may add jobs |
| socket service (`std_socket_service.cpp`) | `m_clients`, `pending`, `m_pending_close`, `max_fd`, the control pipe | init, run, client_add, client_close, destroy; the server's loop; callbacks | runs as a job of a thread pool of its own; its callbacks are further jobs |
| event service (`std_event_service.cpp`, `std_event_utils.cpp`) | tree of registrations (sets of client descriptors by key prefix), a buffer for each client | register, deregister, publish, set buffer; connect and disconnect | the callbacks of a socket service; `publish` closes slow clients with client_close |
| change list (`std_radical.c`) | a linked list of changed nodes with rising versions and the walkers' markers | append, walk (with a callback), construct, destruct | works on the nodes of a radix tree; the callback may change list and tree |
| radix tree (`std_radix.c`) | nodes with parent, children, version, lock count, delete mark | insert, remove, five look-ups, walk, versionwalk | versionwalk's callback may remove nodes; removal takes nodes off the change list |
| red-black tree (`std_rbtree.c`) | nodes and colours | insert, remove, ordered look-ups, walk | the owner's comparison function |
| command redirection (`std_cmd_redir.c`) | one client socket, a flag to close it | init, term_conn, the console reader's loop | two threads share the flag and the socket |
| socket tools, file and select utilities (`std_socket_tools.cpp`, `std_file_utils.c`, `std_select.c`) | nothing beyond a call: what is transferred, the retries and the time left | std_socket_op, std_read, std_write, std_select_ignore_intr | used by all of the above |
| configuration file (`std_config_file.cpp`) | a map of sections, a file | create, open, set, get, write, close | |
| linked list (`std_llist.c`) | two sentinels and the links of the items | the four insertions, the sorted one, removal, the ways through it | the owner's comparison function; the change list |
| functions | none | merge sort, bit maps, TLV buffers, masks and addresses, strings and tables of names, permission strings | the caller's memory |

The hard behaviour is in the first three: several threads, callbacks that come
back with results for data that may have changed, descriptors that are reused,
a mutex held across a write that may block, and a shutdown that does not wait
for anyone. Next come the change list and versionwalk, where a callback may
change the structure that is being walked. `PROJECT.json` lists every hazard at
its line, with the properties that cover it or the reason why none does yet.

What makes each component correct:

- *thread pool*: jobs start in the order they were added, each once; no signal
  is lost, so that a job is never left to sleeping workers; a job that does not
  return holds up neither the others nor a deletion.
- *socket service*: a client is in one place at a time; select sees every client
  that waits to be read, and no descriptor that is closed; only what somebody
  asked to close is closed; a client that has sent something is served.
- *event service*: a subscriber gets each event once and in one piece, nobody
  gets an event he has not asked for, and what was registered for a connection
  ends with the connection.
- *change list*: versions rise along the list, and every walker is told of every
  change behind its marker, once.
- *trees*: order, balance and parents' links after every operation; look-ups
  agree with a set of prefixes or keys; a node a walk stands on stays until the
  walk has left it.
- *events on the wire*: what is received is what was sent, whole and in order,
  however it was cut up on the way.
- *command redirection*: a request for one client does not end another's
  connection; no output is lost within a connection.
- *configuration file*: what was written is read again.
- *functions*: they return what their definitions say, at all boundaries.

## Modules

### JobPool

What a pool of threads promises, without threads: a queue, the jobs that run,
those that have finished, and a flag that closes the pool. `Submit`, `Start`,
`Finish`, `Close`.

### ThreadPool

`std_thread_pool.cpp`. `jobs` and `shutdown` are the fields of the context.
`pc[w]` is where a worker is: `lock` (wants the mutex), `test` (the loop's
condition), `check` (the first lines of `dequeue`), `take`, `run`, `free`,
`relock`, `wait`, `asleep`, `woken`, `exit`. `holder` is the owner of `m_lock`
between two steps of one worker; a critical section of which nobody can see the
inside (`add_work`, a round of `do_shutdown`'s loop) is one action. `shutdown`
is written without the mutex, so each read of it is an action of its own.
`Signal` wakes one sleeper, any of them; `Spurious` is a wakeup without a
signal. `owner` follows the thread that creates and deletes the pool. After
`do_shutdown` has destroyed mutex and condition, whatever a worker does with
them is undefined: `Stray` lets it leave or end in `undefined`. To destroy them
while somebody sleeps on the condition or holds the mutex is undefined for the
caller as well: `Destroy` may then leave `owner` in `undefined`, which stands for a
call that never returns too.

The definitions have the names of the pool (`ThreadPoolSpec`, `ThreadPoolTypeOK`)
because MCTools extends the module beside others.

The bounds are the sets `Worker` and `Job`: a job's identity is added once.

### SocketService

`std_socket_service.cpp`. `server` is where the server's loop is: `closed`
(about to run `process_closed`), `copy`, `select` (about to call select), `wait`
(in it), `repair` (the loop after a failure), `drain`, `accept`, `each` (the loop
over the clients). `rset` is its `fd_set`; `clients`, `pending`, `pendClose`,
`maxFd` are the members of the service, read and written with or without
`m_mutex` as the code does. `run[t]` is what a thread does in a callback:
`call` (in the application's function), `lock` (wants the mutex in `returned` or
`queue_and_add_socket`), `greet` (`new_conn`'s wakeup), `find` (`returned` looks
for the client), `wake` (`returned`'s wakeup), `close` (`pend_close`). In a
service with one thread (`inline`) the server itself is in the callback.

The kernel is a table `sock` from descriptors to connections; a descriptor is
free when it has none and may then be given to any new connection. A
connection is made once. `pipe` is the number of bytes in the control pipe.
Select is two steps: it looks at the descriptors when it is called and fails at
once if one is closed; later it returns with what is ready then, or after its
second with nothing. If it fails, `Repair` tries the descriptors of the copy one by
one, upwards, as the loop of lines 247-262 does.

The application is one of three kinds, fixed at the start: it `keeps` to its
callbacks' results; it `closes` clients with `std_socket_service_client_close`
from any thread besides; it `breaks` the rules and closes a client's descriptor
itself. Queueing a job may fail for want of memory.

Jobs start in the order of the list, as JobPool says; the threads of the pool
but the server's are `Worker`.

Bounds: `Conn` (connections made), `Fd`, `MaxSent` (how often clients send
something or hang up), `PipeSize`.

### ChangeFeed

What a change list promises, without a list: the number of each node's last
change, and for every walker the set of nodes it has still to be told of, which
it is told of in the order of their changes. `Change`, `Forget`, `Begin`, `End`,
`Tell`, `Told`, `Renumber`.

### Radical

`std_radical.c` on `std_llist.c`. The list is a strict total order: `linked` is
the set of its items (nodes and walkers' markers), `before` the pairs in order;
`Place` puts an item behind a set of others and `Unlink` takes it out, which is
what the four insertions and the removal of `std_llist.c` come to. `versions` is
`rth_version` of nodes and markers, `last` is `rtt_version`. A walk stops where
it calls the callback: `walk[w]` is then what the loop has in its variables.
`Advance` is the loop from one callback to the next, or to the end; `Continue`,
`Stop` and `Revisit` are the three kinds of result a callback gives. While a
walker is in its callback everything else may happen, by the callback itself:
nodes are appended and removed, other markers placed, other walkers walk.

What callbacks may not do is in the guards: end their own walker, renumber the
list, ask to revisit a node they have removed (the code asserts that). To reset
their own walk is allowed "any time" (`std_radical.h:82`) and is in the model. One thing the
code accepts is allowed by `Restless` only: to ask to revisit a node that was
appended again, or one that was called for before the walk was reset.

`note` is a history of each walker, because a reset in its own callback is what
`MarkersHonest` does not survive: `begun` from such a reset to the return of that callback,
`stale` while the marker then has a version that is too new, `sound` otherwise. A marker
that is aligned with a stale one is stale too.

Bounds: `MaxChanges` changes, `MaxNodes` for a walk's limit (0 is none).

### EventService

`std_event_service.cpp` as the callbacks of a socket service. The service is
reduced to what callbacks can see of it: `sock` (which connection a descriptor
belongs to), `watched` (waited for), `jobs`, `toClose`; the loop's own steps are
`Accept`, `Dispatch` and `ProcessClosed`, and a thread's are `Start`, `Return`,
`PendClose`. `known` is the key set of `m_event_clients`, `nodes` and `regs` are the
tree: a node is its path, a registration a descriptor and a path. Nodes are made
by `find` with `create` and never removed (nothing calls `clean_empty_nodes`).
`run[t]` is where a callback is: `new` (`event_new_client`), `data` (before it looks
the client up, which it does without the lock), `recv` (in the read), `drop`
(`event_del_client`), `add`, `del`, `publish` (about to take the lock), `walk` (in the
tree, with the read lock: `ix` is how far down, `left` what the loop over a
node's clients has still to do, `sent` is `already_sent`). A write lock is held for
one action, and waits until nobody walks.

A send succeeds or fails, and if it fails the descriptor is given up
(`Deliver`): the client was slow, or has just hung up. Clients hang up when they like.
`got`, `events`, `asked` and `givenUp` are histories: what each connection was sent, what
was published, what each has registered, and the numbers a publisher has ever
given up.

`OnceAndInOrder`, `RegistrationsAreOwn` and `RequestsAreHandled` say what they say of the
numbers that are not in `givenUp`. For the others it is not so: `publish` closes the
descriptor and forgets neither the client nor its registrations, which is what
`event_stale` finds. That a client hangs up while an event is on its way to it is
enough for that; there need be nothing wrong with the client.

Bounds: `Conn`, `Fd`, `MaxSent` requests of all clients, `MaxEvents` events among them.
Keys are not empty: a registration for the empty key is kept at the head of the
tree, which `publish` passes over, so it gets nothing.

### RouteTable

What a radix tree promises, without a tree: at most one head for a prefix, and a
version for each head that is greater than all given before. `Insert`, `Remove`,
`SetVersion`, `Reset`.

### Radix

`std_radix.c`, the operations that change the tree. A node is named by the bits
that lead to it, so `rtn_bit` is the length of its name; `node` has the links, the
head, the lock count, the version and the mark `RDX_RN_DELE_BIT` of the nodes that
are allocated. A head (`Rth`) is an address of which the first `len` bits count;
the others may be set. `InsertFirst`, `InsertAtNode`, `InsertBelow`, `InsertBetween`
and `InsertSplit` are the five ends `std_radix_insert` has; `Removed` is
`_std_radix_remove`, with `KeepNode`, `DropLeaf` and `Promote` for a node with two, no
or one child; `Remove` marks a node that is locked.

`walks` is the stack of the walks by version: the function versionwalk calls may
insert, remove, give versions and begin another walk. `WalkDown`, `WalkRight`
and `WalkUp` are the three cases of the loop (`clean` is a history: the walk has taken no marked
node out itself), `CallbackReturns` is the unlock (with
a result that may stop the walk), `BeginSweep` and `Sweep` are the climb to the root
after the last head of a limited walk. The user of the tree is one thread.

Bounds: `Width` bits, the heads in `Rth`, `MaxVersion` versions, `MaxWalks` walks in
each other, the `Counts` a walk may be limited to.

### RadixLookups

The look-ups of `std_radix.c` (best, next best, exact, next, parent), the subtree of
a prefix, `std_radix_walk` and the power walk, as functions of the tree. `LookupsAgree`
states each again over the set of the heads alone, in two parts: `PrefixesAgree` for those
that ask which prefixes there are, `OrderAgrees` for those that follow the order, which TLC checks
between walks and the proof shows in their callbacks too. Two sentences of
`std_radix.h` the code does not keep to are no part of it and have names of their own:
`NextIsNext` (the next after any address; `OrderAgrees` has it for prefixes that are
there) and `WalksBeginAtHeads` (`std_radix_walk` from a head; `OrderAgrees` has the walk
from the first).

### RBTree

`std_rbtree.c`. `tree` has links and colours of the user's nodes and of the one
sentinel, whose parent link removal writes. `TreeInsert` and `TreeRemove` are the
operations up to the rebalancing; then `op` holds what is under way, and each case of the
two loops is an action: `UncleIsRed`, `BringOut`, `UncleIsBlack`, `InsertDone`;
`SiblingIsRed`, `BlackNephews`, `NearNephewIsRed`, `FarNephewIsRed`, `BalanceDone`; and
`Splice`, which puts the successor in the place of the node that was removed. `held` is a
history of the data inserted and not removed. Data with equal keys may be in the tree
together. The searches an operation makes (`PlaceFor`, `GetExact`, `NextOf`) are recursive
functions on the nodes.

### RBLookups

The look-ups and the two walks of `std_rbtree.c`, as operators on the tree: the first, the
next, the nearest on either side, and what the walks call for. `Onward` is one turn of the
loop of `_std_rbtree_walk`, from a node and a direction (`Way`) to the next, `Calls` the
callback it makes on the way, if any; `WalkFrom` puts the calls together, `WalkAll` and
`WalkKey` are `std_rbtree_walk` without and with a key. A walk that ends early, by its count
or its callback, makes the first calls of the whole walk. `WalksAgree` leaves open whether a walk
from a node begins with that node, as the header says, or behind it, as the code
does; `WalksBeginAtKeys` and `NothingIsAbove` are the header's sentences.

### Frames

The events on the wire: `std_event_util_event_send`, the two receiving functions of
`std_event_utils.cpp` (`std_event_util_event_recv` reads the rest of a frame as one,
`std_event_util_event_recv_msg` the operation, the message and the data apart), on
`std_socket_op` and `std_read`. A frame is a sequence of parts: the header, the
operation, the message, the units of data. `stream` is what is in the socket,
`sends[p]` how far a publisher is, `recv` how far the subscriber's call is. `Transfer`
moves as many parts as it likes and there is room for, `GiveUp` is the wait that
ends, `Close` what the socket service then does. A part that is taken for another
says anything. `order` and `results` are histories of the frames begun and of what
the calls returned; `split` becomes true when a frame is cut short, two publishers
have written at once, or the subscriber has refused a frame. `MessagesComeWhole` speaks of the
stream up to there: behind that point the code keeps nothing that could be stated.

Bounds: `Event` (each published once), `Room` in the socket, `Space` in the
receiver's buffer.

### CmdRedir

`std_cmd_redir.c`. `phase` is where the reader thread is: `wait`
(`wait_for_connection`), `accepted` (before the flag is lowered), `top` (looks at the
flag), `select`, `copy`. `client` and `flag` are the two variables it shares with the
threads that call `std_cmd_redir_term_conn`. `StartShell` makes the second thread; if that
fails, init closes the reader's end of the console and returns an error, and the reader
goes on with it (`Broken`): its next select fails, the client it has is closed
(`BackToWait`), and the next wait for a connection is its end. `out` and `in` are the two directions of
the console, `buff` is `m_buff`, which goes from one connection to the next. Clients
connect, type and hang up; the shell thread prints and reads.

Bounds: the clients, `OutRoom` and `InRoom`, `MaxOut` chunks of output, `MaxIn` chunks
typed ahead, `MaxTerms` requests to end a connection.

### ConfigFile

`std_config_file.cpp`. `cfg` is the map of a handle, if one is open, `file` the
characters of the file, if there is one. `Load` is `load_file`, line by line as `fgets`
returns them. `std_config_file_write` has four ends: `Write`, all is written; `WriteFails`, a
line is cut short at any character and the error is returned; `WriteLosesEnd`, `fclose`
writes what is in the buffer and fails, which is not looked at, so that the call reports no
error; `WriteNotOpened`, the file is as it was. `saved` is what was last written without an
error being reported, `lost` whether some of it was lost nevertheless. `ReadsBack`
says that what was saved and not lost is read as it was written, and that an
unreported loss turns at most one entry, the last, into another.

Bounds: `MayFail`, the file that is written in part is the first one; the strings in `Group`, `Name`, `Value`; `MaxEntries`; `BuffLen` for `BUFF_LEN`.

### LinkedList

`std_llist.c` and `std_llist.h`: `links` are the two pointers of each item and of the
two sentinels; `content` is the sequence the calls should have made. `PlaceAfter` is the
walk of the sorted insertion.

### Arrays, Texts, Utilities

The functions that keep nothing, each beside the definition it is compared with.
Arrays: the merge sort, the bit arrays (with their searches from either end), the
TLV buffers, whose cells are headers and bytes (behind the buffer lies anything, with
any length). Texts: masks and prefix lengths,
the comparison of addresses, splitting, trimming and comments, tables of names,
`std_user_chmod`'s permission strings. Utilities is the state machine that calls each
once with every argument from its sets.

Where a header says one thing and the code another the comparison leaves the point
open, rather than to take the code's word, and the list at the end of this file names it:
the bits a search returns below or above its range, the sign of a comparison, the byte order of a mask,
a length that makes the total of a TLV 0 (`Stuck`).

### MCTools

The parts that use nothing of each other (ThreadPool, RBTree with RBLookups, Frames, CmdRedir,
ConfigFile, LinkedList, Utilities). All but ConfigFile and Utilities have
theorems and are extended, so that the run checks the very definitions the theorems name;
those two are instances. A behaviour is one of one part and the variables of the others stay as
they are, so the states are the sum of the parts'.

## Runs

| run | instance | question |
|---|---|---|
| `service` | 1 thread, the server and an adder, 2 connections, 2 descriptors, all kinds of application | types, `EveryClientHasOneKeeper`, `SelectsOnWholeOpenSet`, `KeeperClosesOnlyWhatWasAsked`, `EveryClientIsServed`, `BadDescriptorsLeave`, `ClosesInTime`, `ServerKeepsListening` |
| `radical` | 3 nodes, 2 walkers, 3 changes, limits 0 and 1 | types and order, `VersionsRise`, `MarkersHonest`, `ImplementsFeed` |
| `event` | 2 threads, 2 connections, 2 descriptors, 3 requests | types, `OnceAndInOrder`, `RegistrationsAreOwn`, `PublishIsComplete`, `RequestsAreHandled`, `ClientsLeave` |
| `radix` | 5 heads on prefixes of 3 bits, 2 walks in each other | types, `TreeIsTheHeads`, `VersionsReachUp`, `WalksKeepTheirNodes`, `LookupsAgree`, `CleanWalksMissNothing`, `ImplementsTable` |
| `tools` | each part, below | types; `NoLostWakeup`, `ImplementsJobPool`, `EveryJobStarts`, `JobsDoNotHoldUpDelete`; `TreeIsSorted`, `Balanced`, `TreeLookupsAgree`, `RebalancingEnds`; `MessagesComeWhole`; `SessionsAreSeparate`; `ReadsBack`; `ListIsItsContent`; `FunctionsAgree` |
| `pool_shutdown` | 2 workers, 2 jobs | finds a worker asleep after the last signal |
| `service_full_pipe` | a pipe of three bytes | finds the server and a callback waiting for each other |
| `service_fd_reuse` | an application that closes clients | finds a connection to be closed that nobody wanted closed |
| `radical_revisit` | 2 nodes, 1 walker, restless callbacks | finds nodes a walk never visits |
| `radical_reset` | 2 nodes, 1 walker that resets its walk in its callback | finds a marker that claims what its walker is yet to be told |
| `event_stale` | 1 descriptor, 2 connections | finds an event sent to a client that has not registered |
| `radix_walk` | the heads of `radix`, one walk | finds a head that a walk misses after it has removed a marked node |

The passing runs have, in this order, 430,377, 488,478, 519,891, 304,013 and 492,293 states.

In `tools` the pool has three workers and three jobs, one endless and one with a
`free_job_func`. Three workers are the least with which a signal can be consumed by one worker
while another sleeps and a third is busy; three jobs the least with which the
list is longer than one while a job runs.

The service has one thread for callbacks besides the server and the adder, which is
enough for one client to be returned while the other is in its callback: by the
server (in a service without threads), by the adder or by the thread. With two such threads the
liveness properties take too long; the safety properties are proved for any number of
them (`ClientsAreKept`, `SelectIsSound`, `ClosesWhatWasAsked`, `TypeCorrect`). The connections are alike, and
`InTurn` lets the second be made for the first time when the first has been. Two connections and two descriptors
are the least with which a descriptor is reused while another client exists and
`max_fd` falls and rises. `MaxSent = 2` lets a client be served, returned and
served again, or both clients at once. A pipe of six bytes takes all the
wakeups of the two connections of a run, so the passing runs say what holds
while the pipe is not full; `service_full_pipe` shows what happens when it is.
(The real pipe takes 64 KB, and the number of bytes in it grows by n - 1 in each
round in which n clients are read, since the server reads one byte.)

Three nodes are the least with one before, one at and one behind a marker; two
walkers the least with one that moves, or is aligned with the other, while the
other is in its callback; three changes let a node change again before, at or
behind a marker and leave another behind it. A limit of one ends a walk in the middle. Nodes and walkers are interchangeable, and the run has no
liveness property, so it uses their symmetry.

Three requests are the least with which a client is registered at two nodes on
the way of an event, or for an event while another thread registers; two
threads the least with which a publisher walks while somebody writes. With two
connections and two descriptors a number is reused while the other client
publishes.

The five heads of `radix` give a node with two children that has a brother, two
heads for one prefix, and a node on the way to a child: all five ends of an
insertion and all cases of a removal happen, also below a node without a head and
at the root. Two walks are the least with which a node is locked by one and swept by
the other; one version tells new from old. The bits behind a prefix are set in most
of the heads. A callback that stops the walk leads to the sweep as a count does, so
the count need not vary.

In `tools`: of the tree, seven data (keys 1 to 6, one of them twice) come and go in any
order; three more come in order behind them (`TreeGrowsInOrder`), because ten is the
least size at which a removal rebalances on two levels. Two publishers and a message
with and one without data in a socket with room for two parts cut every frame at
every place; one unit of space refuses data that just fits. Two clients are the
least with which a request is late; two chunks of output the least of which one can
be lost. The file's strings have brackets, blanks and equals signs at the ends and
within, and one line is too long for the buffer of nine. Five items (two keys with two
each) are in every order. The functions have bytes of three bits, arrays of up to
three bytes at every length and start, addresses of three bytes, arrays of up to six
elements to sort, up to two TLVs with up to two in each, strings of up to four
tokens, tables of up to three names, up to two clauses of permissions. This run says
`CHECK_DEADLOCK FALSE`: the events, the clients, the calls come to an end.

The service, the pool and the callers may all come to rest: nobody has to add a
job, connect or send; the change list stops at its bound. The runs therefore do not look for deadlock as such; what
must happen is stated by the liveness properties. In `radix` every state has a
successor.

### Fairness

- ThreadPool: a worker that can take a step takes it; so does a deletion that
  has begun. The mutex is not assumed to be fair: `WF` is on a worker's steps as
  a whole. No sleeper is woken without a signal, and nobody has to add or delete.
- SocketService: the server and the callbacks' threads go on when they can.
  The properties that hold without select's timeout are stated without fairness
  of `SelectTimeout`; those that need it say so themselves
  (`WF_vars(SelectTimeout) => ...`): the timeout of one second always passes.

- EventService: each watched descriptor is dispatched when it can be read, what
  is to be closed is closed, a thread takes its steps; the lock is fair only as
  far as publishers come to an end. Nobody has to connect, send or hang up.
  `RequestsAreHandled` leaves out the numbers a publisher has given up: such a client is
  closed with its requests unread, and the next one with the number is refused because
  it is still known. `ClientsLeave` is about all.

- MCTools: a rebalancing that is under way goes on (`WF` of `Rebalance`): it is
  one loop, which waits for nobody; and the fairness of ThreadPool above.

### What the violations show

- `pool_shutdown`: `dequeue` returns the length of the list after it has taken
  the mutex again (`std_thread_pool.cpp:108-110`), and the worker waits (line
  118) without another look at `shutdown`. If `do_shutdown` has signalled in the
  meantime nobody wakes it again; the condition is destroyed under it.
- `service_full_pipe`: `server_wakeup` blocks in `write` with `m_mutex` held, the
  server reads one byte in a round (`std_socket_service.cpp:57-61`) and takes
  `m_mutex` in the same round (lines 84, 94).
- `service_fd_reuse`: `m_pending_close` holds numbers. A client that is given up
  twice, with the server's `process_closed` between, is closed a second time
  after its number has gone to another connection.
- `event_stale`: `std_node_t::publish` gives a subscriber, who is slow or has just hung up, up with
  `std_socket_service_client_close` (`std_event_service.cpp:193`), which closes the
  descriptor and calls nobody. Its entry in `m_event_clients` and its
  registrations stay. The next connection with that number gets events it has
  not asked for, until `event_new_client` finds the number, removes it and refuses
  the new client.
- `radical_revisit`: a callback that appends the node it was called for and then
  asks for a revisit has the marker put before the node's new place, the end of
  the list (`std_radical.c:267-272`): what lies between is never visited.
- `radical_reset`: a callback resets its own walk, which `std_radical.h:82` allows at any time.
  The marker goes to the front with version 0; when the callback returns,
  `std_radical.c:254` writes to it the version of the node it was called for. If the walk
  then stops, the marker claims all changes up to that version, those of the nodes
  between the front and the node included, which the walker has yet to be told of. The walk
  itself goes by the place, so it is told of them in the end; who uses the version, or
  aligns another marker, is misled.
- `radix_walk`: the comment at `std_radix.c:1252-1259` postpones a removal because "we will mess
  up the walker"; the postponed removal does it as well. When the walk removes a marked node
  with one child, or a leaf on the right below a node without a head, it goes down into
  a subtree it has visited; when it removes a marked node with two children it goes up past the
  right subtree of the node above. The mark of such a node stays with it
  (`std_radix.c:1100-1119`), so a later walk removes it once more, though nothing is
  postponed any longer. `CleanWalksMissNothing` speaks of a walk up to the first node it
  takes out itself, whatever marks there are: until then it misses nothing, the
  marked heads included.

Some more disagreements are no runs of their own; the configurations that find them may be
run by hand.

- `tlc -config MCTools_key.cfg MCTools` refutes `WalksBeginAtKeys`. A walk from a key "begins
  from the node with that key (or greater) onwards" (`std_rbtree.h:357-358`), but the code
  begins with `RBT_WALKRIGHT` at that node (`std_rbtree.c:691`) and calls for those behind it
  only. In a tree with one node the walk from its key calls for nobody.
- `tlc -config MCTools_above.cfg MCTools` refutes `NothingIsAbove`. If no node has the key or a
  greater one the search returns null, which `_std_rbtree_walk` takes for a walk of the whole
  tree (`std_rbtree.c:688`): all nodes are visited, though all are below the key.
- `tlc -config MCTools_bits.cfg MCTools` refutes `BitsAreInRange`. The searches of bit arrays
  return bits outside the range their header names (`std_bit_masks.h:139-153`).
- `tlc -config MCRadix_next.cfg MCRadix` refutes `NextIsNext`. "The routine finds ONLY the next one from
  the given address" (`std_radix.h:379-381`), but for a prefix that is not in the table
  `std_radix_getnext` may return a head before it.
- `tlc -config MCRadix_heads.cfg MCRadix` refutes `WalksBeginAtHeads`. `std_radix_walk` from a head
  (`std_radix.h:397-401`) begins with `RDX_WALKRIGHT` there, and passes over the head and
  what is below it on the left.

`Balanced` shows besides that the way out at a
sibling that is the sentinel (`std_rbtree.c:229` and `:265`) is never taken.

## Proofs

`ThreadPoolProofs` proves, from `PoolAssumption` alone (a finite set of workers,
`NoJob` and `NoThread` not among jobs and workers):

- `PoolTypeOK`: `ThreadPoolSpec => []ThreadPoolTypeOK`.
- `PoolNoLostWakeup`: `ThreadPoolSpec => []NoLostWakeup`. The count of seekers against
  jobs is kept by every step, but only in states in which what the workers know
  is true, and that is `PoolInv`, a conjunction of named parts: `LockInv` (a
  worker between its lock and its unlock is the holder), `ListInv` (at `take` there
  is a job, at `wait` there is none unless the pool is shut down), `CloseInv`
  (the flag against how far the owner has got, which threads it has still to
  signal), `JobInv` (which places have a job). `PoolInv` is inductive, and
  `NoLostWakeup` is inductive relative to it. `SignalEffect` and `MoveEffect` say what
  a signal and a worker's step do to the sets of sleepers and seekers, and to
  their cardinalities; they carry the counting in every step of the proof.
- `PoolImplementsJobPool`: `ThreadPoolSpec => ImplementsJobPool`, the refinement with
  `queue <- jobs`, `running <- Running`, `closed <- Closed`. It needs `UniqueInv`
  besides: a job is in the list once, or with one worker, or finished.

`RadicalProofs` proves, from `RadicalAssumption` alone (nodes and walkers are
different, finitely many nodes, natural bounds):

- `RadicalTypes` (`RadicalTypeOK`) and `RadicalVersionsRise`, together by `ListInv`: the types, the
  order, the versions along it, and that no marker and no walk is newer than the
  table (`MarkersOld`). They need each other: that a renumbering stays within the
  numbers given so far is an injection of the nodes up to an item into the
  versions up to the last (`RankBound`), which is one because the versions rise.
- `RadicalMarkersHonest`, whatever callbacks do, by `HonestInv`:
  `MarkersHonest` is not inductive, because a walk writes the version it read
  before the callback to a marker it moved before the callback. `WalkHonest` says
  what is true in between: the walk's version is above the marker's and below
  all that is behind the marker, and the node has kept it if it is still before
  the marker. After a reset in the callback it says nothing of this walk until the
  callback has returned, and the next that returns writes a version that is right again.

- `RadicalImplementsFeed`, if callbacks are not restless: `RadicalSpec => ImplementsFeed`, the
  refinement with `stamp` the versions of the nodes on the list, `todo` the nodes behind
  each marker and `telling` the node of each callback. `ListInv` is not enough: a
  revisit puts the marker before the walk's node, and that the walker is then told of
  this node first, and again of no other, needs that nothing has come between the two
  (`Near`). A reset in the own callback is a step of the feed (`Begin`) and is covered.

`PlaceEffect` and `PlaceOrdered` are the lemmas about the order on which all rest.

`SocketServiceProofs` proves, from `ServiceAssumption` alone (the server, the
adder and the pool's threads are different, descriptors are numbers above the pipe's
and, as the kernel's table is, finitely many, the pipe has room for a byte):

- `TypeCorrect`, `SelectIsSound` (`SelectsOnWholeOpenSet`), `ClientsAreKept`
  (`EveryClientHasOneKeeper`), `ClosesWhatWasAsked` (`KeeperClosesOnlyWhatWasAsked`) and
  `MutexExcludes`, all from `ServiceInvariant`: `Spec => []ServiceInv`.
- `EveryClientHasOneKeeper` is not inductive: it speaks of clients alone, and a job for a
  descriptor that is no client would make one when the number is accepted again.
  `KeeperInv` says it of every descriptor in both directions (who is no client is in
  nobody's hands), and that whoever works on a descriptor does so for the connection it
  has now; from this it follows that `m_pending_close`, which holds only numbers,
  closes the connection that was meant. `ReachInv` is what makes `max_fd` right: a client
  beyond it is new, so that its first callback is still to raise it.
  `OpenInv` and `SelectInv` are about the server's copy of the set: what it copied is in
  the set, and open, until it has been through all clients. `LockInv` and `PipeInv` are
  proved first (`TypeAndLock`), because the guards that need them are the types of
  `holder` and `pipe`.

`EventServiceProofs` proves, from `EventAssumption` alone (keys are sequences that are not
empty), whatever clients do:

- `TypeCorrect`, `EventsComeInOrder` (`OnceAndInOrder`), `RegistrationsAreKept`
  (`RegistrationsAreOwn`) and the action property `PublishReachesAll`
  (`PublishIsComplete`), from `EventInvariant`: `Spec => []EventInv`.
- That nobody gets an event twice holds whatever clients do. It needs to be known that an
  event has one thread (`EventsInv`), that whoever has got the event under way is in
  this walk's `already_sent` (`SentInv`), and that a new connection has got nothing
  (`FreshInv`). `WalkInv` is the walk's loop invariant: those sent to and those still to
  be sent to at this node are those registered for the part of the key walked so far;
  at the end of the key that is `PublishIsComplete`.
- The order of one client's events, and that registrations end with their connection,
  hold for the numbers no publisher has given up (`event_stale` shows what becomes of the
  others), and `NumbersInv` says of each of these who has it: a thread, a job, the set of
  select or the list of what is to be closed, never two of them (`Keeper`). `Stage` says what
  the service knows of a descriptor at each place of its keeper, `Own` is the property;
  `OrderInv` that the event a thread publishes is its client's last. Once a number is
  given up nothing more is claimed of it, and nothing of the others depends on it.

`ToolsProofs` has the theorems of three parts, each from its own assumption. Of CmdRedir,
from `RedirAssumption` alone (natural bounds, `NoClient` is no client):

- `RedirTypeCorrect` and `SessionsAreKeptApart` (`SessionsAreSeparate`), from `RedirInvariant`.
  The invariant says that the console holds just the chunks between those taken and
  those printed, in order (`ConsoleInv`), that `m_buff` holds the last one taken, which is
  the last written to anybody unless its client has gone (`LastInv`), and which client
  the flag was raised for (`FlagInv`).

Of Frames, from `FramesAssumption` alone (lengths of data, the room and the space are
numbers):

- `FramesTypeCorrect`, and `MessagesAreWhole` (`MessagesComeWhole`) for any number of publishers
  and events, up to the first frame that is left unfinished, refused, or mixed with another's (`split`), from `FramesInv`: while no frame has been left before its end, at most one
  publisher is in the middle of a frame (`OneAtATime`), and the frames of what has been
  returned, the part the subscriber has got, the stream and the rest that publisher
  has still to send are, put together, the frames of all events begun (`Whole`). A
  subscriber that reads expects the length of the next event's frame: its header
  was the first part of what is left of all frames, which is a header
  (`NextFrame`, `HeadIsNext`).
- The frames are put together by a fold, about which something has to be known for
  every length: `FlattenAppend` and `FlatSplit`.

Of LinkedList, from `ListAssumption` alone (the ends are no structures, keys are numbers):

- `ListTypeCorrect` and `ListFollowsCalls` (`ListIsItsContent`), from `ListInv`: the links between
  neighbours of `content`, with the two ends put around it, go both ways (`Spelt`), nothing
  is in it twice (`Distinct`), and what is not in it has no links (`OthersFree`). All
  insertions put something behind a place (`SplicedSpells`), a removal leads past it
  (`BypassedSpells`). The walk of a sorted insertion ends, since it gets nearer to the
  end with each link, before the first greater key: there, in a list that is not sorted
  too, `SelectInSeq` puts it into `content`.

`RBTreeProofs` proves, from `TreeAssumption` alone (finitely many data, none of them the
sentinel, whose keys are numbers):

- `TreeTypeCorrect`, `TreeStaysSorted` (`TreeIsSorted`) and `TreeStaysBalanced` (`Balanced`), from
  `TreeInv`, for trees of any height and data with any keys, equal ones too.
- Neither property is inductive, and both speak of all that is below a node, which
  cannot be reasoned about by recursion here. `TreeInv` says instead that there are
  numbers with which every node agrees with its children alone: `pos`, the place of each
  node, and `low` and `high`, the range of the places below it (`Shape`). The range of a child
  lies within its parent's, on its side of the parent's place (`Nested`), and whoever
  has a place in a range is at the node or has a child to look for it (`Full`). So `Below` is
  what has a place in the range (`BelowIs`), and the tree is sorted if places rise with the
  keys (`Ordered`). A rotation changes two ranges and no place (`RotateLeftShape`,
  `RotateRightShape`); an insertion triples all numbers to make room (`AddShape`); cutting a
  node out changes none (`CutShape`), and the successor then gets the number of the node it
  replaces (`ReplaceShape`), which is right because no place is between theirs (`Heir`).
- In the same way `black` gives every node the number of black nodes on any way down
  from it (`Level`), which is what `Heights` finds (`HeightsAre`). While an insertion
  rebalances, only at its node may red be below red (`Growing`); while a removal does,
  one black node is missing above its node, and red may be below red only there
  (`Shrinking`). Each case of the two loops is a lemma that the fault is mended or goes on
  to the node the case names. A missing black node means that the sibling's ways down
  have one at least: it is not the sentinel.
- `SearchesAreRight` and `WalksAreRight`, together `LookupsAreRight` (`TreeLookupsAgree`), from
  the same invariant. A search that has gone down to n has only nodes before or behind n's whole
  range on its other sides (`Astray`), so the first node the way back passes on the other
  side is its neighbour (`BackFinds`). The nodes a walk will still call for are, in order,
  those with a place beyond the one it stands at: beyond its own, or the low or the high end of
  its range, as the walk comes from below, from above, or goes up (`Ahead`); in
  preorder those of them it is not below (`AheadBelow`). Every turn of the loop calls for the
  first of them or leaves them as they are (`TurnAhead`, `TurnBelow`), and comes nearer
  to the end (`Distance`: by those ahead, and between two calls by what is left of the
  way). So a walk lists that set in the order of the places (`WalkFromLists`), the
  recursive walk does too (`RWalkLists`), and there is one such list (`ListsUnique`).

`RadixProofs` proves, from `RadixAssumption` alone (natural bounds, heads whose addresses have
`Width` bits, `NoNode` and `NoHead` are no nodes and no heads):

- `RadixTypeCorrect`, `TreeIsCanonical` (`TreeIsTheHeads`), `VersionsAreAbove` (`VersionsReachUp`),
  `NodesAreKept` (`WalksKeepTheirNodes`), all from `IInvHolds`: `Spec => []IInv`, for every width,
  every set of heads and every depth of walks within walks.
- `IInv` says of the tree (`Sound`) that every link leads to the nearest node there is
  (`Linked`), that a node without a head has two children (`FullIn`) and that no node is
  older than one below it (`OlderAbove`); that heads and nodes agree (`HeadsFit`), and
  what the locks count (`LocksAre`). These need each other: the search of an insertion
  ends at a head because a node without one has children (`FarthestIsBest`), and is right
  because the links are (`PositionIs`); a removal may promote the only child because
  the nodes between are not there. `VersionsReachUp` is proved in
  a stronger form, which speaks of nodes whether they have a head or not.
- An insertion and a removal do the same to the links, one the other way round:
  `Joined` relates a tree to the one with a node between two others, `Added` and `Cut` say that
  each is linked if the other is. The five ends of an insertion give a tree that has
  `Grown` by the node of the head, and perhaps one without a head; all cases of a removal
  one that has `Shrunk`; what follows is proved of these two.
- That the nodes are just the prefixes of the heads and the places where two of them
  part follows from `FullIn`: under each child of a node without a head there is a head
  (`HeadUnder`), and where two nodes part there is a node (`PartingIsANode`).
- `RadixImplementsTable`: `Spec => ImplementsTable`, the refinement with `table <- TableOf`,
  `hver <- VersionOf`. `TableFacts` reduces it to what each step does to the set `InTable`.

- `CleanWalksAreComplete`: `Spec => CleanWalksMissNothing`, from `IInv` and `CleanInv`, for walks that
  have taken no marked node out themselves, whatever marks are in the tree. Where a
  walk stands and which way it goes say which nodes it will still come to: those
  under it, if it goes down, and those to the right of it (`Ahead`). `Frontier` says that
  of the heads in its range these are the ones behind the last it was called for. Going
  down, right and up keep this one step at a time (`DescendAhead`, `RightAhead`,
  `UpAhead`); turning back at an old node does because of `OlderAbove`. In a callback,
  when the tree may change in any way, a walk relies on nothing but its node: it is
  there, and is the last the walk was called for; what is ahead is found out again
  when the callback returns. `Ahead` says it by names, so that no list of nodes has to be
  carried through the changes.

- `PrefixLookupsAreRight`: `Spec => []PrefixesAgree`, in callbacks too, while no removal is
  postponed: the best, the next best, the exact and the less specific prefix, and
  whether a head is a leaf, for every address and length. Each look-up ends its way
  down at some node and climbs to the first node above it that will do. `UpUntil` is
  such a climb and `FirstAbove` what it finds (`ClimbsToFirst`): the lowest of the nodes
  that will do on the way. The way down ends below all nodes that are prefixes of what is
  looked for (`NearestIs`), since every link leads to the nearest node there is.

- `OrderIsRight`: `Spec => [](NoneMarked => FollowsTheOrder)`, in callbacks too, and with
  `PrefixLookupsAreRight` the whole of `LookupsAgree` (`RadixLookupsAreRight`): the next after a
  prefix that is there, subtrees, and the walk from the first head. The tree is in
  the order of its prefixes: what is behind a node is what is ahead of a walk that goes down
  from its left child or, without one, to its right (`DownAhead`), and what is to the right of a node
  is what such a walk from `NextRight` comes to (`RightGoesOn`, `NextRightIs`, `NextNodeIs`). So
  `std_radix_getnext` ends at the first head behind the prefix if that is there
  (`NextOfExact`), and of a prefix that is not there at one that extends it if there is
  any (`NextOfOther`), which is all that `_std_radix_getsubtree` asks of it (`SubtreeIs`). For
  the walks `Onward` is one turn of the loop: it keeps what is ahead but for the head it calls
  for, which comes before all the others (`OnwardIs`), and it brings the walk nearer to its
  end (`WalkFalls`: first by the nodes that are ahead, then by the turns left before the next).
  `GathersLists` makes of that, for any way that adds a list at each place, that the whole
  lists what was ahead at its start (`WalkFromLists`, `PowerWalkLists`).

`LeastNumbers` has the induction these modules use, and lists of sets in an order. The library's own theorems take an operator as a
parameter, which no prover here can instantiate; `Induction` gets it, for a set of numbers,
from a least counterexample, and `LeadsExists` and `LeadsEnds` say of a function that
follows links, and has a value at the end of them, that it exists and which end it
takes its value from, if something falls with each link: what `FarthestHead`,
`ClimbTo` and the look-ups are, and the searches of the red-black tree and the list.
`FollowExists` and `FollowEnds` say it of the end itself. `GathersExists` and `SpreadsExists`
say that there are functions that put a sequence together on such a way, or from two
lower ones: what the walks are.

Only model-checked:

- all liveness (`EveryJobStarts`, `JobsDoNotHoldUpDelete`, `RebalancingEnds`, and the two
  services'): liveness under fairness is out of the prover's reach;
- ConfigFile (`ReadsBack`), Arrays and Texts (`FunctionsAgree`), which have RECURSIVE operators, about which the prover can show
  nothing, and whose results are those of inductions over data.

## Not modelled

- Of the change list: the counter `rtt_radicalinuse`, which nothing reads, the wrap of
  a 64-bit version, and `std_radix_setversion` on a table with a change list: the two
  give versions from one counter, and a node whose version is set in place is no
  longer where its version belongs.
- Of the socket service: `std_socket_service_destroy`, and the data race on
  `m_clients` (the model takes each access to the set as atomic).
- Of the event service: malformed requests, the request that sets a buffer's size,
  failures of memory, and the data race on the map of clients. In EventService a request
  is read as a whole; a client that sends half of one holds its thread, since the read
  has no time-out.
- Whatever reads a destroyed thread pool's memory beyond "leaves or is undefined".
- Of the radix tree: `std_radix_destroy`, printing, the conversion of keys, allocations
  that fail, the counter `rtt_routes` (an insertion at a node that is marked is counted
  twice), and a versionwalk that begins at a head.
- Of the red-black tree: `std_rbtree_destroy`, which frees the table alone, printing,
  the debug switch, and walks that end early.
- Of the socket tools and file utilities: addresses, options and creation of sockets,
  `std_fd_copy`, the cloning of descriptors. Frames takes when a wait ends, and how often
  an interrupted call is made again, as any.
- The components marked `not_modelled` in `PROJECT.json`: wrappers of system calls,
  formatting, tables.

What the models take from the code as it is, though it may surprise a reader:

- *radix tree*: `std_radix_getnext` from a prefix that is not in the table may return a
  head before it (`std_radix.h:380` says the next one), and it expects the bits behind the
  prefix to be clear; `std_radix_walk` from a head passes over it and its left subtree
  (`std_radix.h:397-401` says it begins there);
  `std_radix_getbest` returns nothing if the best match is marked; `std_radix_remove` and
  `std_radix_versionwalk` read a head or a node after they have given it back or freed it
  (`std_radix.c:1268-1281` and `1455-1468`).
- *frames*: `std_event_util_event_recv_msg` refuses data that just fits
  (`std_event_utils.cpp:141`); nothing is done about frames of two publishers that mix.
  `fail_retry` is unsigned, so an interrupted `std_socket_op` is repeated for ever
  (`std_socket_tools.cpp:342`), and all waits of one transfer share one time
  (`std_socket_tools.cpp:352`).
- *red-black tree*: a walk from a key begins behind the node with that key
  (`std_rbtree.h:357-361`, `498-500`).
- *thread pool*: `do_shutdown` destroys the condition though somebody may sleep on it (`pool_shutdown`);
  what becomes of the caller is then undefined too.
- *command redirection*: a request to end a connection is lost between the accept and
  the lowering of the flag, and is not noticed while the reader waits in select; the
  reader and the shell can block each other; a failed init leaves the descriptors
  redirected, and one that fails at the second thread leaves the reader running with its
  descriptor closed; the first thing a new client sees may be what the client before has
  typed.
- *configuration file*: the file is truncated first, and what is lost when it is closed is
  not reported (`std_config_file.cpp:236-237`); half a line takes the header of the next group into a value; a line
  longer than the buffer is read as two.
- *functions*: the mask of `std_find_last_bit8` masks nothing (`std_bit_masks.c:104`), so
  the search goes from the end of the byte; a search may return a bit below its start or behind the
  length, where `std_bit_masks.h:139-153` says it does not; a TLV whose length is 2^64 less than
  the header's has a total of 0 and counts as valid (`std_tlv.h:95-97`, `209-212`), and
  the search for another tag stays there for ever; the mask of an IPv4 prefix is stored as a number
  of the host (`std_ip_utils.c:90`), so that its bytes are not in the order the
  comparison goes by; the last empty token of a string is dropped and an empty delimiter never
  ends; `rtrim` does not look at the first character; a prefix length is cut to eight
  bits; "=" in a permission string replaces the permissions of all, and a mode that has
  become 0 is read anew; the header of `std_ip_cmp_ip_addr` says the opposite of the
  code about the sign (`std_ip_utils.h:110`).

## Plan

What is left, in this order; every invariant that a run checks and the prover can reach is
proved:

1. EventService's reduced socket service as an abstract specification which
   SocketService implements.
2. Destroy of the socket service, composed with ThreadPool's shutdown.
3. The change list and the radix tree on one table, with `std_radix_setversion`.
