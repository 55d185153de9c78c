# A TLA+ verification of rhizofs

rhizofs exports a directory over the network: a fuse client turns filesystem
calls into protobuf messages, sends them over 0mq REQ sockets, and a server
executes them with plain system calls below the exported directory. This
directory holds TLA+ models of that program, the TLC runs that check them on
small instances, and TLAPS proofs for instances of any size. Paths below are
relative to the repository; the program lives in `src/`.

## 1. The system

### Components

| component | code | state it keeps | operations |
|---|---|---|---|
| exchange | `src/fs/rhizofs.c` `Rhizofs_communicate`, `Rhizofs_check_connection` | locals of the calling thread: socket, number of repeated sends, `renew_socket` | one request, one response; ping before mounting |
| socket pool | `src/fs/socketpool.c` | a pthread key holding one REQ socket per thread | get (create, connect, store), renew (close, clear), destructor at thread exit |
| server worker loop | `src/server/servedir.c` `ServeDir_serve` | the REP socket, request and response being handled | receive, unpack, dispatch, pack, reply; ways out of the loop |
| operation handlers | `src/server/servedir.c` `ServeDir_op_*` | none: the exported directory is the state | 20 request types |
| attribute cache | `src/fs/attrcache.c` | hash table path -> stat with a creation time, one mutex | copy_stat/get, set, remove, shrink |
| hash table | `src/kazlib/hash.c` | chains, node count, marks for growing and shrinking | insert, lookup, delete, scan, grow, shrink |
| filesystem operations | `src/fs/rhizofs.c` `Rhizofs_*` | the cache | one function for each fuse callback |
| conversions | `src/mapping.c`, `src/datablock.c`, `src/path.c` | none | errno, permissions, flags, attributes, data blocks, path joining |
| server life cycle | `src/server/main.c` | context, sockets, worker and authentication threads | start, authenticate, shut down from a signal handler |
| mount life cycle | `src/fs/rhizofs.c`, `src/fs/main.c` | fuse private data, pool, cache | init, destroy, option parsing, connection check |
| wire format, LZ4, key generator, logging, hash function | `src/proto`, `src/lz4.c`, `src/tools`, `src/dbg.*`, `src/hashfunc.c` | none | not modelled, see section 7 |

### How they interact

Fuse calls the filesystem operations on many threads at once. An operation may
first ask the attribute cache (`getattr`), otherwise it builds a request and
calls `Rhizofs_communicate`, which takes the thread's socket from the pool. The
request passes the server's ROUTER socket and a DEALER queue to any idle worker;
the worker runs the handler and its reply is routed back to the socket it came
from. Successful mutations remove the path from the cache; `getattr` and
`readdir` put entries in. The only shared state in the client is the cache (one
mutex, not always taken) and 0mq; in the server it is the exported directory.

### What is hard

* A timeout in the client races the late answer of the server. The socket, not
  the message, is what ties an answer to its call: there are no request numbers
  on the wire. After an error the code must decide whether the socket is still
  usable.
* The server may execute an operation whose caller has given up, be restarted
  between any two steps, or lose a worker for good.
* `errno` is carried through macros that reset it and through library calls that
  do not set it.
* The cache is used by all threads; some of its reads are outside the mutex.
* The server answers an operation in several system calls, with other workers
  and local processes in between.
* `shutdown` of the server is a signal handler that closes sockets, waits for
  the 0mq context and joins threads, on whatever thread the signal interrupts,
  and that a second signal may interrupt in turn.
* An unmount has three functions that clean up the same pool and cache, and waits
  for sockets that only the destructor of a pthread key closes.
* Buffers are computed from lengths: of joined paths, of compressed data, of
  directory listings.

`PROJECT.json` lists these as hazards, each at its line.

### What makes each part correct

* exchange and pool: an answer goes to the call it belongs to; a pooled socket
  can send; sockets do not leak; nothing is executed twice; the errno is the
  server's verdict; every call returns.
* cache: table, heap and count agree; changes only under the mutex, which is
  always released; the size bound holds; no node is used after it was freed;
  entries are served no longer than their age allows.
* handlers: the answer describes the directory at some point of the handler's
  execution; memory written is memory allocated; errors are reported.
* conversions: what one side encodes the other decodes to an equivalent value.
* life cycles: start-up failures and shutdown release everything once and do not
  block.

## 2. The plan

1. **Communicate**, RemoteCall: the exchange, the pool, the worker loop. Done.
2. **AttrCache**: the cache lock by lock on a heap of nodes. Done.
3. **ServeDir**, ExportedTree: the exported tree, one action for each handler,
   `readdir` in its two passes with other workers in between. Done.
4. **RhizoFS**: the client operations composed with the cache and the handlers:
   how old the attributes served may be, which of its own changes a thread sees. Done.
5. **HashTable**: chains, growing and shrinking, shown to implement the set of
   keys of **HashContents**, with `hash_verify` as invariant. Done.
6. **Mapping, DataBlock, PathJoin**, composed by **Conversions** to whole ways of
   a value between two system calls. Done.
7. **ServerMain, MountMain**, composed by **Lifecycle**: start-up, signals and
   shutdown; ping, init, session and destroy of a mount. Done.
8. Proofs: every safety invariant of the runs, the action property of the cache and
   the two refinements, for every value of the constants (`StaleOnlyOverlooked` for
   a client of one thread, with two it is false). Done. Liveness stays with TLC.

Order: what can corrupt data or hang a mount comes first.

## 3. The modules

### RemoteCall

The abstract specification: a call is invoked, executed at most once, and
answered, failed or refused. A failed call tells nothing: it may still be
executed later. An answered call never is.

### Communicate

State. `client` is the phase of the program (pinging, mounted, gone). Calls are
numbered by `nreq`; the number names the request and, for the call that creates
one, its socket. `tsd` is the pool's thread-specific slot; `sockState` the state
of each REQ socket (a REQ socket that has sent must receive before it can send
again). `pc`, `req`, `sock`, `reps` are the locals of `Rhizofs_communicate` for
each caller. `wire` and `replies` are messages under way. `worker` is the state
of each server worker. `handled`, `outcome`, `err`, `resp` record what happened
to each request and are not read by the actions.

Actions and code:

| action | code |
|---|---|
| `Begin`, `BeginNoSocket`, `BeginPing`, `PingNoSocket` | socket from the pool or for the ping, and its failure |
| `Pack`, `PackFails` | `Request_pack` |
| `SendOk`, `SendAgain`, `SendTimesOut`, `SendInterrupted`, `SendFails` | the send loop and its exits |
| `InitResp`, `InitRespFails` | `zmq_msg_init` of the response |
| `PollReply`, `RecvFails`, `PollExpires` | the one `zmq_poll`, receiving, unpacking |
| `UninitialisedClose` | the error label closes messages that were never initialised |
| `ThreadExits` | the pthread key's destructor |
| `WorkerReceives`, `WorkerHandles`, `WorkerReplies`, `WorkerEnds` | `ServeDir_serve` |
| `ServerRestarts`, `LoseRequest`, `LoseReply` | the environment |

Every failing path ends in `FailRenew` or `FailKeep`: the error label, with and
without renewing the socket. `CallEnds` adds what `Rhizofs_check_connection`
does at the end of its call.

Abstractions. A request's content is left out; what matters is which request it
is. The errno travels as one of six protocol values that stand for the cases of
the mapping table: none, `ERRNO_INVAL`, another mapped one, an unmapped one, and the
two that the server sets itself. A handler either made its system call, with
success (`done`) or an error (`failed`), refused the request (`INVALID_REQUEST`),
gave up before the call (`aborted`), or could not read it (`unserializable`). The
client makes EINVAL both of a refused request and of a system call that failed with
EINVAL (readlink of what is no link, rename into the own subtree), and EIO both of an
unreadable request and of an errno without a row; so `VerdictIsServers` says of
these only that nothing was done. An aborted operation is answered with 0, like a
success, and `VerdictIsServers` says that too: 0 means done or aborted. Time is not counted: the send loop's time is the
number of failed sends, and a poll can expire at any moment, which includes
every schedule of the real clock. `zmq_close` of an uninitialised message is
undefined behaviour: either harmless or the end of the process.

External: 0mq. A message to a closed socket is dropped by the ROUTER, REQ
sockets alternate between sending and receiving, `ZMQ_LINGER` 0 drops what a
closed socket has not delivered.

### AttrCache

State. `table`, `nodecount` are what `hash_lookup` and `hash_count` see; `mem`
and `ts` the heap: a node with its key and entry is free, linked or leaked.
`mutex` is `mutex_modify`. `pc`, `path`, `held`, `num`, `stamp`, `cur` are
locals of the operation each thread is in. `now` is `time(NULL)`. `undefined`
becomes true when the program uses a node it must not use; nothing is modelled
after that.

| action | code |
|---|---|
| `CopyStat`, `CopyStatGet`, `CopyStatExpire` | `AttrCache_copy_stat` with `AttrCache_get` |
| `Set`, `SetCheckFull`, `SetInsert`, `SetNoMemory` | `AttrCache_set`; the check for room is outside the mutex |
| `ShrinkCount`, `ShrinkScan` | `AttrCache_shrink`; its count and clock are read outside the mutex |
| `Remove`, `RemoveDelete`, `RemoveDangling`, `RemoveRaces` | `AttrCache_remove`; its lookup is outside the mutex |
| `Acquire`, `Unlock` | the mutex |
| `Tick` | the clock |

The model is of the release build (`-DNDEBUG`): the assertions of `hash.c` do
not stop the program. The order in which a scan meets the entries depends on the
hash values, so `ShrinkScan` may remove any entries, the deprecated ones first.

### HashContents and HashTable

`HashContents` is what the cache expects: a set of keys to which one key at a time
is added and from which one is removed. `HashTable` is how `hash.c` keeps it. `hash`
is the `hash_t` with its array of chains, mask, marks and count; `scan` the
`hscan_t`, the node returned next and what is behind it in its chain; `mode` what
the table is being used for; `removed` and `num` are locals of `AttrCache_shrink`,
and `seen` records what a scan has returned.

| action | code |
|---|---|
| `hash_create`, `hash_insert`, `hash_delete` | the functions of these names; `grow_table` with a `realloc` that may fail, `shrink_table` |
| `Shrink`, `Expire`, `ExpireDone`, `Evict`, `EvictDone` | the two scans of `AttrCache_shrink`, with `hash_scan_delete` on the way |
| `hash_free_nodes`, `FreeNode`, `hash_destroy` | `AttrCache_deinit` |

A node is named by its key, and a chain is the set of its nodes: their order
within a chain depends on the history and nothing relies on it. The mask is a
number, so that `hkey & mask` is a remainder; the hash function is a constant.
Interleavings are the subject of AttrCache: here the mutex is taken for granted.

### ExportedTree and ServeDir

`ExportedTree` states what the handlers rely on of the file system, which is
external: a tree of at most two levels, and each system call as the set of its
outcomes. An inode's kind and the request that changed it last are all that is
kept of its contents, mode and times. Not kept are the link count and the times of a
directory that change with its entries. Symbolic links lead out of the tree. What is
exported at the start is a well-formed tree with finitely many names that no request
has touched; that it stays well-formed is a theorem.

State of ServeDir. `tree` is the exported directory. `job` holds each request
with the locals and the response of its handler; `fds` is the process's table of
descriptors, which all workers share. `stay` records the names a directory has
kept during a listing, for the properties. `undefined` becomes true when the
process writes past an allocation or packs what it has freed; nothing is
modelled after that.

Each `ServeDir_op_*` is an action of the same name, a step being one system call.
The handlers that make one call are one step (`Syscall`); open, create, read and
write open, use and close a descriptor in three to five; readdir is
`Opendir`, `CountEntries`, `Rewinddir`, `FillEntry` for each name, `EndListing`
or `FillFails`. `MissingParameter` is the check for optional fields that the
macros `REQ_HAS_OPTIONAL*` put into the handlers, `ServeDir_fullpath_fails` the
failure of path joining that all of them share. Any call but readdir(3) may also be
refused with EACCES. A response's errno is set where the code sets it: the error
labels that a failed check leads to set none. `gaveup` keeps which check failed, and
`MayGiveUp` which handlers have such a check: the path, the conversion of permissions
or flags, memory, a data block of no use or of another size than the request says,
getgroups. An error of readdir(3) in either pass ends its loop as the end of the
directory does; `cutshort` keeps that it happened. A write whose `close` fails is not
`done`, though its answer has no errno, and its error label closes the descriptor a
second time (`badclose`).

### RhizoFS

Extends ServeDir. `call` is the request each thread of the fuse loop waits for,
`begun` the time it was sent, `cache` the attribute cache as a map from paths,
`ret` what the last operation returned. `held` (when a path last had certain
attributes on the server), `touched` (the paths whose attributes the request of a
thread has changed, whatever path it names), `since` (what a path has had since its
last acknowledged change) and `kept` (its entry survived such a change) are records
for the properties. Each operation is an action
of the same name, with three alternatives: it begins (`Start`: send, or fail before
that), it gets an error (`Reported`), or an acknowledgement, after which it
updates the cache. What fails before the send (`NotSent`) returns the errno of its
place: ENOMEM, ENOTSOCK, EFAULT or 0, EINTR, EAGAIN, EIO. `GiveUp` is a failed
exchange after the send, with the errnos of its places: by RemoteCall, the request
may still be executed later. `Deliver` and `Serve` are the server.
The races inside the cache are those of AttrCache; here its operations are atomic.
The cache has no capacity here, since the bound of `AttrCache_set` does not hold for
several threads (its check for room is outside the mutex): storing an entry may drop
any others. The bound is the subject of AttrCache.

### Mapping, DataBlock, PathJoin and Conversions

`Mapping` holds the conversions of `mapping.c` as functions between what system
calls use and what a message holds: error numbers by their table, permission bits
and open flags as numbers, file types, times, file system statistics with the
width of their integers. `DataBlock` follows how many bytes a block has, what
LZ4 makes of them and how large the buffer is. `PathJoin` keeps of a path its length
and whether it begins and ends with a separator.

`Conversions` applies them in the order of the code. `kind` is the kind of value,
`trip` everything the value has been: a `stat` of the server becomes the attributes
of an answer, the `stat` the client shows, the times of a `utimens` request, the
file after `utimes`, and is shown again; a mode, flags, an errno, statistics, data
and paths likewise. The mode of a create is a journey of its own: the server adds
`S_IWUSR` to what was asked for. Every step is one place of the code where the conversion is
called.

External: the values of the `O_` flags; LZ4, which makes at least one byte of its
input and, when nothing repeats, one run of literals, the longest output its format
allows (`Literals`).

### ServerMain, MountMain and Lifecycle

`ServerMain` is one server process. `srv` has the label and the blocked signals of
each thread (main, the workers, the ZAP thread), the static variables (`context`,
`in_socket`, `worker_socket`, `workers`, `exit_code`, the ready flag), and what they
point to: the context, the open sockets, the joined threads. A step is a library
call or an assignment to a static variable, so a signal can come between
`zmq_socket` and the assignment of its result. `Interrupted` starts `shutdown` on
the main thread, or on another one if the main thread blocks the signal, as it does
once its handler runs. `happened` records what went wrong, for the properties.
`unsent` says that a reply waits in `in_socket` for a client that does not take it:
the server leaves `ZMQ_LINGER` at its default, for ever (only the client's pool sets
it), so `zmq_term` waits for this reply too, also after `zmq_close`. `ReplyTaken` is
the client taking it or going away.

`MountMain` is one process of the client: `Rhizofs_run`, the private data and
context of `Rhizofs_fuse_main`, keys, ping, `fuse_main`, `Rhizofs_init` with its own
context, operations that take sockets from the pool, the end of the session with
fuse cancelling its threads, `Rhizofs_destroy`, and the return. Memory that is
freed a second time, or used after it was freed, is recorded in `misused`: from then
on the process may crash in any call that touches the heap.

`Lifecycle` runs either program. They meet only on the network, where each lets
any outcome happen, so neither sees the other's state.

External: fuse (when it calls init and destroy, cancels and joins its threads),
0mq (`zmq_term` waits for every socket of the context and for what they have not
sent), the delivery of signals.

### Proof modules

`CommunicateProofs`, `CommunicateRefines`, `AttrCacheProofs`, `ServeDirProofs`,
`RhizoFSProofs`, `HashTableProofs`, `ConversionsProofs` and `LifecycleProofs` hold
the theorems of section 6. The `MC` modules give names to model values, the
exported trees, the operations each request may be, and the symmetry sets.

## 4. The runs

| run | instance | checks | shows |
|---|---|---|---|
| `communicate_safety` | 2 threads, 2 workers, ping and 2 calls, about 1.3 million states | `TypeOK`, `NoStaleReply`, `PooledSocketReady`, `OneOwner`, `AtMostOnce`, `VerdictIsServers`, `SilentOnlyUnsent` | the exchange is safe under timeouts, failures, lost messages, restarts and thread exits; a failure that looks like a success was never sent |
| `communicate_live` | 1 thread, 1 worker, ping and 2 calls, about 154,000 states | `CallReturns`, `ImplementsRemoteCall` | every call returns; the exchange implements RemoteCall |
| `attrcache_threads` | 2 threads, 2 paths, 3 nodes, clock to 1, about 274,000 states | `TypeOK`, `TableSound`, `ChangedUnderMutex`, `MutexReleased`, `SafeInTurn` | table, heap and count agree up to the first undefined step; locking discipline, on error paths too; threads that take turns (fuse's `-s`) keep the bound and use no dead node |
| `attrcache_stale_remove` | 2 threads | `RemovedNodeBelongs` | violated, see below |
| `hashtable` | 10 keys, a table of 2 chains that grows to 8 and shrinks to 4, about 130,000 states | `HashTypeOK`, `hash_verify`, `ScanSound`, `ScanComplete`, `ImplementsContents` | every node stays where lookups search for it, through growth, failed growth and shrinking; scans that delete come by every entry once; the table is a set of keys |
| `servedir_handlers` | 2 workers: a request of any type, with and without its fields, and one that renames, makes, removes or writes; three trees of two levels with links and empty directories, about 2.0 million states | `TypeOK`, `AckMeansDone`, `DescriptorOwned`, `DescriptorClosed`, `ListingComplete` | the tree stays a tree; an answer without errno means that the work is done, that the handler gave up at one of the checks it has, or that a write's close failed; nobody uses another worker's descriptor before a close fails; none stays open; a listing without errno misses no name that stayed, unless readdir(3) failed |
| `servedir_overflow` | 2 workers | `ListingFits` | violated |
| `rhizofs_operations` | 1 thread and 2 workers, a getattr or a truncate and then an operation of any kind, two names, clock to 2, about 1.4 million states | `FsTypeOK`, `ServedFresh`, `StaleOnlyOverlooked` | types; what is served is at most `max_age_sec` and one operation old; one thread sees its own changes, but for those the code removes no entry for |
| `rhizofs_stale_fill` | 2 threads, getattr and truncate | `OwnChangesSeen` | violated |
| `conversions` | every mode, open flag and errno of the table; times, statistics, payloads and paths at their boundaries, about 67,000 states | `FilesLookAlike`, `TimesDoNotDrift`, `OpensAsAsked`, `AnswersArrive`, `DataArrives`, `JoinFits` | what survives a way to the other side and back, what is lost, and exactly when a joined path is too long for its buffer |
| `conversions_overrun` | the same | `CompressedFits` | violated |
| `lifecycle` | a server with 2 workers and the ZAP thread, 2 signals; a mount with 2 threads or `-s`; about 88,000 states | `LifeTypeOK`, `DefinedShutdown`, `OrderlyExit`, `ShutdownEnds`, `OrderlyUnmount`, `UnmountEnds` | every way from main to the end of either program: which ends are orderly, which are undefined and after what, and that shutdown and unmount end |

Bounds. `MaxRequest` = 3 allows the ping and two further calls, by one thread (a
late reply meets the next call on the same socket) or by two (replies crossing
each other); this is the shortest history in which a stale reply, a renewed and a
reused socket can meet. `SendRepeat` = 2 gives a repetition and a timeout. For
the cache, `MaxCount` below the number of paths makes it full; three nodes let a
freed node be used again for another path; the clock passes `MaxAge`. The proofs
remove these bounds, and those below, for every safety property.
A handler is disturbed by one other request: enough to rename a directory away under
a listing, to change it between the passes, and to be given a descriptor that a
write then closes a second time. In RhizoFS `MaxAge` is 0 and the clock reaches 2,
so that an entry can be filled late, be served and expire; a first request that is
given up can change the file while the second one is under way. Two names are what a
rename over an existing file takes. Two threads are in `rhizofs_stale_fill`, where
nothing expires.
The hash table needs nine entries to grow twice from two chains, and the values
are chosen so that some keys part when it grows and some never do. For the
conversions the inputs are either all there are (modes, flags, error numbers) or
those on both sides of every threshold (100 and 101 bytes, 14 and 15, 24499 and
24500, the last nanosecond); `SignBit` = 8 stands for the
highest of the 64 bits of a statistic. For
the life cycles, two signals are what it takes for one shutdown to interrupt
another, and a second worker is one that is joined after the first.

Deadlock checking is off where the model may stop for good: when all calls are
used up, when the program has exited, or after undefined behaviour. Each property
of a passing run has a mutant in `PROJECT.json`: a changed definition, such as a
socket kept after a timeout, under which the property fails.

### Disagreements found

* `AttrCache_remove` looks a node up before it takes the mutex and deletes it
  afterwards; in between another thread may have freed it
  (`attrcache_stale_remove`).
* A file created between the two passes of `ServeDir_op_readdir` is written past
  the array that was allocated for the entries counted (`servedir_overflow`).
* A getattr that was answered before another thread's truncate is cached after
  the truncate has returned (`rhizofs_stale_fill`).
* 101 bytes that do not get smaller are 102 as an LZ4 block, in a buffer of 101, and
  LZ4 is not told the size of the buffer; a comment in `set_lz4_compressed_data` says
  that the extra memory is there "to prevent writes outside the allocated memory area"
  (`conversions_overrun`). By `OverrunBounded` (proved) it is at most two bytes, and
  none from 24500 bytes on.

The models also show, without a run of their own:

* A request that cannot be packed makes the operation return 0, success:
  `Request_pack`'s check macro resets `errno` before it is stored (`PackFails`,
  `NotSent`). getattr also returns 0, with an unset buffer, when the answer has no
  attributes (`Rhizofs_getattr_remote`).
* An operation without an answer fails after one poll of one second with the
  errno of some earlier library call, usually EIO (`PollExpires`); the comment on
  `settings.timeout` promises EAGAIN after that timeout.
* `AttrCache_set` checks for room before it takes the mutex, so with two threads
  the table can grow past its maximum, after which `hash_isfull`, an equality,
  never holds again (`SetCheckFull`); while threads take turns `SafeInTurn` is
  proved.
* `AttrCache_shrink` unlinks entries and frees none (`ScanDelete`), and does not
  remove the oldest first, as `attrcache.h` says (`ShrinkScan`): after the
  deprecated ones it takes the first it comes by.
* The comment on `hash_create` says that the table shrinks when its load falls to
  0.5, down to its initial size. The second condition of `hash_delete`,
  `nodecount > INIT_SIZE` (`Dwindled`), stops that earlier: a table that has grown
  never has less than twice its initial size again.
* Data that does not get smaller is sent as an LZ4 block all the same, longer than
  the data; the repository's README says it is sent uncompressed.
* A handler that gives up at a check answers without an errno, and so does a write
  whose `close` fails, which may have lost the data (`AckMeansDone` names these). A
  listing in which readdir(3) fails is answered short and without an errno
  (`CountEntries`, `Rewinddir`).
* After create, an open with `O_TRUNC`, mkdir, mknod, symlink and link, and for the
  target of rename and other links to a changed file, the cache goes on serving what
  was before, for up to its maximal age (`Overlooks`, `StaleOnlyOverlooked`).
* A file is always created with the owner's permission to write, whatever mode was
  asked for (`ServeDir_op_create`, `FilesLookAlike`).
* A reply queued for a client that stays connected and does not take it keeps the
  server from shutting down (`TermReturns`, `ShutdownEnds`).
* With `/` exported, `path_join` writes the terminating zero one byte past its
  buffer for every request, and the path has two separators (`JoinFits`).
* Files of the server's user are shown as those of the process that asks, not of
  the user who mounted, as the README says (`Attrs_copy_to_stat`); a cached entry
  keeps the owner of whoever asked first.
* The setuid, setgid and sticky bits are lost both ways (`FilesLookAlike`).
* With `-a`, a shutdown that reaches `zmq_term` crashes: the ZAP thread compares
  the string that `receive_string` could not receive (`AuthCrashes`).
* A signal before all workers have their sockets, or during a shutdown, may
  close, join or free twice, or wait for ever; nobody looks at the result of
  `pthread_create`, and a thread that was not created is joined
  (`DefinedShutdown`, `ShutdownEnds` name the exceptions).
* Every regular unmount frees the name of the pool's socket three times
  (`SocketPool_deinit`). With `-s` it does not end at all: the main thread's
  socket stays open and `zmq_ctx_destroy` waits for it (`UnmountEnds`).

## 5. Fairness

`communicate_live` assumes weak fairness of the steps of a call that has begun,
one caller at a time: a thread in `Rhizofs_communicate` runs, or sleeps in
`usleep` or in `zmq_poll` with a timeout, and both end. Nothing is assumed of the
server, of its workers or of the network, and nothing of new calls.
`attrcache_threads` assumes weak fairness of the thread that holds the mutex,
which neither sleeps nor waits in its critical section. Nothing is assumed of
which waiting thread gets the mutex.

`lifecycle` assumes weak fairness of each server thread's own steps (`ServerFair`)
and of the mount's steps and those of its fuse threads (`MountFair`): a thread runs
on, and an operation that has begun ends, by `CallReturns`. Nothing is assumed of
signals, of errors in the queue or in a worker's loop, of new operations or of an
unmount, nor of a client taking its reply (`ReplyTaken`): `ShutdownEnds` excepts a
reply that stays unsent for ever. A worker leaves its loop by itself only when the context is being
terminated, which is when 0mq makes its receive return; and a session that
`fuse_exit` has ended stops.

## 6. The proofs

For every set of threads, workers, paths and nodes and every bound, from the named
assumptions of the modules only: the main thread is no pool or fuse thread; the
bounds are natural numbers; the null values are no members; paths, nodes and names
are finite sets; the exported trees are well-formed and no request has touched them;
modes, flags, times and statistics are numbers in the range of their types; the
server has 1 to 200 workers, as its option parser allows.

**CommunicateProofs** proves `Spec => []IInv` and from it `TypeOK`, `NoStaleReply`,
`PooledSocketReady`, `OneOwner`, `AtMostOnce`, `VerdictIsServers` and
`SilentOnlyUnsent`. None of these but the types is inductive by itself. The
argument: a message in flight on an open socket belongs to the caller waiting there
(`NoStaleReply`). A caller that gives up after sending drops its socket, so what is
still under way for it reaches nobody. To see that no second caller waits on the
same socket one needs `OneOwner`, and that the owner's position determines the
socket's state (`SocketStates`). That a new call does not collide with an old number
is `Numbered`; that a call has one caller is `CallsDistinct`. For `AtMostOnce`, a
request not yet handled exists in one place only (`UnseenOnce`, `Unsent`), its
answer in one place only (`AnsweredOnce`), and `HandledCount` ties the counter to
the recorded outcome. `Verdicts` carries the errno from the handler through worker,
reply and response, with what the operation came to. All failing actions are reduced to one of two forms (`Failed`)
and all losses to one lemma (`LossStep`), so that the induction has a step for each
kind of change. `SilentOnlyUnsent` is inductive beside `IInv`: a call that returns 0
without a response has failed in `Pack`, before its request was sent, and what is
nowhere (`Absent`) cannot come back, since a later call has another number.

**CommunicateRefines** proves `Spec => ImplementsRemoteCall`. Every step is quiet,
ends a call, begins one or executes one (`StepKinds`); each of these maps to a step
of RemoteCall or a stutter. It needs one more invariant: nothing is under way for a
call refused for want of a socket (`RefusedUnsent`).

**AttrCacheProofs** proves `TypeOK`, `TableSound` and `MutexHeld` (mutual exclusion)
from their conjunction and `Arguments`, and the action property `ChangedUnderMutex`.
The core is that deleting, replacing and scanning away entries keep table, heap and
count in agreement (`DeleteFreeAgrees`, `InsertAgrees`, `ScanDeleteAgrees`), with
the cardinality theorems of the library. While the threads take turns
(`SafeInTurn`), `CountBounded` and `Defined` follow from `NothingStale`: what a
check has found still holds when the operation relies on it.

**HashTableProofs** proves `HashTypeOK`, `hash_verify`, `ScanSound` and
`ScanComplete`, and that the table implements HashContents, for any keys and any
hash function. `Good` says of a table that it is well typed, that its marks stand in
a fixed relation to the number of chains, that each node is in the chain of its hash
value and that the count is right. The core is arithmetic on remainders: a value
modulo twice the number of chains is its remainder modulo that number, or that plus
the number, depending on the exposed bit. So splitting and joining chains keep
`Good` and lose nothing. A power of two is a number that every set holds which has 1
and the double of what it has; TLC evaluates this over the sets up to the number
(`is_power_of_two`), and `PowerBounded` shows that this is enough. `Progress` says
of a scan that what it has returned and what is ahead of it make up the table, and
`ScanOK` that what is ahead is still linked; deleting the node just returned takes
away nothing ahead.

**ConversionsProofs** proves `DataArrives`, `OverrunBounded`, `JoinFits`,
`TimesDoNotDrift`, `FilesLookAlike`, `OpensAsAsked` and `AnswersArrive` for data of
any length and any output LZ4 may have, any path, any time, any mode, any mask of
flags and any statistics. The invariant says which conversion made each station of a
journey; the properties then are facts about the operators. `LiteralsExcess`
compares a quotient by 255 with one by 250; `FullPath` and `EntryPath` add up what
`path_join` allocates and what it writes; `Micros` says that cutting to microseconds
is idempotent. Masks are numbers, so that a mode or a set of flags arrives is a fact
about quotients and remainders: a sum of distinct powers of two has exactly the bits
that were added. For the errors, the table is a bijection on what it lists and
everything else becomes EIO. A statistic above `SignBit` goes through a signed field
and comes out as the number it was.

**ServeDirProofs** proves `DescriptorClosed` and `DescriptorOwned`: the two together
are inductive with `Shape` (every job has all its fields) and `Numbers` (a
descriptor is a number of the table, and a handler that has not opened or has closed
has none). Every step of every handler is of one of five kinds: it has no descriptor
and gets none, it keeps the one it has, it opens, it closes, or its close fails. The
kinds are proved handler by handler, preservation once for each kind. That an open
finds a free number (`FreeFdIsFree`) is a pigeonhole argument: each number in use
belongs to another request that has not been answered.

It also proves `TypeOK`, `AckMeansDone` and `ListingComplete`. For the first, each
outcome of each system call keeps the tree well-formed (`SoundTree`); the hard one
is rename, which moves a directory with what is below it over another: every path of
the new tree had its place in the old (`Origin`), so no directory is in two places
and none is without its parent. A file that a request creates gets an inode nobody
has, since that request's inode is absent until its handler has run (`Unborn`). For
`AckMeansDone` the handlers' steps are reduced to what a turn of the worker does
(`Turn`): the errno of the response is set wherever the work was not done, unless a
check that this handler has is recorded as failed, or the close of a write (`Honest`).
For `ListingComplete`, the names a directory has kept since
`opendir` are among those behind the descriptor until these are read, and from then
on among the entries filled and those still ahead (`Watched`, `Covers`), as long as
neither pass of readdir(3) has failed. That the
descriptor is the directory's own (`OwnListing`) follows from `DescriptorOwned`, and
like that it holds until a close fails (`Sane`).

**RhizoFSProofs** proves `ServedFresh`. The invariant `FreshInv` follows the
attributes on their way: what a handler has read the path has had since the request
was sent (`ReadFresh`, entry by entry for a listing); a thread that still waits sent
its request at most `CallTime` ago (`InTime`); so what it puts into the cache was
there at most `CallTime` before the entry's time stamp (`CacheFresh`), and the check
of the age does the rest. The steps of the server are silent or read attributes
(`HandlerKinds`); those of the client send, end, or fill the cache
(`OperationKinds`). `CallTime` is the one assumption about time: a thread does not
stay longer in `Rhizofs_communicate` than its send loop and its poll last.

The rest is carried over from the server and added to. `ServerKeepsPromises` says
that the handlers' invariants hold as well when their requests come from the client:
a request the client sends is one the server may begin, and giving up changes
nothing on the server. `FsTypeOK` needs that the errno table has a local value for
everything a handler answers. `StaleOnlyOverlooked` is proved of a client with one
thread. A change is whatever a request does to what lstat says of any path, not only
of the one it names. What an outstanding answer has read was read after the last
change of that path that was acknowledged (`ReadSeen`), and what is cached too, unless
the entry was there when a change returned that overlooks it (`CacheSeen`, `kept`). An
acknowledgement either removes the path from the cache, or it is of an operation that
opens or makes something, or of another path than the first (`AckForgets`); and one
thread has no other answer outstanding. A request it gave up may still change the path
at any time; it was never acknowledged. With two threads an entry can be stale without
having been overlooked (`rhizofs_stale_fill`), and `ReadSeen` is where the proof would
fail.

**LifecycleProofs** proves `LifeTypeOK`, `DefinedShutdown`, `OrderlyExit` and
`OrderlyUnmount` for any number of workers, signals and fuse threads. `Orderly`
describes the server as long as none of the mishaps has happened that the properties
name: shutdown has then been entered once, by the main thread, when every worker
that was created has its socket or has ended. So where the main thread is tells what
is left of the context (`ContextPhase`), the sockets (`SocketPhase`), the workers
(`WorkerPhase`) and the ZAP thread (`AuthPhase`), and each close, join and free
finds its object once; no reply is unsent once the context has gone. `Statuses` holds after mishaps too: it says which exit status
goes with which history, and that only a server with `-a` crashes. For the mount,
`GoodMount` says which sockets may be open at each step (`MountSockets`), when the
cache's table has been freed (`TableFreed`), what a refused init leaves behind
(`RefusedClean`) and what has gone when main returns (`Returned`).

Only model-checked: the liveness properties `CallReturns`, `MutexReleased`,
`ShutdownEnds` and `UnmountEnds`, which depend on fairness and are out of the
prover's reach. The properties of the four runs that expect a violation are false
and have no theorem. `OverrunBounded` has a theorem and no run: it says how far
`CompressedFits` is missed.

## 7. Not modelled

* The protobuf encoding (generated code): messages are records.
* LZ4 (vendored): what it makes of data is bounded, not computed.
* djb2: HashTable has any hash function.
* The key generator (writes two files), logging, usage texts and the wording of
  options (no state that anything depends on).
* Whether a client's key is authorized: `auth_routine` compares it with a list and
  answers; only its start and its end change state that others see.
* The fork of a daemon, before which 0mq contexts may exist, and what remains of
  them in the child.
* Blocks, paths and attributes that some other program sends: the conversions are
  followed for what the two programs make themselves.
* Code nobody calls: `path_join_real`, `path_basename` and `path_dirname`, and the
  parts of kazlib's table that the cache does not use.
* Server and mount of the life cycles run separately: what each can see of the
  other, an answer, none, or a late one, is in Communicate.
