# Floating Temple: TLA+ models and proofs

Floating Temple is a distributed interpreter. Every peer runs a program; the
objects of the programs are replicated. A peer executes method calls at once,
records them as transactions, and sends the transactions to the peers that are
interested in the objects involved. All peers replay the transactions of an
object in the order of their IDs. A replay that does not return what was
recorded is a conflict: the transaction is rejected, its peer invalidates it
with all that followed it, and the thread that executed it rewinds.

This directory models that machinery from the sockets up to the programs,
checks it with TLC on small instances, and proves part of it with TLAPS.
`PROJECT.json` lists, for every definition that models code, the lines it
models, and for every hazard of the code the properties that cover it.

## The system

| Part | State | Operations | Talks to | What is hard | Modules |
|---|---|---|---|---|---|
| Transaction sequencer (`transaction_sequencer.cc`) | reserved transactions with queued messages, clock | reserve, queue, release, flush | connection manager | threads release in another order than they reserve; the flush loop sends again what it keeps | `TransactionSequencer`, `OrderedOutbox` |
| Recording thread, pending transaction (`recording_thread.cc`, `pending_transaction.cc`) | stack of method calls, pending transaction (level, base ID, new objects) | call, begin, end, create, return, commit, rewind, linger | transaction store, interpreter | rejections at any moment, also late or overlapping ones | `RecordingThread` |
| Sequence points (`sequence_point_impl.cc`, `version_map.h`, `interval_set.h`, `peer_exclusion_map.cc`) | version map, excluded intervals, rejected peers | see, reject, invalidate | transaction store, object content | joining intervals; rejections and invalidations out of order | `IntervalSet`, `VersionMap`, `SequencePoint`, `CurrentSequencePoint` |
| Transaction store (`transaction_store.cc`) | shared objects, named objects, current sequence point, requested rewind | five message handlers, new connection, get live object, create transaction | all parts | handlers run against the recording thread; snapshots are used after the lock is gone | `TransactionStore` |
| Shared object, object content (`shared_object.cc`, `object_content.cc`) | committed transactions, version, up-to-date and interested peers, cached live object, references | get working version, get, store, insert, cache | playback thread | is the content complete up to a version; is the cache stale | `SharedObject`, `ObjectContent` |
| Playback thread, live objects (`playback_thread.cc`, `event_queue.cc`, `live_object.cc`) | event queue, conflict flag, state, node with reference count | queue, flush, stop; replay, match calls and values | object content, interpreter | two threads hand control to each other; any mismatch is a conflict, never a crash | `PlaybackThread`, `RecordedCalls`, `StateVariable` |
| Connection manager, peer connection, peer (`connection_manager.cc`, `peer_connection.cc`, `peer_impl.cc`) | connections by name, HELLO/GOODBYE states, output queue | connect, accept, send, broadcast, drain, close, start, stop | protocol server, queues | simultaneous connections, draining, lost wake-ups | `ConnectionManager`, `PeerConnection`, `PeerId`, `QuotaQueue` |
| Protocol server, sockets (`protocol_server.h`, `protocol_connection_impl.h`, `tcp.cc`) | sockets, blocked set, ready queue, event descriptor, buffers | select loop, send and receive, open, stop | sockets | who has a connection; wake-ups; readiness against shutdown | `ProtocolServer`, `MessageStream`, `SocketUtil` |
| Framing, messages, serialization (`varint.cc`, `parse_protocol_message.cc`, `convert_value.cc`, `serialization_context_impl.cc`) | none | encode, decode | protocol connection, store | partial input; references of one peer mean nothing on another | `Framing`, `EventCodec`, `ObjectProto` |
| Toy language (`toy_lang/`) | tokens, expressions, symbol table, objects | lex, parse, evaluate | method context | scopes; a refused call in the middle of an evaluation | `Lexer`, `SymbolTable`, `Parser`, `Interpreter`, `ToyLangReference`, `ToyLangPeers` |

What must hold: messages leave a peer in transaction order; a transaction is
propagated as a whole; a rejected transaction leaves no trace in the execution
that goes on; a peer never takes itself for up to date with something it will
not get; replicas converge; every rejection is settled; two peers settle on one
connection and lose nothing on it; every connection is always somebody's; what
a program means, and what a message says, survives its way through the layers;
nobody waits forever.

The models overlap where the layers meet: `TransactionStore` relies on ordered
channels with duplicates, which is what the sequencer gives (`sequencer`);
`ConnectionManager` relies on a protocol server that lets one thread at a time
work on a connection, keeps the order of bytes and takes what is queued, which
is what `server` checks; `ObjectContent` relies on the outcome of a replay,
which `playback` looks into.

## Modules

### The transaction sequencer

`TransactionSequencer` models `TransactionSequencer` and the
`TransactionIdGenerator` it owns. `transactions_`, `mu_` and
`last_time_value_` are the fields; `held` is which thread has which ID. The
clock may stand still or go back. Queueing or releasing takes the mutex, and
every iteration of the flush loop that follows, with the mutex still held, is a
step; messages without a transaction ID are sent without the mutex and may fall
between two iterations.
`OrderedOutbox` is what the sequencer promises; `ImplementsOutbox` says that
the sequencer implements it.

A transaction that is at the front and not released keeps its messages after
they are sent, so a message is normally sent once when it is queued and again
when its transaction is released. The promise is therefore at least once, in
order, and the other modules let every sequenced message arrive several times.

### The recording thread

`RecordingThread` models the thread that runs the interpreted program. The
program is arbitrary: at every moment the running method may call, begin, end,
create or return; it returns at once when an operation fails, as
`method_context.h` demands. `RejectTransactions(t)` is any other thread that
rejects local transaction `t`, at any moment: while another rejection is
pending, or after `t` was rewound. Both happen, since rejections are broadcast by
several peers, each of them more than once. Histories tell them apart: `line` is
the transactions the present execution consists of, `rejects` the ones that were
rejected, `superseded` those of them whose pending rejection a later one
replaced, and `failed_for` the rejection that the last failed operation met. The
live objects in `modified_objects_` are left out: what the thread does does not
depend on them.

### Sequence points

`IntervalSet`, `VersionMap` and `SequencePoint` are the data types, as
operators. `CurrentSequencePoint` is the store's `current_sequence_point_`, which
starts with one local transaction ID, under all calls that change it, in any
order the threads can produce: local ranges in any order, ranges of one remote
peer in the order of their ends. The handler of INVALIDATE_TRANSACTIONS takes the
lock twice, and `handling` is the range it is in the middle of.

### The transaction store

`ObjectContent` holds the operations on the content of one object,
`SharedObject` those of the object around it.
A live object is the sequence of the IDs of the transactions applied to it, and
a transaction may record what it saw, which is how two transactions conflict.
`GetWorkingVersion_Locked` restarts its replay without the transaction that
conflicted; one ascending pass that skips such transactions has the same
result, and is what the operator computes.

`TransactionStore` composes them on every peer, with ordered channels, for one
named object. Each message handler is an action that ends, as in the code, with
`RejectTransactions` and the messages it sends. `HandleGetObjectMessage` is
split where it has noted the sender as interested and copied the version map
and has not read the content yet. The recording thread creates the object,
calls it in a transaction and commits in three steps (reserve, apply, send);
handlers run in between. While a transaction is reserved, the sequencer holds
back what handlers send under later IDs (`outbox`). `RejectElsewhere` is a
conflict in another object, which moves the versions of this one.

Abstractions: a handler's own reserved IDs between two transactions are one odd
ID, since they are only compared with transactions of their peer. Events are
reduced to creation, call and return. Handlers other than GET_OBJECT, and the
lookup of a live object, are one step each, although they take the locks of the
content, of the sequence point and of the rewind state one after the other: a
thread that reads between two of these sees, for instance, a new exclusion with
the version map of the moment before. A rewind is one step here;
`RecordingThread` has its details.

### The playback thread

`PlaybackThread` models the replay of the committed transactions of one object.
`store_pc` is the thread in `ObjectContent::GetWorkingVersion_Locked`, which
starts a playback thread, queues the events of one transaction after the other,
flushes, and stops it; after a conflict it starts again without the rejected
transaction. `replay_pc` and `stack` are the thread that runs the methods: every
operation of the method context is compared with the next event
(`ObjectMatches`, `ValueMatches`, `MethodCallMatches`), and a mismatch sets
`conflict_detected_`, after which the rest of the sequence is discarded.
`other_pc` is any thread that asks for a reference to the object meanwhile.
`StateVariable` is the state with its allowed transitions. The object is a
counter; its methods are short sequences of operations given by `Methods`.
`node_` and `ref_count_` are `LiveObject` and its node: a method works on a copy
if somebody else refers to the node.

`RecordedCalls` has what `RecordingThread` writes down for a call (`Record`), so
that the histories to replay are the ones that a peer can produce. On the
recording peer, too, a method works on a copy of a shared node: `sharer` says
whether the cache, or the event that creates the object, has a share in it. A
nested call of the object itself works on the same live object inside a
transaction and on a clone outside (`cloned`), so that it may or may not see what
the outer method did before. The module is one of its own because the proofs need
nothing of it.

### Connections

`QuotaQueue` and `PeerConnection` are operators on records, one per critical
section. `ConnectionManager` runs them in the threads of every peer: the main
thread (`Start`, `Stop`), application threads that send and broadcast, and the
send/receive threads, which handle messages and may send from inside of a
handler. A thread has a list of jobs, and one step is one critical section: a
push can fall between the two halves of a drain, or into the moment between the
failed `Pop` and the look at the state in `GetNextOutputMessageHelper`
(`popping`). `NotifyRemotePeerKnown` chooses between two connections to the same
peer. `Break` is a reset by the network. The call of `protocol_server_.Stop()`
has the outcomes that `ProtocolServer` shows: it returns (`ServerStop`), it hangs
because its signal is lost (`ServerStopHangs`) until something happens to arrive
(`ServerStopWoken`), or a CHECK ends the process (`ServerStopCrashes`). `PeerId` makes and parses the IDs by
which peers name each other. `accepted`, `received` and `late` are histories.
A scenario says which peers start, join, send and stop.

### The protocol server

`ProtocolServer` models one server with its connections. A connection goes
round between `blocked_connections_`, the select thread (`temp`, `todo`),
`ready_connections_` and a worker (`held`); `NULL` stands for the listening
socket, as in the code. Every access to shared state is a step: the select thread
asks a connection twice whether it has output (`SelectScan`, `SelectOutput`), and
`Stop` drains the ready queue (`StopDrain`) before it signals (`StopSignal`). A worker
receives and sends any part of what is there; `queued` is what the handler has
to send. `MessageStream` is the bytes of a sequence of messages and the
messages of a sequence of bytes. `event` is the event descriptor. The far ends write, read, close, and
the network resets connections. A failed `CHECK` sets `crashed`, and so does an
`accept()` that fails (`WorkerAcceptFails`). `SocketUtil`
has the calls that make a socket: any list of addresses may fail at any of the
calls, and `descriptors` counts what the process has open.

### From a program to another peer

`Lexer`, `SymbolTable`, `Parser` and `Interpreter` are the toy language:
characters to tokens, tokens to expressions in which names are numbers, and the
objects that evaluate them by calling each other through a method context that
may refuse any call. `ToyLangReference` says what a program means in terms of
its text, without any of these. `ObjectProto` writes objects to protocol buffers
and reads them; `EventCodec` does the same with the events of a transaction,
with object IDs in the place of references; `Framing` cuts a stream of bytes
into messages. `ToyLangPeers` puts them together: a peer reads and runs a
program, sends its objects and a transaction that has an event of every type
over a socket that takes and gives any number of bytes, and the other peer reads
them. `Folding` helps TLC with long folds.

Text is a sequence of one-character strings, and a word of the language counts
as one character. Numbers are small: 100 stands for the largest int64, 8 for the
high bit of a byte, 5 for the 1000 bytes of the input buffer, so that sums
overflow, lengths take two bytes, and messages span several reads.

## Runs

| Run | Shows |
|---|---|
| `sequencer` | messages are sent in the order of transactions, the CHECKs hold, the sequencer implements `OrderedOutbox`, and every message is sent |
| `rewind` | under all rejections, overlapping and late ones included: atomic transactions, the level and new-object CHECKs; a rewind happens, leaves behind only what a later rejection replaced, and no method is recorded that failed for a transaction of the execution |
| `rewind_ends` | a violation: in linger mode a late rejection stays pending for ever |
| `sequence_point` | exclusion is sound and grows, rejections stand |
| `invalidated_lost` | a violation: `AddInterval` drops part of a range |
| `store` | replicas agree, no unnoticed gap, rejections are settled, a peer sees its own transactions |
| `store_wait` | a thread that waits for a version gets it |
| `connections` | the CHECKs of the connection layer; orderly shutdown loses nothing; crossing connections are resolved the same way on both sides; known peers are joined |
| `connections_live` | `Stop` gets to the end of `protocol_server_.Stop()`, returning, hanging or crashing there as that does, and sending ends, also with a peer that hangs or crashed |
| `server` | each connection has exactly one owner and is never forgotten; the byte streams are intact; CHECKs fail only in `Stop`, in `accept` or without an address; no descriptor is leaked; queued messages and ready sockets are served; `Stop` returns once its signal is seen |
| `playback` | the CHECKs of the two threads hold, references are found, recorded calls replay where recorder and replay share their nodes alike, first calls are kept but for leftover bindings, and `GetWorkingVersion` returns |
| `toy_lang` | programs run as written, a refused call unwinds at once, and objects and events arrive as they were sent |

### Bounds

- `sequencer`: three transactions of two threads give every order of reserve
  and release of overlapping transactions, two messages each one that is sent
  again.
- `rewind`: call depth 3, four operations, one new object besides the
  program's, and two rejections give
  a rewind through two frames, a retry and a second rejection during it or after
  it. `rewind_ends` needs less.
- `sequence_point`: four IDs give two separate intervals and a range that
  touches, overlaps or joins them.
- `store`: two peers, three transactions and three calls (of either peer, the
  rewound ones included) give a conflict in both directions, its rejection, and a
  commit after the rewind. Three peers exceed TLC.
- `connections`: two peers with one application and one send/receive thread each
  (the default of `--send_receive_thread_count`), three connections. The
  scenarios are both connecting at once, leaving while an answer is under way,
  both leaving, joining by either form of an ID, joining while sending,
  a reset, and a handler that answers. The third connection is the one a peer
  opens after both of the first two are drained.
- `server`: one accepted and one opened connection, one worker, messages of two
  bytes and a network that takes one, so that every message is cut; two
  addresses per host. The proofs cover several workers.
- `playback`: two calls of methods that between them use every operation, in
  every interleaving of their transactions, seen from the same or from the
  earlier version; two replays. First calls create objects (`spawn`), so that a
  conflict of the second leaves bindings behind; `nest` changes its object, calls
  it again to change it and to read it, as the first and as the second call, with
  a node that is shared or not.
- `toy_lang`: all programs of two statements over two names and their blocks,
  all pairs of kinds of values for the functions, and some longer programs after
  `src/toy_lang/testdata`; each with refusal after 0 to 40 calls.

Deadlock checking is off where the bounded program simply ends.

### Fairness

Weak fairness means here that a POSIX thread which can go on is scheduled.

- `sequencer`: a thread that has the mutex runs on, and (strong fairness, since
  the mutex comes and goes) a thread that reserved a transaction releases it: no
  code between the two waits for another transaction.
- `rewind`, `rewind_ends`: the recording thread is not stopped, and program methods
  return.
- `store_wait`: connection threads go on handling messages, and the waiting
  thread is woken by the condition variable. Nothing obliges a program to call
  or commit.
- `connections_live`: each thread runs on, and the server of each peer goes on
  with some connection that has work. The network may but need not reset, and
  nothing need wake a server that hangs in its `Stop`.
- `server`: the select thread, the workers, notifiers and `Stop` run on, and the
  far end of a connection reads. Far ends need not write, close or connect, and
  senders need not send.
- `playback`: the three threads run on.

## Where the code and its documents disagree

Two have a run. `invalidated_lost`: `IntervalSet::AddInterval` loses the
end of a range that starts in, or where, an existing interval ends, so peers that
got their ranges in different orders exclude different transactions.
`rewind_ends`: in linger mode a rejection at or below the base that `RunProgram`
starts from makes its `CallMethod` fail for ever (`recording_thread.cc:95`;
`transaction_store.h:210` says that the thread resumes execution).
`RewindHappens` excepts this state only.

The others are part of the models' behaviour, and the properties that pass say
where they stop:

- `RejectTransactions` overwrites a pending rewind to an earlier transaction
  (`transaction_store.cc:873`). `RewindComplete` allows the transactions of such
  a rejection (`superseded`), and no other, to survive.
- A late rejection makes an operation fail and is cleared by that failure; the
  aborted method is recorded as completed (`transaction_store.cc:376`).
  `AbortedNotCompleted` forbids it for the rejection of a transaction that is
  still part of the execution.
- Transactions of other peers are stored and never seen, unless a REJECT or
  INVALIDATE message of that peer moves the version map
  (`transaction_store.cc:796`; `method_context.h:72` says that two objects of one
  name "will be treated as a single object").
- A GET_OBJECT that arrives before the object is created is forgotten
  (`transaction_store.cc:447`), and later transactions are not sent.
- The exclusions of a sequence point do not take part in the replay
  (`object_content.cc:110`), so a program resumes on an object that still has
  the invalidated transactions, and a replay can reject the same one again.
- `PeerConnection::SendMessage` never waits, in either mode
  (`peer_connection.cc:122`; the comment at line 86 says that calls in
  BLOCKING_MODE "will block if there's already a message in that sub-queue").
- A broadcast, and `Stop`, wait for ever for a named connection whose
  `ConnectToRemotePeer` failed; `DrainAllConnections` misses connections that
  are added after its snapshot. A peer that hangs in `protocol_server_.Stop()`
  keeps its sockets open, and others wait for it. `StopEnds` and `SendsEnd` except
  these (`Stranded`, `CutOff`); that call's own hang or crash is an outcome that
  `StopEnds` names (`Hangs`, `Crashed`).
- If a peer opens two connections to the same peer (by two forms of its ID, or
  by joining and sending), the two ends may each drain the other one.
- The signal by which `Stop` wakes the select thread is lost if it falls between
  the look at `state_` and `ClearEventFd` (`protocol_server.h:276`, comment at
  line 178); `WokenStopReturns` is about the other moments. The CHECK on the
  ready queue can fail while `Stop` drains it (`protocol_server.h:432`).
- After a conflict the replay keeps the bindings of new objects that the failed
  attempt made (`object_content.cc:278`), so that a retry can reject a
  transaction that a fresh replay accepts. `FirstCallKept` allows a first call to
  be rejected in this case only.
- Whether a nested call of a method's own object sees, and keeps, what the method
  did before depends on the reference count of the node
  (`live_object_node.cc:62`), and the count on the recording peer is not the one
  in the replay: a call recorded alone can conflict when it is replayed.
  `RecordedIsReplayed` and `FirstCallKept` are about the other calls
  (`NestsAsReplayed`).

## Proofs

Everything in this section is for all values of the constants. Every safety
property of the runs `sequencer`, `rewind`, `sequence_point` and
`server` is a theorem, and so are `ChecksHold` and `ReferencesFound` of
`playback`.

`TransactionSequencer_proofs`, for any threads, clock and bounds:

- `SequencerChecks`: types and the CHECKs. They are inductive once no two
  threads hold the same ID (`HeldOnce`).
- `SequencerOrder`: `SendOrder`. `OrderInv` adds that a queued message carries
  the ID it is queued under, and that nothing sent is later than the clock or
  than a transaction that is still in the map.
- `SequencerImplementsOutbox`: every step is one of `OrderedOutbox` or changes
  nothing there. `FiledInv` says that the messages of a transaction in the map
  are the ones accepted under its ID, in the order of filing, and that every
  message whose transaction has left the map was sent; the step that takes a
  transaction out of the map needs it.

`RecordingThread_proofs`, for every depth, number of operations, rejections:

- `RecordingChecks`: the CHECKs and `StackMonotone`. `BaseInv` is types, the
  stack and the new objects. `LevelInv` says that the pending transaction is at
  least as many levels deep as the methods in progress have opened, by a witness
  function that gives the level at the entry of each call, and that a method
  called inside a transaction has the newest commit as its base: no rejection
  can make it resume with the level lost. `NewObjectsKept` is a corollary.
- `RecordingAtomic`: `TransactionAtomic` from the same invariant.
- `AbortedSafe`: `AbortedNotCompleted`, for every pattern of rejections. `AbortInv`
  says that a method that failed has a rewind pending, or failed for a transaction
  above the present base, which the execution therefore no longer contains.
- `RewindsFully`: `RewindComplete`, for every pattern of rejections, from
  `PendingCovers`: the pending rewind reaches back to every rejected transaction
  that is still in the execution and not superseded.

`CurrentSequencePoint_proofs`, for any peers and any largest ID:

- `SequencePointExcludes`, `SequencePointGrows` and `SequencePointRejects`: what
  is excluded was invalidated and stays excluded, and a rejection hides the
  later transactions of its peer until a range that holds it is invalidated.
  They rest on `AddIntervalCovers`: on a map of intervals that neither
  overlap nor touch (`Separated`), `AddInterval` gives such a map again, which
  covers what it covered before and at most the new range in addition. It says
  "at most" because of `invalidated_lost`. The invariant `IInv` is that the
  exclusions of every peer are `Separated`.

`ProtocolServer_proofs`, for any number of connections, workers and senders,
any messages and any scenarios, assuming only that `NULL` is no connection and
that accepted and opened connections differ (`ServerAssumption`):

- `OneOwner`: `SingleOwner`, no entry is in two places at once.
- `EntriesKept`: `NothingForgotten`, every entry of a running server is in one.
- `ServingChecks`: `CrashOnlyInStop`, no CHECK on the ready queue or the blocked set
  fails before `Stop` drains the queue.

The three are proved together. None is inductive alone: that an insertion finds
the entry absent needs one owner, and one owner needs to know what each program
counter says about `temp`, `todo` and `held` (`Phases`) and that before `Start`
and for a connection without a socket nothing is anywhere (`AtRest`). `IInv` is
the conjunction; TLC has checked it with two workers before it was proved.

`ProtocolStreams_proofs` adds `StreamsKept` (`StreamIntact`) for messages of any
length greater than 0 and any capacity of the network (`LengthAssumption`,
`StreamAssumption`). `StreamInv` follows every byte of a connection that is open: on its way in
what is handled, the bytes of an unfinished message, those in the network and
those not written yet are the inbound messages; on its way out what the far end
read, what is in the network, in the output buffer and queued is what was pushed.
`MessageStream_proofs` has the lemmas: the bytes of a concatenation, what is left
when a prefix is taken, and that parsing undoes writing for every way a stream is
cut.

`ProtocolDescriptors_proofs` adds `NoDescriptorLeaks` (`DescriptorsOwned`): the
process has the sockets of its connections open, while it runs the listening
socket and the event descriptor, and nothing else, whichever address and call
failed. What `connect` leaves behind is a recursive function over the list of
addresses; `AttemptsExist` shows that there is one.

`PlaybackThread_proofs`, for any methods, histories and number of replays,
assuming of the histories that a transaction has events and an event is no null
pointer (`HistoriesAssumption`):

- `ReplayChecks`: `ChecksHold`. `Handoff` says for each place the storing thread
  can be at where the replay thread is: while events are queued there is no end
  of a sequence in the queue and the replay thread has not left the last one,
  while the storing thread waits there is exactly one, in the queue or just
  reached. Each change of the state is an allowed one only because of it. `Bound`
  says that the references bound to new objects are different ones, bound to
  nothing else, and that none of them is still unbound; the matching of values
  keeps it, whatever the events say (`ObjectFound`, `ValueFound`, `CallFound`).
- `ReferencesKept`: `ReferencesFound`. The references of an object only grow
  (`Grown`), and a method called through a reference of the object itself has one
  that is found before it starts (`GoodFrame`), which makes it inductive.

The provers have no induction over data. Where a proof needs the least or the
greatest element of a set of numbers (`MinIsLeast`, `MaxIsGreatest`), or the
existence of a recursive function (`AttemptsExist`), it takes a least
counterexample, from the well-foundedness of the natural numbers.

Only model-checked: everything under fairness (TLAPS has no rules for it that
the installed provers support); the transaction store and the connection layer;
`RecordedIsReplayed` and `FirstCallKept`, which compare a replay with a recording
that is a fold over the body of a method; and the toy language, its codecs and
the framing, whose functions are recursive.

## Not modelled

- The fake interpreter and the rest of the fake engine, mocks and tests: test
  support.
- Logging, dumping and escaping: no state depends on it.
- Wrappers of mutexes, condition variables, signals and the clock: they appear
  as atomic steps, guards and nondeterminism.
- Command-line programs, Unix-domain sockets, the choice of a local address and
  of an unused port.
- Errors for which the code ends the process at once (`PLOG(FATAL)` in `send`,
  `recv`, `select`), except where a property is about them.
- Data races on `MapObject`, which has no mutex, and a list that contains itself,
  whose `get_string` waits for its own lock: the interpreter model has one
  thread and no locks.
- More than one shared object, and more than two peers, in `TransactionStore`:
  beyond TLC. A conflict in another object is the action `RejectElsewhere`.
