# IOContext in TLA+

Models, checks and proofs for the io_uring HTTP server in `src/lib` (namespace-less C++:
`Server`, `Worker`, `PerClientStorage`, `ProcessingMachine`). Paths below are relative to
the repository's root.

## The system

A `Server` owns routes and one listener per thread, and runs one `Worker` per thread. A
worker owns an io_uring ring, a pool of receive buffers it has lent to the kernel, and a
`ConnTable` from descriptor to `PerClientStorage`. Workers share nothing in memory; they
share the process's descriptor table, so a number freed by one can be handed to another.

Everything a worker does is a handler for one completion. A completion carries a 64-bit
tag `(fd, aux, op)`; `op` is a `Workflow`. Handlers run to completion on one thread, so the
concurrency is between the loop and the kernel: requests queued, issued and completed at
different times, completions queued behind others. A worker also posts tasks to itself
(`post_task`, a message to its own ring), which come back as completions.

| Component | State | Operations | Interacts through |
|---|---|---|---|
| Send pipeline (`worker.cpp`, `per_client_storage.cpp`) | `txq`, `tx_inflight`, `send_inflight`, `inflight_eor`, `pollout_armed`, `served`, `closing` | `generate_response`, `sendkick_inline`, `on_send_completed`, `update_pollout`, handlers Send, PollOut, RequestFlush | RequestFlush tasks, sendmsg and poll requests |
| Parser (`processing_machine.cpp`, `parse_step`) | `state`, `tmp_buf`, `req`, `body_bytes_needed` | `on_segment`, `reset_parser`, `parse_step` | tasks FindHandler, GenerateResponse, RequestClose |
| Event loop (`worker.cpp`) | `use_ms_*` and `*_armed` flags, ring, pool | all handlers, `post_accept`, `start_recv`, `close_async`, `post_task` | submission and completion queue |
| Connection table (`connection_table.hpp`) | descriptor -> storage | `get`, `add`, `erase` | called by the handlers |
| Server (`server.hpp`) | routes, listeners, workers | `add_route`, `run` | starts the workers |
| Prototype (`test2.cpp`) | the same parts in one file; `acc`, `keep_alive`, `served` per connection | its own loop and `parse_step`, `on_send_complete` | as the library, but parses and answers inside the receive handler |
| Other prototypes (`test.cpp`, `test.c`), demonstration servers (`tests/`) | their own | their own | none |

What is hard, and what makes each part correct:

- **Send pipeline.** Four handlers kick one queue, a batch may come back with EAGAIN, and
  the iovec array is shared by all sends of a connection. Correct: one sendmsg at a time,
  of memory that stays alive; bytes in order and once; queued data always has a wake-up
  outstanding.
- **Parser.** A segment may end anywhere. Correct: the result depends on the bytes and not
  on the cuts; a complete request is answered once.
- **Event loop.** Tags must name the right storage and handler; multishot requests end on
  their own; descriptors are reused, also by other workers. Correct: one receive per live
  connection, an accept always outstanding, no pool buffer lost, a live storage owns its
  descriptor, queued data is kicked, requests are answered.
- **Prototype.** Requests are pipelined and cut anywhere, the close is announced one
  response ahead and carried out when that response has left. Correct: each request is
  answered once, what a response says about the connection is what then happens.

`PROJECT.json` lists the hazards line by line.

## Modules

| Module | Models | Notes |
|---|---|---|
| `TxOps` | the four send fields as operators | shared by `TxPipeline`, `Worker` and `Prototype` |
| `ResponseStream` | abstract specification of the send side | buffers released in order, in groups of at most `MAX_IOV` that never pass the end of a response; a short write loses the end of its group and nothing else |
| `TxPipeline` | the send pipeline of one connection | receive side reduced to its effect on it |
| `TxPipeline_proofs` | theorems about `TxPipeline` | TLAPS |
| `ParseEffects` | what a segment can do, as the loop sees it | the interface between the next and `Worker` |
| `ProcessingMachine`, `RequestParsing` | parser and `parse_step` of the library | character by character, cut in every way |
| `MCRequestParsing` | the streams for the runs | |
| `RequestParsing_proofs` | theorems about the parser of the library | TLAPS |
| `Uring` | ring, kernel, descriptor table, peers, other workers | not code of the repository, but for the other workers; what the two loops run against |
| `Worker` | the event loop and table of the library | extends `Uring`; every handler is an action |
| `Uring_proofs` | counting requests in queues and with the kernel | lemmas only |
| `Worker_proofs` | what each handler changes; types of `Worker` | TLAPS |
| `WorkerTable_proofs` | theorems about descriptors and accepts | TLAPS |
| `WorkerBuffers_proofs` | theorems about pool buffers, receives, queued data and sends | TLAPS |
| `PrototypeParsing_proofs` | the parser of the prototype cuts and answers requests | TLAPS |
| `KeepAlive` | abstract specification of what a waiting peer is promised | responses in order, honest about the connection, closed only when announced |
| `PrototypeParsing` | `parse_step` of `test2.cpp` | a byte stands for a header line |
| `Prototype` | the event loop of `test2.cpp` | extends `Uring` and `PrototypeParsing` |
| `MCPrototype` | the requests for the runs | |
| `Prototype_proofs` | types, wake-ups, pool buffers and limit of `Prototype` | TLAPS |

Correspondence of `Worker`: each `case` of the switch in `Worker::run` is one `Handle...`
action, split where the code branches on the result. Helpers that change a storage and
queue requests (`StartRecv`, `Kick`, `UpdatePollout`) return both. `sq` and `cq` are the two
queues; `Issue` is one step of a submission, `Kernel...` are completions. The kernel's side is
not in the repository: `Uring` models it from how the code uses it (`external` in the map).
`KERNELS` says whether the kernel knows multishot requests, `POOLS` whether the buffer pool
could be allocated (`have_buf_pool_`); both are chosen at the start of a behaviour, so that one
run covers the multishot path, the fallback and the change from one to the other.

- *Batches.* The loop submits between batches of completions and batches have any size
  from 1, so `Issue` may happen between any two handlers. `need_submit_` only decides
  whether an extra `io_uring_submit` is made; `io_uring_submit_and_wait` makes one anyway.
- *Task completions.* A `msg_ring` request completes twice: once as the posted task, once
  as itself, with the tag its slot held before. `slots` keeps the tags of the slots, next
  one first; `SQ_ENTRIES = 0` stands for a ring that has not gone round yet (all tags zero).
- *Descriptor reuse.* Operations hold on to the connection their descriptor named when
  they were issued; a close only frees the number. The kernel gives out the lowest free one.
- *Other workers* run the same loop over tables of their own. What this worker can notice of
  them is what they do to the descriptors: `OtherAccept` takes one, `OtherClose` closes one that
  another worker has in its table, once or again. A storage stays in the table for good, so that
  the descriptors they may close (`theirs`) only grow in number. `robbed` are those of them that
  named a connection of this worker when they were closed.
- *`ConnTable::add` on an existing entry* leaves the handler with a pointer to freed
  memory. What `start_recv` reads there is undefined; it queues a receive or does not.
- *The op field.* `unpack_ud` keeps three bits of the op (`Unpacked`), so that RequestClose
  comes back as Accept, Closed as Recv and FreeBuffer as Parse.
- *Returned buffers* complete too; read as Parse on descriptor 0 they find nothing.
- *Short writes* (`SHORT_WRITES`). The result of a sendmsg is not looked at, so that buffers the
  socket did not take are released with the others.
- *Exceptions.* `std::stoull` throws on a Content-Length that is no number, nothing catches it,
  and the process ends: `HandleThrow`, after which `running` is FALSE and nothing happens any
  more. Which segments can end so is `LastEffects`.
- `Worker` always has a submission entry; `TxPipeline` models its absence (`MAY_RUN_DRY`), for
  the send side.

Correspondence of `Prototype`: again one `Handle...` action per `case`. `start_recv`,
`sendkick_inline`, `arm_pollout`, `OnSendComplete`/`ToBeClosed` are the functions of
`test2.cpp` with these names; `Closed` is `closing = true` with `close_async`, `Disarmed` and
`Returned` are what the Recv handler does to the multishot flag and to the pool.

- *Bytes.* `acc` is a sequence of bytes of which one stands for a whole header line, known when
  its last character has arrived, or for the empty line. The scan and the body length work on
  them as the code does on characters; a body may contain an empty line.
- *The send queue* is that of `TxOps`: a response is a header buffer (`keep` or `close`) and a
  body buffer with the end-of-response mark.
- *Peers.* Polite peers (`POLITE`) send the next request only after the response to the
  previous one, and leave the closing to the server; so do those of other workers. Impolite ones
  pipeline, end and reset at any time, in any company. What peers send is chosen from `STREAMS`,
  how it is cut is free.
- *Closed* (`ShutBy`) means that the descriptor is closed. With a receive still armed the
  kernel keeps the socket open, so that a peer may see the end later than that.

A definition named `X_...` before a definition `X` is a faulty version of it used by no
specification. `PROJECT.json` pairs each with the property that tells it from `X`.

## Runs

| Run | Question | Bounds |
|---|---|---|
| `tx_library` | does the pipeline keep order, pin its buffers, never lose a wake-up, drain, and implement `ResponseStream`? | 3 responses of 3 buffers, 2 receives, batches of 2 (every response is split over several sends), short writes |
| `tx_prototype` | with end-of-response marks, requests that keep the connection or do not, and a ring that may have no entry left: `ResponseStream` (so order), poll flag, batches, counting | 3 responses of 2 buffers, limit 2, batches of up to 3, so that a batch could reach into the next response; short writes |
| `parsing` | is the parser independent of the cuts; does it have only the effects `Worker` assumes, exceptions included? | 5 requests, all their one-character replacements and deletions, all pairs, all cuts |
| `worker_requests` | are all requests answered, with all buffers pinned and all queued data kicked, while workers compete for descriptors? | 2 connections, 1 foreign, 2 descriptors (so EMFILE happens), 2 segments in all (on one connection or on both), 1 EAGAIN, responses of 2 sends; nobody closes |
| `worker_peers_close` | receives, buffers, accepts and descriptor ownership when peers close, on both kernels, with and without a pool, and when another worker closes descriptors twice | 2 connections and 1 foreign on 3 descriptors, 1 segment, short writes, one pool buffer (so ENOBUFS and reuse happen) |
| `prototype` | polite peers, or one alone: are requests answered once, in order, as asked; is the limit announced and enforced; is the connection closed then, and only then; receives and sends. Any peers: wake-ups, and no buffer given back twice | 2 connections on 2 descriptors, both kernels, limit 2, 1 EAGAIN, enough pool buffers that ENOBUFS does not happen. Polite: 1 or 2 requests on the first (with a body that looks like the end of headers, without header lines, or with two Connection headers of which the last, a closing one, counts; so that one stream ends by request and the other by limit), 1 on the second. Impolite: 2 requests pipelined on the first, and a second that comes and goes |

With ENOBUFS the prototype closes a live connection as if the peer had failed, which breaks the
promise to polite peers; `worker_peers_close` has that case for the same code in the library.
`ImplementsStreams` is checked on sockets that take whole batches, `ImplementsStream` of
`TxPipeline` also on others.

Deadlock is not checked: a worker with nothing to do, a stream read to its end and a
pipeline at its bounds all stop, rightly.

Where the code differs from its own words (runs that end in a violation):

| Run | What it shows |
|---|---|
| `tx_served` | the library never sets `eor`, so responses are never counted and the keep-alive limit has no effect |
| `parsing_pipelined` | the library never resets its parser: the second request on a connection is read as body of the first, and not answered |
| `worker_stray_close` | Closed (9) arrives as Recv: the close is repeated and hits the next owner of the descriptor. In the same way RequestClose (8) arrives as Accept, and a malformed request's connection is never closed |
| `worker_accept_flag` | a multishot accept that ends for want of descriptors leaves `ms_accept_armed_` set, and accepting stops |
| `worker_stale_tags` | once the loop has gone around its submission queue, the own completion of a posted task can carry an old Send tag, and releases buffers that the kernel is still reading (`SendsAlwaysPinned`) |
| `prototype_hold` | closing a connection of `test2.cpp` in single-shot mode frees the buffer of a receive that is still outstanding |

Met while modelling, and in no text of the repository that a run could be held against:

- In the library, sends are not gated on `closing`: a response queued before a close can go to
  the connection that has taken over the descriptor.
- The stray close of one worker can hit a live connection of another, whose table does not learn
  of it. That is the one exception in `LiveEntryOwnsFd`, and an exempted case (`robbed`) of
  `OneRecvOutstanding`.
- When the ring runs dry, a poll or a close may be lost: `NoLostFlush` needs a ring that does not.
- In `test2.cpp` a multishot receive stays armed, and keeps the socket, when its connection is
  closed. Its later completions are taken for those of the descriptor's next owner (an end of
  stream then closes that one) or dropped, and with them their pool buffer.
- There, an end of stream with a response in flight closes twice: on the end, and on the
  completion, by which time the descriptor may have a new owner. And it erases the storage while
  the kernel reads its message header.
- There, `keep_alive` is overwritten by the next pipelined request, so that a connection may stay
  open after a response that announced the close, or close after one that did not; and pipelined
  requests parsed together all see the same `served`.

The properties of `Prototype` say which of these they exempt. `Orderly` (peers are polite, or
there has been one connection in the process) stands before those that take a completion to be
about the connection which has the descriptor now: `OneRecvOutstanding`, `SendsPinned`,
`AnsweredAsAsked`, `ImplementsStreams`. `polite` stands before the promises that only peers that
wait are given (`KeepsPromises`, `RequestsAnswered`, `CloseFollows`) and before the lower half of
`BuffersConserved`. `TypeOK`, `NoLostKick` and the upper half hold for all peers in any company.

### Fairness

`TxPipeline`: the loop dispatches tasks and completions it is given (weak fairness on
RequestFlush, PollOut and on some completion of an outstanding send), and a send tried again
and again succeeds in the end (strong fairness on SendCompleted): the peer keeps reading.
`Worker`: weak fairness on handling, issuing, accepting, sends and polls while the process runs;
EAGAIN is bounded by `MAX_AGAINS`. Nothing ever obliges a peer to connect, send or close.
`Prototype`: weak fairness on handling, issuing, sends and polls. Its liveness properties are of
the form `[]<>P`: again and again all complete requests are answered, and whoever was told so
is closed and forgotten. Since peers are finite and not obliged to anything, a behaviour may
stop at any point of theirs, and `P` must hold there.

### Refinement

`TxPipeline` implements `ResponseStream`; `ImplementsStream` names its initial states and steps
through an instance with the same variables, and the proof uses it. `Prototype` implements one
`ResponseStream` per connection (`INSTANCE ... WITH generated <- answers[k], released <- got[k],
accepted <- got[k]`) and, for polite peers, one `KeepAlive` per connection: `asked` are the requests
whose bytes have all been sent, `told` the responses whose buffers the socket has taken, `shut` the
closed descriptor. These functions of the loop's state are not variables of it, which is why the two
properties are written as `Init /\ [][...]_vars`.

## Proofs

### The send pipeline

`TxPipeline_proofs` proves, for all constants, `InvariantHolds: Spec => []IInv`, where

    IInv == TypeOK /\ StreamOrder /\ InflightPinned /\ InflightIsOneBatch
            /\ PolloutTruthful /\ SendOutstanding

None of the safety properties is inductive alone. Order after a rollback needs to know that
`tx_inflight` is empty whenever a new batch is taken; that follows from `InflightIsOneBatch`.
Pinning after a completion needs at most one sendmsg. The wake-up property `NoFlushLost`
needs `SendOutstanding` (a connection that is not closing and has `send_inflight` set has a
sendmsg outstanding) and a ring that does not run dry. The refinement
`PipelineImplementsStream` needs StreamOrder and InflightIsOneBatch: a completed send is the
next group of generated buffers, which is what `Deliver` takes. Short writes, rollbacks and dry
rings are included: what the socket lacks is the end of a group whose write was short.

`ServedCounts` (`ServedCountsResponses`, for `MARKS_EOR`): a second invariant says that a
generated buffer is marked exactly when it ends its response, a third that `served` is the number
of marked buffers released, which needs `InflightIsOneBatch` (a batch has at most one mark, at its
end) and `InflightPinned` (what completes is what was in flight); `StreamOrder` makes the released
buffers a prefix of the generated ones. Without marks it fails: `tx_served`.

The lemmas at the head of `TxPipeline_proofs` say what `TakeBatch`, `RollBack` and `Completed` do to
the queue; one lemma says that a kick from a state that satisfies the invariant restores it, and
each action is then a step of `StepKeepsIInv`.

### The event loop

The theorems hold for every number of connections, descriptors, pool buffers, segments, batch
sizes and failures, for every length of the submission queue, whatever peers and other workers
close, with and without short writes, for kernels with and without multishot requests, and with
and without a pool, all at once (`KERNELS` and `POOLS` are any sets of Booleans). One has a
hypothesis: `NeverStopsAccepting` needs a descriptor for every connection that comes, and
`worker_accept_flag` is the counterexample without. Three have an exception in the property
itself, which says what can break it and that nothing else does:

- `LiveEntryOwnsFd` and `OneRecvOutstanding`: another worker has closed the descriptor (`robbed`).
- `OneRecvOutstanding` and `SendsPinned`: a posted task has found the tag of one of the storage's
  receives, or sendmsgs, in its slot of the submission queue (`carried`), and its own completion is
  then taken for theirs. For the second, the run `worker_stale_tags` shows it. On a queue that has
  not gone around (`SQ_ENTRIES = 0`) only the zero tag is carried, and there is no exception.

| Theorem | Property | Inductive invariant |
|---|---|---|
| `TypesHold` | `TypeOK` | `Types`: also which workflow a tag can show, what completes a request, which numbers a stale tag can be |
| `LiveEntriesOwnTheirFd` | `LiveEntryOwnsFd` | `Owns` |
| `NeverStopsAccepting` | `AcceptOutstanding` | `Listens` |
| `BuffersReturn` | `BuffersConserved` | `Fits`, `Buffers` |
| `OneReceivePerConnection` | `OneRecvOutstanding` | `Owns`, `Fits`, `Receives` |
| `NothingStaysQueued` | `NoLostFlush` | `Flow` |
| `BuffersOutliveSends` | `SendsPinned` | `Keep` |

Each of them goes with `Types`, and the sources of the hard steps are these:

- **Counting.** Something under way may be queued, with the kernel, or answered. `Pending(S, A)`
  counts requests in S that are in `sq` or `ops` and completions in A that are in `cq`.
  `Uring_proofs` says what appending, taking, beginning and completing do to these numbers,
  and `Worker_proofs` turns this into three kinds of step: an action of the kernel replaces a
  request by its completion and leaves every `Pending` alone (or adds a completion that promises
  more); a handler takes one completion and queues what it queues; peers change neither. Every
  invariant below is then a statement about numbers and the storage of one descriptor.
- **Ownership** (`Owns`). Only the descriptor of a storage marked closing is ever closed by this
  worker. Unless another worker has closed it, a descriptor without a storage has at most one accept
  completion on its way, and still names the connection of that completion; with a live storage it
  has none. Closed storages stay in the table, for with three op bits nothing erases them: that is
  what makes the invariant hold, and what makes the table fill up.
- **Accepting** (`Listens`). No accept is ever refused for want of a descriptor, because the used
  ones and the backlog together are at most the connections that have come; so an accept can end
  only because the kernel does not know multishot accepts, and then the flag is reset. A stale
  tag may be read as a failed accept; it posts one accept too many, never one too few.
- **Receives** (`Fits`, `Receives`). A multishot receive or its completions exist only on a kernel
  that has them and while `use_ms_recv_` is set or they were asked for before it was reset;
  `ms_recv_armed` says that a multishot receive is still to end. But for the two exceptions above,
  a storage that is not marked closing has one receive pending, one that is not there has
  none. The completions of closes, read as receives, only reach storages that are marked closing,
  which ask for no other.
- **Sends** (`Flow`, `Keep`). `send_inflight` and `pollout_armed` are never set without a request
  that will clear them, so `sendkick_inline` may return early. Conversely at most one sendmsg is
  pending when `send_inflight` is set, none when it is not, and it has the buffers of
  `tx_inflight`; this survives `close` and the reuse of a descriptor because a storage is kept.

TLC checked the properties on the instances of the `worker_...` runs before they were proved.

### The parser of the library

`RequestParsing_proofs` proves every property of the run `parsing` for every set of streams:

| Theorem | Property |
|---|---|
| `ParsingTypesHold` | `TypeOK` |
| `BodyFollowsBlankLine` | `BodyAfterBlankLine` |
| `FirstLineIsSplit` | `RequestLineSplit` |
| `HeadersAreFirstLines` | `HeadersAreLines` |
| `EffectsAreKnown` | `OnlyKnownEffects` |
| `AnsweredOnce` | `AnsweredWhenComplete` |
| `CutDoesNotMatter` | none: `parser = on_segment(FreshMachine, Read)` once anything has come |

`BodyAfterBlankLine` speaks of as much body as the head announces (Content-Length): what comes
after it is the next request, and that this one ends up in the body too is what
`parsing_pipelined` shows. `OnlyKnownEffects` includes the segment that ends in an exception.

The inductive invariant `Known(s, k, m)` says what the machine m knows of the first k bytes of
the stream s: how its tokens make up the first line (`FirstLine`), which part of which line is
in `tmp` and `val` (`ThisLine`), what the last bytes are in the states `cr`, `crlf` and `crlfcr`
(`Ending`), that the body is what followed the first empty line (`Bodies`), that each name that
stands before a colon is stored or about to be (`Names`), and that a stored line is the first of
its name (`Stored`). `HeadersAreLines` needs `Names`: that no earlier line has the name can only
be kept if no line was missed. `Known` has one lemma per part and state of the machine; `KnownKept`
joins them for one character.

A segment is an induction over its characters. The induction theorems of the library take an
operator and cannot be used, but induction over a *set* of numbers can be proved, from the
well-foundedness of `<` (`LeastNat`, `Induction`). The same argument over the length of the second
segment shows that two segments leave the machine that their concatenation would leave, and that
gives `CutDoesNotMatter`.

`AnsweredOnce` has one hypothesis, `EndsOnce`, on each request of `REQUESTS`: of its prefixes, each
parsed as *one* segment, exactly the whole request is complete, and a Content-Length is a number.
That is what "one well-formed request" means in terms of the parser; the theorem says that it
then holds for all cuts. The run `parsing`, where every prefix can come as one segment, shows it of
the five requests of `MCRequestParsing`.

### The prototype

| Theorem | What | Inductive invariant |
|---|---|---|
| `PrototypeTypesHold` | `TypeOK` | `Types` |
| `QueuedIsKicked` | `NoLostKick` | `Types`, `Flow` |
| `NoBufferTwice` | buffers with the kernel, on their way to it or filled are never more than the pool was given | `Types`, `Buffers` |
| `AnnouncedIsEnforced` | the two uses of the limit agree, except for 0 (`ZeroLimitNotAnnounced`) | |
| `RequestsCutAndAnswered` | `parse_step` on any cut of a stream of requests | |

They hold for every kernel, pool, limit and bound, with and without short writes, for peers that
wait and peers that end and reset at any time and in any company, for other workers that close what
is not theirs, and for all request streams of `Seq(Requests)`, whose members are
lists of header lines without a blank one, with a body of the announced length.

- **Types.** As for `Worker`: which requests a tag belongs to and what a completion makes use of.
  A handler runs the parser, so `Types` must also keep the parser's fields typed. `parse_step` is
  a recursive function over unparsed bytes; `PrototypeParsing_proofs` shows that there is such a
  function and only one, because each request cut off leaves fewer bytes, and that it keeps types
  (`ParseTyped`). `Types` also says that received bytes are bytes of the peer's stream (`Sent`).
- **Wake-ups** (`Flow`). `send_inflight` and `pollout_armed` of a live connection each have a
  request or completion under way, and queued data has one of the two flags.
- **Buffers.** The upper half of `BuffersConserved`: nothing is given back twice. The lower half
  (none lost) is false for impolite peers, as stated above.
- **Cutting requests.** `RequestsCutAndAnswered`: when `acc` holds what follows the first m requests of
  a stream, and the bytes at hand reach into request M + 1, then `parse_step` queues the answers to
  m + 1 .. M, in order and each as it asks (`keep_alive` against its own Connection headers), and
  leaves the beginning of request M + 1 in `acc`.
- **The limit.** `parse_step` announces the close by comparing `served` with `keepalive_limit - 1`,
  `on_send_complete` closes by comparing `served + 1` with `keepalive_limit`. The two agree for
  every limit but 0, where the first subtraction wraps around. That `Prototype` keeps the promises of
  `KeepAlive` is model-checked (`KeepsPromises`), for one limit.

### Model-checked only

- Liveness (`QueueDrains`, `RequestsAnswered`, `CloseFollows`): the provers have no `ENABLED`, so
  fairness cannot be used.
- `ClosesOwnFd`, `AcceptFlagTruthful`, `SendsAlwaysPinned`, `EachRequestAnswered`,
  `HoldOutlivesRecv`, `ServedCountsResponses` without marks: they fail.
- Of `Prototype`: the lower half of `BuffersConserved`, `OneRecvOutstanding`, `SendsPinned`,
  `AnsweredAsAsked`, `ImplementsStreams` and `KeepsPromises`. Unlike those of
  `Worker` they do not follow from the loop alone. A live connection is closed when the pool runs
  dry, and storages are erased on a close; so each depends on the pool being large enough or on
  peers that wait, and through them on the whole exchange: what was sent, received, in `acc`,
  queued, in flight and delivered must add up to the peer's stream. `RequestsCutAndAnswered` is the
  step of that argument which the parser makes; the invariant around it is not written.

## Not modelled

Contents and lengths of responses (a buffer is its identity), formatting, socket options,
`Server::run`'s thread start-up, the Windows stub, the HTTP/2 demonstrations and the Boost
competitors. `parse_step`'s time budget is left out: `rxq` holds only the segment just received.
Of `test2.cpp`: the wrap-around of `body_off + clen` for a huge Content-Length; its handlers for
Parse, Generate and Close tasks, which nothing posts; a submission queue without an entry in the
loops (`TxPipeline` has it for the send side). A keep-alive limit of 0 is in the model and in
`Prototype_proofs`, but in no run. `test.cpp`, `test.c` and the single-file servers under `tests/` are
earlier or separate programs that share no code with the library.

## Plan

1. The exchange of `Prototype` as an inductive invariant: what has been sent, received, kept in
   `acc`, queued, sent out and delivered are consecutive parts of one stream, and for a peer that
   waits at most one response is among them. From it follow `AnsweredAsAsked`, `KeepsPromises` and,
   with a pool that is large enough, the receives, sends and descriptors.
2. The refinement of `TxPipeline` by a connection of `Worker`, from `Flow` and `Keep`.
3. The table of `ParseEffects` as the interface it is: `Worker` composed with `RequestParsing` on one
   connection, instead of the effects alone.
4. `test.cpp` (shared ring), then the epoll and poll demonstration servers.
5. `Server` as a composition of workers over one descriptor table, in place of `OtherAccept` and
   `OtherClose`.
