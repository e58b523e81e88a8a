# TOON: specifications and proofs

TLA+ models of `reddb-io/toon`: the TOON-RPC clients, servers and transports, the adapters built on them,
the TOON codec, the TOONL stream files, and `tq` with its query language and the operations that replace
files. Every definition is a translation of the code named for it in `PROJECT.json` ("map").

## 1. The system

| Part | State | Operations | What is hard |
|---|---|---|---|
| Rust RPC client, `crates/reddb-io-toon-rpc/src/client.rs` | status, pending table by identifier, next identifier, receive task | call, notify, close, responses, timeouts, dropped futures | futures, guards, the receive task and close interleave at every lock; identifiers are reused |
| TypeScript RPC client, `packages/toon-rpc/src/client.ts` | the same, plus a lazy open and per-call abort controllers | the same | state read before an `await` and used after it |
| Framing, `framing.rs`, `framing.ts` | unread bytes, failure | push, finish | documents split over arbitrary chunks; limits |
| Framed transport and server, `transport.rs` | ready documents, writer | send, recv, close, serve | a send cancelled in the middle of a frame; a peer that does not read |
| Connection pool, `server.rs` | slots, tasks, shutdown flag | reserve, spawn, drain | accept against shutdown; grace periods |
| Dispatcher, `dispatcher.rs`, `serialization.rs`, `protocol.rs` | none (methods) | dispatch a document | batches, notifications, failures of one entry |
| TypeScript transports and servers, `internal.ts`, `tcp.ts`, `stdio.ts`, `websocket.ts`, `sse.ts`, `serve.ts` | document queues, lanes, sessions | push, end, fail, iterate, accept, drain | bounded queues, ends that overtake data, reconnects |
| Rust transports, `crates/reddb-io-toon-rpc-{tcp,http,ws,sse,longpolling,stdio}` | session table, waiter table | open, accept, push, close | a stream that outlives its session; waiters that time out |
| MultiRpc, `multi.rs`, `packages/multi-rpc` | none | choose a dialect, dispatch | answering in kind |
| ACP dual dialect stream, `acp-stream.ts` | peer dialect, dialect of each open request | send, receive | a latch and a bounded map |
| Legacy ACP adapter, `crates/reddb-io-toon-rpc-acp` | runs in insertion order | create, get, cancel | look-ups and removals around a blocking call |
| MCP adapter, `crates/reddb-io-toon-rpc-mcp`, `packages/toon-rpc-mcp` | initialized, requests in flight | handle, serve, stop | the handshake, a cap on requests |
| TOONL writer, reader and cursors, `crates/toon/src/lib_parts`, `packages/toon/src/toonl.ts` | open segment, lanes, offsets | write, rotate, trim, resume | a crash or an error in the middle of a segment |
| TOON decoder, `stream.rs`, `stream_extensions.rs`, `core.rs`, `truncation.rs` | lines read, events emitted | decode, report a truncation | what a line is depends on all before it: depth, declared counts, columns; limits; a cut document |
| TOON encoder and cyclic arrays, `encode.rs`, `tabular_encoder.rs`, `cyclic_extension.rs` | none | encode | the form chosen for a value must be one the decoder reads back |
| `tq` queries, `crates/tq/src/query`, `cli/mod.rs` | evaluation nesting, documents unread, values produced | evaluate, locate, assign, run over rows | two evaluators of one language; errors in the middle of a stream of values; recovery and halts |
| Streaming decoder hand-off, `stream_events.rs` | worker thread, rendezvous channel | next, drop | two threads waiting for each other |
| `tq` upgrade and trim, `crates/tq/src/cli` | the installed binary, the trimmed file | stage, swap, rename | a failure between two renames, appends that race with a trim |

The parts meet in these places. A client owns one transport; a duplex transport is read by one receive
task and written by every call. A framed transport is a framing decoder and a writer behind two mutexes.
A server runs one `serve_framed_with` loop (or one lane, in TypeScript) per connection inside a pool, and
every loop calls the dispatcher. The SSE and long-polling servers keep a table that HTTP handlers and
stream guards share. The adapters (MultiRpc, MCP, ACP) call the same dispatchers.

What makes the parts correct:

- *clients*: every call settles at most once, with the answer to its own request; none waits for ever once the
  client has ended; "closed" is said by closed clients only;
- *framing, framed transports, queues*: the documents that were sent come out whole, in order and once, and an end
  is told after the last of them, never instead of one;
- *pools, lanes*: limits hold, slots and running tasks add up, answers come in the order of their documents, a
  shutdown waits for what runs and ends within its grace period;
- *session and waiter tables*: an entry lives as long as its stream or poll, an event reaches one waiter of its
  key, limits hold;
- *dispatchers, MultiRpc, adapters*: one answer for each entry that asks for one, in kind; runs and requests in
  flight are found until they end;
- *TOONL files*: what was written is read back, whatever was cut, trimmed or resumed, and nothing twice;
- *tq upgrade and trim*: after any failure one whole old or new file is in place;
- *codec*: what the encoder writes is read back as it was; a document that was cut is not taken for a whole one
  with fewer elements; options that only restrict or relax reading never change what is read;
- *tq queries*: a filter's paths lead to the values the filter produces, a builtin does what the filter that
  defines it does, a halt ends the run, and a run ends the same whichever way its rows are read;
- *the decoder's hand-off*: neither thread waits for the other for ever, and events keep their order.

`PROJECT.json` lists every component with its status and the hazards, each at its line, with the
properties that would catch it going wrong.

## 2. Modules

| Module | Models | Composed in |
|---|---|---|
| `RpcClient` | the Rust client (`client.rs`) | `MCRpcClient` |
| `CallContract` | what a client promises its callers | refined by `RpcClient` and by `TsClient` |
| `Framing` | the frame codec (`framing.rs`), as operators | `FrameReader` |
| `FrameReader` | what `next_document` does between two reads (`transport.rs`, `framing.rs`) | `FrameReading`, `FramedStream` |
| `FrameReading` | that reader over any byte stream | `MCDocuments` |
| `FramedStream` | senders, `close`, the byte stream and the peer's reader (`transport.rs`) | `MCFramedStream` |
| `DocumentChannel` | what a transport promises in one direction | refined by `FramedStream` |
| `ConnectionPool` | the accept loop, the pool and the connection loops (`server.rs`, `serve_framed_with`) | `MCServices` |
| `LongPolling` | the waiter table, polls and pushes (`reddb-io-toon-rpc-longpolling`) | `MCServices` |
| `SseSessions` | the session table, streams and POSTs (`reddb-io-toon-rpc-sse`) | `MCServices` |
| `EventHandoff` | the streaming decoder's two threads (`stream_events.rs`) | `MCServices` |
| `InPlace` | replacing a file: `trim --in-place` and `upgrade` (`toonl_trim.rs`, `upgrade.rs`) | `MCServices` |
| `AcpRuns` | the run store and its handlers (`runs.rs`, `http.rs`) | `MCServices` |
| `TsClient` | the TypeScript client (`client.ts`) | `MCTypeScript` |
| `TsTransport` | the document queue and the four duplex transports that feed it (`internal.ts`, `tcp.ts`, `stdio.ts`, `websocket.ts`, `sse.ts`) | `MCTypeScript` |
| `TsServer` | `serveTcp`, `serveStdio`, `attachWebSocket` with their document lanes (`serve.ts`) | `MCTypeScript` |
| `DualDialect` | the dialect latch and the map of open requests (`acp-stream.ts`) | `MCTypeScript` |
| `McpStdio` | an MCP session (`stdio.ts`, `index.ts` of `toon-rpc-mcp`) | `MCTypeScript` |
| `EventReading` | both SSE event parsers and the frame splitter of `acp-stream.ts` | `MCDocuments` |
| `LineFeed` | the byte that ends a line, which frames and events share | `Framing`, `EventReading` |
| `Messages` | what a dispatcher answers, in both dialects (`dispatcher.rs`, `serialization.rs`, `protocol.rs`, `error.rs`, `multi.rs`) | `MCDocuments` |
| `ToonText`, `ToonDecode`, `ToonEncode`, `ToonCyclic` | scalars and quoting, the decoder, the encoder, cyclic arrays | `ToonLaws`, `Toonl` |
| `ToonLaws` | values that grow, and what holds of their texts | `MCDocuments` |
| `Toonl` | the TOONL writer, its readers, cursors, closing and trimming | `MCDocuments` |
| `TqValues`, `TqEval`, `TqRun` | values and paths, filters, a run over rows | `TqLaws` |
| `TqLaws` | filters that are written step by step, and what holds of them | `MCDocuments` |
| `Lemmas`, `RpcClient_proofs`, `TsClient_proofs`, `TsStreams_proofs`, `Frames_proofs`, `RustServers_proofs`, `Local_proofs`, `Adapters_proofs` | the theorems | |

`MCServices`, `MCTypeScript` and `MCDocuments` put several components into one specification each. These
share no state in the code (a process runs one of the servers, or several that do not know each other), so a
behaviour picks one `part` in its initial state and the others rest where nothing of theirs is fair: the
state space is the sum of the parts, not the product.

### 2.1 RpcClient and CallContract

A *call* is one incarnation of a `call_with` future; several may carry the same identifier one after the
other, so the table maps identifiers to calls and the model can tell whose entry is removed. Each action is
one critical section of the state mutex with the code up to the next await or lock.

| State or action | Code |
|---|---|
| `status`, `pending`, `nextId` | `State` (the `terminal` error is the reason a call is told) |
| `phase`, `outcome`, `channel` | the future of a call, its result, its oneshot channel |
| `doc`, `settled` | the rest of a response batch in `process` and its `settled_ids` |
| `pump` | the receive task; "none" from the start for `Link::RequestResponse`, which makes the kind of transport a choice of the initial state |
| `Register`, `Refuse` | `register`: status, limit, identifier, encoding, insertion |
| `BeginTransmit`, `SendDone`, `TransmitFails`, `ReplyArrives`, `EndExchange` | `transmit` over either link |
| `ProcessEntry` | one entry of `process` and `settle` |
| `Complete`, `TimeoutFires`, `DropFuture`, `ReleaseGuard` | how a future ends; its guard drops in a later step, as other threads may run in between |
| `PumpReceives`, `PumpEnds`, `Close`, `DropClient` | the receive task, `terminate`, `close`, the last `Client` |

`CallContract` says what callers are promised; `RpcClient` implements it (`ImplementsContract`) when
callers do not reuse identifiers (`ReuseIds = FALSE`). With reuse the contract does not hold: see the
findings. Left out: diagnostics, `notify` (it changes nothing in the client), the wording of errors, and
the difference between a result and an RPC error, both of which are an answer.

### 2.2 Framing, FrameReader, FrameReading, FramedStream and DocumentChannel

Bytes are digits of a base, the line feed and others, and the base and both caps of the code are constants:
with base two, two digits and payloads of up to two bytes, every branch of `take_frame` is reached by
streams of seven bytes. `TakeFrame` and `Push` are `take_frame` and `push`; `Push` gives nothing back when
it meets a violation, as the code does. Its loop is a function of the rounds that are left, of which there are as
many as bytes: every frame takes some, and once none is taken the rest of the rounds change nothing. `PushIs`
proves that these are always enough.

`FrameReader` is `next_document` in four steps: hand out what is ready, `Take` a chunk, `Finish`, `Break`.
`FrameReading` lets the peer send *any* bytes in any chunks. `FramedStream` lets tasks send behind the
writer's mutex (`lock`, a queue whose head holds it), with `write_all` writing in as many pieces as the pipe
takes; a send may be dropped between two pieces if `MayCancel`. `CutLink` is the death of the sending
process or of the network. `DocumentChannel` is the promise: what was accepted comes out whole, in order and
once, and a clean end comes after the last of it.

### 2.3 ConnectionPool

`loop` is where `serve_until` stands: a slot is reserved *before* a connection is accepted, so the permit it
holds while it accepts is counted apart (`Held`). `tasks` is the `JoinSet`, which forgets ended tasks on the
next spawn only. A connection reads, answers, closes and ends; dispatching awaits nothing and is part of the
step that took the document. `Fail` is any of a framing, read or write error, an idle timeout and a panic.
`select!` is unbiased: with a document and the shutdown both there, either is taken.

### 2.4 LongPolling

`listed` and `waiters` are the `HashMap` of waiters, `batch` what a push has taken out under the lock and not
yet sent, `inbox` the oneshot channel of a poll. The poll's deadline, the push and the guard are apart, so
that a guard may run after a push took its entry and newer polls came in under the same key.

### 2.5 SseSessions

`sessions` is the table; a stream holds its queue and its guard; a POST holds the sender it cloned until it is
done (`HasSender`), which is why a stream outlives `close_sessions` by the POSTs in progress.
`ReuseNames = FALSE` is what the repository's own client does: it draws a fresh session for every stream.

### 2.6 TsClient

JavaScript runs one piece of code at a time, up to its next await: every action is one such piece. The state
is `client.ts`'s own (`state`, `pending`, `idCounter`, `startPromise` as `start`), with `step` for where
`dispatchCall` of a call stands and `result` for what its promise was settled with.

| Action | Code |
|---|---|
| `Call`, `RefuseCall` | `call` up to `dispatchCall`'s first await; what throws before the call is registered |
| `Start`, `Opened`, `OpenFails` | `ensureOpen` and the continuation of `transport.open` |
| `Dispatch`, `DispatchRejected` | `dispatchCall` after `await this.ensureOpen()`: it looks the call up *by identifier* |
| `SendEnds`, `OperationFails`, `Reply` | its continuation after `send` or `request` |
| `GiveUp` | the call's timer, or its signal |
| `Receive`, `ReceiveEnds`, `CloseClient`, `CloseResolves` | one entry of the receive loop; its end; `close` up to and after its awaits |

Two things differ from the Rust client. A call is registered whatever the state of the client, and on one that
has ended its dispatch rejects it: such a call is `Late`, and the refinement shows it as refused. And a dispatch
that is late acts on whatever call is under its identifier; with callers that reuse identifiers (`reuse`, a
choice of the initial state) the contract therefore holds as far as identifiers can tell: an answer counts as
a call's own when it answers a call with that identifier (`Seen`). Without reuse it is the same promise as the
Rust client's.

### 2.7 TsTransport

`queue` is the `DocumentQueue` with what its consumer got (`taken`, `outcome`). A document is its number in
the order of sending, and bytes are what a chunk does to the decoder: it completes some documents and leaves
it at a boundary, inside a frame, or refusing. `kind` is chosen in the initial state. `Data` is the `data`
handler of TCP and stdio, `Message` WebSocket's, `Events` a turn of the SSE pump; `LinkFails` and `LinkEnds`
are the `error` and `close` (or `end`) handlers, and each kind keeps its own order of them: a TCP close inside
a frame fails the queue, a WebSocket close never does, an SSE stream that was closed only ends.

### 2.8 TsServer

A connection is a record: its socket, what its lane accepted and finished, the answers written, its two
directions. `Arrive` is a chunk (or message), `Handle`, `HandlerFails` and `Written` the lane's promise
chain, `FinishOutput` is `finish`, and `CloseServer`, `Drained`, `GraceEnds`, `Stopped` are `close` and
`drain`. External is how Node treats a socket made by a server without `allowHalfOpen`: it ends the socket's
output when the peer ends its input (`PeerEnds`). Left out: `createHttpHandler` (no state between requests)
and `createSseHandler`, whose table is that of `SseSessions` with a guard that compares before it deletes.

### 2.9 EventHandoff

`worker` is where the decoding thread stands: it parses, flushes its batch (`filled`), asks for input with an
empty batch, or reads the source. Sender and receiver of a channel without capacity meet in one step,
`TakeBatch`. The grammar's choice of events is left open; `wait_for_demand`, `Emit` and `EndDecode` are
`FlushingReader::fill_buf`, `ChannelSink::emit` and the end of the thread. `DropDecoder` and `DropReturns`
are the `Drop` of `EventDecoder`, which puts a closed receiver in place before it joins.

### 2.10 InPlace

Processes, which may share a process identifier one after the other, go through `Create`, `WriteTemp`,
`sync_all` and `Rename`; on Windows an upgrade clears, parks and replaces, and restores when that fails
(`swap_in_place`). Every file operation may fail with the code's own clean-up, a process may die at any step
(`Crash`), and `PowerLoss` ruins what was written and not synced. The model takes it that renames reach the
disk in their order and at once; `upgrade.rs` and `toonl_trim.rs` rely on the same.

### 2.11 AcpRuns, DualDialect, McpStdio

`AcpRuns`: `LookUp` is the part of a DELETE that holds the lock, `HookSucceeds` and `HookFails` the blocking
call, `RemoveCancelled` and `Release` what follows by name; `DropDelete` is a client that goes away, whose
hook runs to its end. `insert` and `victim` are `RunStore`'s.

`DualDialect`: `DecodeFrame` and `SkipFrame` are a frame that arrives, `WriteMessage` a message that leaves;
`requestDialects` is the bounded map in its insertion order. Ghosts record in which dialect each request came,
how many came since, and which dialects were proven.

`McpStdio`: `Chunk` and `InputEnds` are the handlers of `data` and `end`, `HandlerEnds` what follows the await
of a line's handler, `Resolve` the end of `finish`. A line over the cap (or one that is too long) sets the
session to stop behind the answers that are owed.

### 2.12 EventReading and Messages

`EventReading` reads any bytes over {LF, CR, `data: `, brace, other} in any chunks with three machines side
by side: `RustPush` and `TsPush`, which take a chunk byte by byte (`TakeBytes`, `CheckBytes`), and `drainFrames`,
whose loop takes one frame a round (`NextFrame`).

`Messages` is a document of any entries, whether it is a batch or not. Values are what `serde_json` and the TOON
decoder give: numbers that are whole or not, texts, lists, objects as functions from their names. `from_wire` reads
a document as a message (`decode_call`, `decode_batch`, `decode_single`), and is also what the client reads an
answer with; `handle_message`, `ensure_toon_response_encodable` and `dispatch` are the path to the responses, with
the handlers that ran (`ran`); `handle_jsonrpc` is the same for the JSON dialect, which translates entry by entry
(`to_toon_entry`), and `handle` chooses (`detect_protocol`). The handlers are a parameter: `Handler` gives any
outcome of the kinds of `RpcError`, with any code of its width (`IsOutcome`). What an entry is owed is defined
apart from the code (`IsCall`, `IsOwed`, `Answers`), from `docs/toon-rpc-spec.md`.
The loops over a value's levels stop at `MaxNesting`, behind which no value has anything; integers keep their
widths (`I16`, `I32`, `MAX_SAFE_INTEGER`), the largest ones as constants, as TLC's integers end at those of `i32`.

### 2.13 ToonText, ToonDecode, ToonEncode, ToonCyclic, ToonLaws

A document is its sequence of lines, a value is a tagged record, and a text a string. `decode_events_into`
is the grammar of `stream.rs` with the tabular extensions, as functions that pass a record of lines, position,
events and error on; `build_value_from_events` the value builder; `detect_truncation` the report.
`encode_value` chooses among the forms as `encode.rs` does, with the shapes of `tabular_encoder.rs`.
`ToonLaws` grows values one container at a time (`Wrap`) or logs one round of events at a time
(`NextRound`), and compares what is read with what was written.

`ExtensionsTold` names the documents on which encoder and decoder disagree about the opt-in columns, and
`Inflatable` those that cyclic flattening cannot keep; `RoundTripsAsDocumented` is the law without the first
condition, and fails (finding 6).

### 2.14 Toonl

The state is the file's lines and the `ToonlWriter`; `Write`, `Declare`, `WriteTagged` and `Finish` are its
calls, any write of whose sink may fail (`Wanted` says which). In every state the file is read by
`parse` (`ToonlStream`), by `consume_line` line by line (`ToonlRowReader`), resumed from every cursor
(`resume_from_bytes`), cut at every line (`detect_toonl_truncation`), closed into a document and
trimmed to every length (`trim_toonl_keep_last`).

### 2.15 TqValues, TqEval, TqRun, TqLaws

A filter is its syntax tree. `eval` and `evaluate_recovering` are `eval.rs`, `locate` is `paths.rs`, `assign`
is `assign.rs`, `builtin` the table of builtins; an evaluation is a record of the values produced, the
error that ended it, and the world: nesting depth, budget, unread documents. `run_toonl` is a run in one of
its three modes. `TqLaws` writes filters one operator at a time over thirteen atoms and compares them on eight
documents: with their paths, with the filters that define the builtins (`LawsOf`, `FixedLaws`: some fifty
equations), and over rows in the three modes.

## 3. What the runs show

| Run | Question | Bounds, and why they are enough |
|---|---|---|
| `client_unique` | Without reuse: each call gets its own answer, no early failure, the contract | three calls, two automatic numbers, one explicit identifier, two pending calls, one entry per document |
| `client_reuse` | With reuse: the table and the channels stay consistent, nobody is forgotten or settled twice; every call ends once the client is terminal; every exchange ends | two calls and the explicit identifier equal to the first number, so that automatic and chosen ones collide; no symmetry (it is unsound for liveness) |
| `client_wrong_answer` | Finding 1 | three calls: one is settled, its identifier is taken by a second, the second is removed, and a third takes its place |
| `stream` | A framed connection refines the document channel and its calls end | two senders and a close on one mutex, a pipe of two bytes, so every frame is written in several pieces |
| `stream_cancel` | Finding 2 | as `stream`, with dropped sends |
| `services` | Pool, polls, streams, the decoder's hand-off, file replacement and ACP runs: nothing lost, nothing left behind, shutdown ends | three connections over two slots; two keys with three polls, limits of one key and two waiters; two streams, two POSTs, two sessions, a queue of one; batches of two, five events, three reads; two process identifiers and two names each; two DELETEs and four runs over a store of two |
| `sse_reopened` | Finding 3 | as `services`, with sessions named again |
| `typescript` | The client keeps the contract and leaves nobody waiting; transports deliver in order and tell the end; servers answer in order and close in time; ACP messages go out in kind; an MCP session answers what it took and ends | two calls, one automatic number and one explicit identifier; a queue of one with four documents in chunks of up to three; two connections, a lane of two, three documents on the first and one on the other; three request identifiers over a map of two; four lines, three in a chunk, two in flight |
| `half_close` | Finding 4 | as `typescript` |
| `documents` | What a peer sends, in bytes and in documents, and what is computed from values and files: see below | see below |
| `halts` | Finding 5 | as `documents`, the bytes and documents of a peer aside |
| `round_trip` | Finding 6 | as `halts` |

The parts of `documents`:

| Part | Property | Inputs |
|---|---|---|
| frames | `ReadsTheFramesSent` | every stream of up to six bytes over base two (two frames, or one with the longest legal payload), in every chunking |
| events | `ReadsTheEventsSent` | every stream of up to five of the five kinds of byte of a line, in chunks of up to three, with a limit of two |
| messages | `MessagesAnswered` | every document of one entry and every batch of up to two over some fifty kinds of entry, and a third one that is over the limit: calls of handlers that end in each of their ways, at the edges of every range, parameters as deep as may be and deeper, entries that are no call for each of the reasons, and responses; a batch limit of two, a depth of two, an `i32` that ends at 40000 and safe integers at 50000, so that each kind of number is there with some that are outside |
| filters | `PathsFollowValues`, `DefinitionsHold`, `RowModesAgree` | every filter of two operators over thirteen atoms, on eight documents and four streams; the definitions for every atom |
| texts | `TextsKeepMeaning` | fourteen leaves that need every kind of quoting in each container, a number in up to three, under six options; logs of up to five rounds, of six kinds; every cut, comment and blank line, three limits |
| files | `StreamFilesKeepRecords` | three calls of a writer and its end, one failing write anywhere, rotation by rows and by bytes |

Three calls are the longest chain the client's guards need (see `client_wrong_answer`). One more connection than
slots makes the backlog wait; two slots are needed to forget a *running* task at a spawn. Of three polls two take
one key, which loses nothing as requests and keys are alike. A batch of two is the smallest that is ever partly
filled. In `typescript` two calls suffice, as a dispatch that is late harms only the one call under its
identifier; a chunk of three overflows a queue of one even while its consumer waits; the second connection is
there for the shutdown to wait for, so one document is enough on it; the map of two forgets one of three.

**How the laws of `documents` are stated.** What is computed from a filter, a text or a file is compared in a
step of its own, `Look`, which changes nothing but `part`: `[][Looking /\ part = "text" => Law]_docVars` says that
`Law` holds in every state of that part, as each of them can be looked at. Written as invariants the same laws
are too large for TLC's coverage, which lists every path through the operators of an invariant.

**Fairness.** Only what the runtime gives. A future that can go on is polled again; a spawned task runs; a
timer that is due fires; exchanges of a request/response transport end (`Fairness`: the HTTP client has its
own timeout; a duplex send is only assumed to end for the properties that need it). Nobody is forced to
call, close, answer, read, push or send: `BacklogIsServed` states the peers' part as its premise
(`PeersFinish`), `EverythingArrives` and `TransportCallsEnd` need a peer that keeps reading, which `FairSpec`
of `FramedStream` states, and the streams' clients read or go away (`SseFairness`). The decoder's threads run
and its source answers; its consumer need not go on (`HandoffFairness`). In TypeScript settled
promises have their continuations run, connecting ends, every exchange ends, a receive loop whose signal is
aborted ends (`ClientFairness`), the loop asks for the next document (`TransportFairness`), a grace period ends
and a destroyed socket closes (`ServerFairness`); there handlers and writes may take for ever. An MCP handler
ends, and Node closes an input that ended or was destroyed (`McpFairness`). `InPlace`, `AcpRuns`, `DualDialect`
and all of `MCDocuments` assume none.

**Deadlock** checks are off: a client, a connection and a server may all stop for good, and do.

### Findings

1. `client_wrong_answer`: `PendingGuard::drop` removes whatever is under its identifier. A settled call whose
   future is polled or dropped late takes a newer call with the same identifier out of the table, which lets a
   third one register under it and receive the second one's answer.
2. `stream_cancel`: dropping a send inside `write_all` releases the writer with half a frame written; the next
   send's frame goes behind it and the peer reads neither.
3. `sse_reopened`: `SessionGuard::drop` has the same shape: an old stream's guard removes the stream that has
   reopened its session. `serve.ts` compares before it deletes (`serve.ts:329`).
4. `half_close`: `serveTcp` creates its server without `allowHalfOpen`. When a peer ends its direction Node ends
   the socket's output before `finish` has waited for the lane, so a handler that is still running has its
   answer refused and the connection destroyed, although `serve.ts:132` says the output ends "once every
   received document is answered".
5. `halts`: the postfix `?` drops whatever error its operand ends with, a halt among them (`eval.rs:343`), although
   `docs/tq-language.md:77` says that neither `try` nor `?` recovers from one; `try` does not.
6. `round_trip`: with the opt-in columns the encoder writes headers and rows that its own decoder reads otherwise,
   so a value comes back as another or not at all. `ExtensionsTold` of `ToonLaws` lists the cases; without them, and
   without the columns, everything is read back (`TextsKeepMeaning`).

Seen while modelling, without a run of their own.

RPC:

- Documents that a chunk completed before a violation in the same chunk are dropped with it
  (`framing.rs:75`, and in TypeScript too); in an earlier chunk they would have been delivered.
- `close` waits behind a send to a peer that does not read (`transport.rs:151`), and so does the client's; it closes
  only the writer, while docs/toon-rpc-spec.md:312 has it terminate a blocked receive.
- `push_event` counts and sends after it gave up the lock (longpolling `lib.rs:75`): a poll may be counted
  and then expire before it looks; its event is lost.
- With `max_waiters_per_key = 0` a refused poll leaves its empty key in the table (longpolling `lib.rs:129`);
  `WaitersInOrder` excludes that setting.
- An SSE stream opened after `close_sessions` of a shutdown lasts until the grace period ends.
- The two SSE parsers count differently: Rust looks at its limit behind a chunk (sse `lib.rs:413`), so whether an
  event passes depends on where the stream was cut; TypeScript looks behind each line and counts a byte more per
  line (`sse.ts:189`).
- `serveStdio`'s `close` gives up after the grace period but destroys nothing (`serve.ts:216`), unlike what
  `serve.ts:20` says of servers in general.
- A chunk with two documents more than a queue's capacity fails the queue even if its consumer waits, as the
  consumer only runs after the chunk was pushed.
- A WebSocket that is closed abnormally ends its queue like one that is closed cleanly (`websocket.ts`).
- With `with_max_batch_length(0)` the JSON dialect refuses every request, as it compares the limit with the list of
  one that it wraps a single request in (`multi.rs:192`); TOON serves them, and `dispatcher.rs:24` has only batches
  refused.
- An identifier `1.0` is accepted in TOON and an invalid request in JSON, though `multi.rs:222` has both validate
  alike.

Adapters:

- A DELETE of a finished run that races another answers 200 with `status: null`, which is no `RunStatus` of
  docs/acp-legacy-openapi.yaml; the same file has POST accept TOON bodies, and `http.rs` parses JSON only.
- A store that is full of live runs evicts a finished run as it is created.
- A DELETE that is dropped while the cancel hook runs leaves a cancelled run in the store as live.
- `acp-stream.ts` takes a stray line that is not JSON for the beginning of a TOON frame, which swallows the JSON
  lines behind it up to a blank line.
- A handler result that `JSON.stringify` refuses rejects `handleLine` (`stdio.ts` of `toon-rpc-mcp`), and
  `serveStdio` never resolves; `HandlerEnds` takes handlers to return what can be written.

Codec and stream files:

- The encoder's depth check and its traversal count differently; where they disagree `encode.rs:447` panics
  (`Panicked` in `ToonEncode`).
- Cyclic flattening loses empty objects, keys with a dot, a number called `length`, labels that are reserved, and
  the order of fields.
- A truncated table with groups is reported without its counts (docs/toon-reddb-spec.md:664-700).
- `detect_toonl_truncation` counts repeated headers as rows and takes a tagged header for an open segment
  (docs/toonl-reddb-spec.md:689-690); `CutsAreReported` leaves such files out.
- A resumed reader has lost the lanes it knew (docs/toonl-reddb-spec.md:455-470).
- A header that cannot be written behind a trailer leaves the writer with the old fields
  (`toonl_and_cyclic_decode.rs:241`): `torn` marks such files, which are refused when read.
- Trimming a file whose last segment is closed before tagged rows leaves an open header at its end.

`tq`:

- `path((.a, error)?)` drops the locations before the error, where `(.a, error)?` keeps the value; the `?` and `//` of
  `paths.rs` pass no halt on. Filters that recover are left out of `PathsFollowValues`.
- Recursion that exhausts its depth under `?` ends in success without a value (`def f: f; f?`).
- Trim takes no lock: rows appended between its reading and its renaming are lost (`toonl_trim.rs:298`).
- A failed write leaves the staged binary of an upgrade. A parked program carries a process identifier in its
  name, so the next upgrade does not clean it up as `upgrade.rs:450-464` says.

## 4. What is proved

TLAPS checks the theorems for every value of the constants; `PROJECT.json` lists them.

**RpcClient_proofs.** The inductive invariant `IInv` is type correctness, `Identified` (a live call has an
identifier; an idle one has been told nothing), `DocumentsAreSent`, `PendingIsUnsettled`, `NoCallForgotten`
and `TerminalTableEmpty`; the last three are `PendingServesCalls` (`PendingServes`). Every settling goes through
one table entry, so `PendingIsUnsettled` is what makes
settling unique (`CallsSettleOnce`), whatever identifiers callers choose. Without reuse, `FreshInv` adds that
identifiers are injective (`UniqueIds`), which turns "removes the entry under its identifier" into "removes
its own entry"; from it follow `AnswersOwn`, `ClosedIsClosed` and the refinement `ClientImplementsContract`.
`SettledByOwn` says more about an answer than that it carries the right identifier: the call was settled while its
own exchange was in progress. `ExchangeInv` adds to `FreshInv` that a call over `Link::RequestResponse` has a
document only while it processes it, and the receive task never has one (`ExchangesApart`).
Assumption: `ClientAssumption` (the sentinels are no calls or identifiers; an explicit identifier is a safe
integer or a string, as `serialization.rs:253` enforces).

**RustServers_proofs: the pool.** Type correctness, `SlotsAddUp` and `DrainCoversRunning` are inductive together
(`PoolStaysInOrder`): the permits are bounded only because the slots add up, and a drained set holds no running
task only because it holds every running one. `PoolIsCapped` follows. Assumption: finitely many connections,
natural limits.

**RustServers_proofs: long-polling.** `PollInv` joins the table's bounds, `WaitersReachable`, `OneEventPerPoll` and
`NoEntryLeaks` (`WaitersStayInOrder`). The step that needs all of them is the guard's: it removes its own entry
only, because an entry is under its poll's key and in no other, and what a push took is in no table.

**RustServers_proofs: the answers to a document.** The state is the document, and what is hard is what is computed
from it. Three arguments meet in `DocumentsAnswered`, which is `MessagesAnswered` for any entries, methods, handlers
and limits.

1. What an entry is: `decode_call` reads as calls exactly what the specification calls one (`CallsAreSpecified`),
   and its JSON-RPC twin as the same call (`RenamedCall`; no value of it is looked at differently, `ValidAlike`).
2. What is sent: a response is fine (`IsFine`) if it has a result or an error, not both, valid values and a code
   that may be written. A fine response is written (`FineIsSent`), read back as it was (`FineReads`, which needs
   `CodeReads`: the number of a code is an `i32` and names that code), and stays fine in the last look
   (`LastLook`), which never replaces an error without data (`ErrorsStay`; that is where a depth limit of two is
   needed). Whatever a handler returns, what is made of it is fine and speaks for it (`HandlersErrors`,
   `RequestAnswered`).
3. Which answer is whose: a document comes to what comes of its entries, whether it was read as a batch, as a
   response or not at all (`DocumentHandled`), or is refused. Each entry gets as many answers as it is owed, each
   the one it is owed (`EntryMet`), and joining sequences that are alike one by one gives sequences that are alike
   (`FlatAlike`), so that the notifications, which are owed nothing, shift no answer to another's place.

Assumption: `MessagesAssumption`: handlers return what their type lets them, a depth limit of at least two (1000 in
the code), and safe integers that reach beyond `i32`. That both dialects agree also takes that the entries say no
version that only one of them knows, and that a batch limit of 0 is not in use (`Comparable`; see the end of section 3).

**TsClient_proofs.** `TsInv` is type correctness, `Stepwise` (what a call's step says of its identifier and
result), `PendingOwn` (the table holds calls under their own identifiers that were told nothing, and late ones
exactly when the client has ended), `LateOnEnded`, `Distinct` (without reuse one identifier names one call),
`AnswersFit` (an answer is to the same identifier and was asked for) and `ClosedTrue`. Every event that settles
a call is one use of `Settle` under one identifier, so one lemma (`SettleStep`, `SettleContract`) covers
dispatches, timers, signals, exchanges and the receive loop; `Terminate` has another. From them follow
`TsClientTypes` and the refinement `TsClientImplementsContract`, for callers of both kinds. Assumption:
`TsClientAssumption`, the sentinels and safe integers as above.

**RustServers_proofs: event streams.** What a client got and what is queued for it are one sequence (`Whole`), of which delivering
an event changes nothing. `SseInv` says that its members are acknowledged and found this stream (`Placed`), that an
acknowledged POST is a member while its stream is open (`NoneLost`), and that a POST in progress is not
acknowledged (`Unanswered`), which is why the one `SendEvent` appends is new. The table needs `TableSound`, that a
POST finds a stream that was opened (`PostsFound`) and, where sessions are drawn afresh, that no two streams share
one (`Distinct`): only then a guard removes its own entry. `SseStreams` holds for any streams, POSTs and queues;
assumption: `SessionAssumption`, the sentinels are no streams or sessions.

**Local_proofs: the hand-off.** `HandoffInv` adds to the order of items where the batch is empty: while the worker asks,
reads or has ended, with what is pending empty while the consumer waits. A source that is read then has a
consumer that holds everything emitted, which is `SourceReadOnDemand`; `HandoffKeptPace` holds for any batch size,
document and number of reads.

**Local_proofs: replacing a file.** `InPlaceInv` says that what is about to be renamed was synced (`Synced`), that what is parked
is whole, that only Windows moves the file aside, and that whoever did is in the middle of it or gone. Then
`FileStaysWholeAlways`, for any number of processes that fail, die or lose power, on the assumption about renames
of 2.10.

**Local_proofs: the readers of lines.** The Rust parser is a fold over bytes, so it has what the whole would give
until a chunk leaves it with more than the limit; the bytes of that chunk are all that an event can be over it. The
TypeScript parser looks behind every line, so what it has refused is a prefix that ends there, and
no event is past the limit (`ReadInv`, `EventsReadUncut`). The splitter rests on three facts about where a frame
stops (`FrameStop`): a stop stays where it is whatever follows (`FrameStopStays`); line ends in front may be dropped
early or late (`UnpaddedJoin`); so a turn of `drainFrames` is the same before and after more has come
(`NextFrameJoins`), and draining what is there first makes no difference to the whole. That is
`FramesReadUncut`, also where CR and LF are cut apart. What the encoders write is read back at any length:
`EncodedEventsRead` by the lines of the document, `EncodedMessagesRead` with any stream behind the message, for
messages that `encodeFrame` can frame (`Framable`: not empty, of the dialect that is sniffed from it; JSON on one
line, TOON without a line end in front or a blank line inside). `LinesRead` joins them:
`ReadsTheEventsSent`, for streams of any bytes and length.
Assumptions: natural limits, and kinds of byte that differ.

**Adapters_proofs: the run store.** First what the queue's operators do: `RetainProperties` and `VictimProperties`, and
of `Lemmas` `LeastPosition` (the first finished run is well defined) and `RemoveAtProperties`. The queue ascends, so
a run is in it once and taking it out takes nothing else with it. `AcpInv` joins the store's order (`StoreInv`) and
what a DELETE in progress knows of its run (`DeleteInv`): it was created, so no later insertion brings it back; it is
not live where it is released, and its hook succeeded where it is removed. `RunsAreRetained` is both parts of
`RunsRetained`, for any capacity and any number of runs and requests.

**Adapters_proofs: the MCP session.** A request is in one of three places: in flight, answered, or, in a session
that was refused, the last line. `McpInv` says this of the session (`NoneLost`), that nothing is in two of them or
twice in one (`AnswersHold`, `TakenHolds`), and that whoever has a result has an initialize in front
of it; the fold over the lines of a chunk keeps all of it (`TakeLinesHolds`). `McpAnswered` is
`McpRequestsAnswered`, for any cap and number of lines. Assumption: `McpAssumption`.

**Adapters_proofs: the dual dialect stream.** That a request is still in the map cannot be seen from the map: what
is pushed out at the front must have been followed by as many as the cap. `KeepsOpen` therefore bounds the entries
behind a request by the number of requests that came since. With `MapHolds` (an identifier is
in the map once, in a dialect the peer has shown) it makes `AnswersInKind` inductive (`DialectsAnswerInKind`), for
any identifiers and cap.

**TsStreams_proofs: the transports.** `QueueHolds` says that what was taken and what is queued are the numbers from
one on, without a gap, and up to the last that came in while the queue is open; `EndHolds`, that an end without a
failure, and without `close()`, is that of a connection that is gone, with the decoder at a boundary and everything
in the queue. A chunk is a loop of `push` and `next`, whose invariant is
`PushedAllHolds`. `TsTransportInOrder` is `TsStreamInOrder` for any capacity, number of documents and size of a
chunk. Assumption: `TransportAssumption`.

**TsStreams_proofs: the servers.** `LaneHolds` orders what a connection accepted, finished and wrote; `Owing` says
what is told of its documents while nothing has cut it: each finished one was answered or asks for no answer, and
the output ends behind all of them. A TCP peer that ended its direction is not `Undisturbed`: that is finding 4.
`TsServerInOrder` is `TsAnswersInOrder`, for any connections and queue. Assumption: `ServerAssumption`.

**Frames_proofs.** Four layers, each resting on the one below.

1. Digits and numbers are inverse (`DecimalReadsBack`, `NumberWritesBack`): each length has one header, for every base.
2. `TakeFrame` finds the frame that a buffer begins with (`TakesFrame`), waits while it has a part of one
   (`WaitsForFrame`), and what it finds was such a frame (`TakeFrameIs`). Every frame has bytes, so `Push` ends with
   nothing left to take (`PushIs`).
3. The reader: `ReadInv` says that the frames of what was returned and is ready, then the buffer, are what was read,
   and that `TakeFrame` finds nothing in the buffer; of a reader that refused, that it stood where no frame can be.
   `ReaderReadsFrames` is `ReadsTheFramesSent`, for streams of any bytes and length. It assumes
   `FramingAssumption` and `CapAssumption`: the longest legal payload has a header of legal length, as
   16 MiB has of 15 digits. Without it an encoder could write what no decoder reads.
4. The transport: `StreamInv` joins types, the mutex (`Turns`: who writes holds it, and the writer is open), where an
   end comes from (`EndIsKnown`) and `Underway`: the documents accepted are those delivered or ready, then some whose
   frames are, with a part of one more, exactly the bytes in the buffer and on the wire; and that
   part, with what its sender has left to write, is one frame. As a stream decodes in one way only (`Decodes`),
   `Push` takes from it what was written. `StreamCarries` is `CarriesWholeDocuments` and
   `StreamImplementsChannel` the refinement of `DocumentChannel`, for any documents, senders and pipe. Both assume
   `~MayCancel`: with sends that are dropped while they write both are false (finding 2).

**Lemmas.** The provers have no induction over an operator, so an induction shows that a *set* has every number
(`UpToInduction`, `SetInduction`, from the well-foundedness of `<`), and a loop of the code is a recursive function
that is shown to exist (`LoopExists`), to keep what each round keeps (`LoopKeeps`) and to be
unique (`LoopsAgree`). The folds of the models are written as such functions for this reason. The rest is about
sequences: concatenation associates, is cancelled and overlaps as one expects, and a waiter leaves a queue.

**Only model-checked:** liveness under fairness and `ENABLED` (`EveryCallEnds` and the like, `TransportCallsEnd`,
`EverythingArrives`), and what `documents` says of filters, texts and files: recursive operators over data
(`PathsFollowValues`, `DefinitionsHold`, `RowModesAgree`), and text put together from strings, which the provers take
as whole values (`TextsKeepMeaning`, `StreamFilesKeepRecords`). Every invariant that a passing
run checks is proved. The action properties of a component whose invariant is proved are proved with it where the
table of `PROJECT.json` names them.

## 5. Plan

The project keeps to few runs, which its components share. What is left, in order:

1. Theorems: action properties of components whose invariants are proved and that no run states yet; the decoder's
   loops over lines (`StreamFilesKeepRecords`), which would have to be written without recursion over text.
2. The lexer and parser of `tq` and its builtins on text, time and numbers: functions without control of their
   own, worth modelling only where one of them decides a path.
3. A trim that races a writer of the same file: a composition of `Toonl` and `InPlace`, in which rows that are
   appended in between are lost.

## 6. What is not modelled

- The command lines, the code generator, the examples, the editor extension, the scripts and the benchmarks:
  sequential translations of text without state that interleaves.
- The TypeScript codec, of which the Rust one is a port; the TypeScript ACP package and the Rust client transports,
  which hand on one document at a time over what is modelled.
- The Rust TCP, HTTP and WebSocket servers: loops of `serve_pooled` and `serve_framed_with` around libraries.
- Of modelled components: the parser of `tq` and its functions on text, the encoder's replacer callback, `ToonlEncoder`
  and the conversions from JSON Lines, the release lookup and download of an upgrade, the Rust MCP session,
  which answers one line after the other.

The HTTP and WebSocket libraries, tokio and Node are outside the repository; their behaviour is what the code
relies on (a mutex that hands itself over in turn, `select!` without bias, events between awaits). Panics inside
handlers end their task, which `Fail` covers. `PROJECT.json` gives the status of every component.
